------------------------- MODULE NotifierStoreProofs -------------------------
(***************************************************************************)
(* A lookup returns the line of the id asked for, for any number of        *)
(* transactions and crashes and any size of the cache.                     *)
(*                                                                         *)
(* The argument: a crash tears only the last line of the file, and never   *)
(* the first line of a batch; the batch is then written again, so that     *)
(* behind each torn line of what is done there is a whole one (Mended),    *)
(* and all lines of what is done stand before those of the next batch      *)
(* (Ordered).  An index entry of what is done is right, or is not set and  *)
(* a scan reaches the line before any torn one (AllFound); of the ring the *)
(* slots from entry_min_pos on may be wrong only about ids that an earlier *)
(* slot has right (Ring).                                                  *)
(***************************************************************************)
EXTENDS NotifierStore, SequenceTheorems, WellFoundedInduction, TLAPS

USE StoreAssumption DEF StoreAssumption, Ids

----------------------------------------------------------------------------
(* Files of lines *)

\* Where fgets() takes a line to begin.
Begins(f, s) == s \in 1..Len(f) /\ (s = 1 \/ f[s - 1].part = "tail")

WholeAt(f, s, n) == /\ s \in 1..Len(f) - 1
                    /\ f[s] = [id |-> n, part |-> "head"]
                    /\ f[s + 1] = [id |-> n, part |-> "tail"]

\* The line that begins at s is torn: it ends with the file, or with another line.
Broken(f, s) == Begins(f, s) /\ ~(s + 1 \in 1..Len(f) /\ f[s + 1].part = "tail")

\* f has a line of n that begins where the line before it ends, in a..b.
LineIn(f, n, a, b) == \E s \in a..b : Begins(f, s) /\ WholeAt(f, s, n)

TailsFollow(f) ==
  \A k \in 1..Len(f) : f[k].part = "tail" =>
    k > 1 /\ f[k - 1] = [id |-> f[k].id, part |-> "head"]

\* What follows a torn line is a whole one.
HeadsBegin(f) ==
  \A k \in 1..Len(f) :
    f[k].part = "head" /\ (k = Len(f) \/ f[k + 1].part = "head") => Begins(f, k)

IdsUpTo(f, l) == \A k \in 1..Len(f) : f[k].id \in 1..l

\* The first line of a batch is never torn: it fits into the buffer.
FirstUnbroken(f, d) == \A s \in 1..Len(f) : Broken(f, s) => f[s].id # d + 1

\* The attempts at the present batch come after all that is done ...
Ordered(f, d) ==
  \A i \in 1..Len(f) : \A j \in 1..Len(f) : f[i].id <= d /\ f[j].id > d => i < j

\* ... and the first of them has its lines in order.
Preceded(f, d) ==
  \A q \in 1..Len(f) : \A m \in d + 1..f[q].id - 1 : LineIn(f, m, 1, q - 1)

\* A torn line up to n has been written again behind it.
Mended(f, n) ==
  \A b \in 1..Len(f) : Broken(f, b) /\ f[b].id <= n => LineIn(f, f[b].id, b + 1, Len(f))

File(f, d, l) ==
  /\ TailsFollow(f) /\ HeadsBegin(f) /\ IdsUpTo(f, l)
  /\ FirstUnbroken(f, d) /\ Ordered(f, d) /\ Preceded(f, d) /\ Mended(f, d)

EndsIn(f, n) == /\ Len(f) > 1
                /\ WholeAt(f, Len(f) - 1, n)

----------------------------------------------------------------------------
(* The inductive invariant *)

\* The file as it will be when the buffer has been written.
F == tf \o buf

Writing == pc \in {"dump", "close", "unlink"}

Phase ==
  /\ pc = "dump" => pos \in done + 1..last
  /\ pc \in {"close", "unlink"} => pos = last + 1 /\ last > done
  /\ pc = "publish" => pos \in 1..done /\ last = done
  /\ pc = "init" => pos \in First..lastId /\ First >= 0 /\ max_filled = 0
  /\ pc \in {"down", "init"} => entry_min_pos = 0
  /\ ~Writing \/ pc = "unlink" => buf = <<>> /\ ibuf = None
  /\ pc = "serve" => last = done
  /\ pc \in {"init", "take", "serve"} /\ last = done => lastId = done

Files == File(tf, done, last) /\ File(F, done, last)

\* Where a listener finds transaction n: through the index, or as the first line
\* of n in the file.
Found(f, ix, n) ==
  \/ WholeAt(f, ix[n], n)
  \/ /\ ix[n] = 0
     /\ \E s \in 1..Len(f) : /\ Begins(f, s) /\ WholeAt(f, s, n)
                             /\ \A b \in 1..Len(f) : Broken(f, b) => s < b
AllFound(ix) == ix[0] = 0 /\ \A n \in 1..done : Found(tf, ix, n)

Batch == Writing =>
  /\ \A m \in done + 1..pos - 1 : LineIn(F, m, 1, Len(F)) /\ WholeAt(F, Flushed[m], m)
  /\ Mended(F, pos - 1)
  /\ pos > done + 1 => /\ EndsIn(F, pos - 1)
                       /\ Begins(F, Len(F) - 1) \/ (pos = done + 2 /\ last > done + 1)
  /\ pos = done + 1 => buf = <<>> /\ ibuf = None
  /\ ibuf # None => ibuf.id \in done + 1..pos - 1

LastLine ==
  last = done => IF done = 0 THEN tf = <<>>
                 ELSE EndsIn(tf, done) /\ Begins(tf, Len(tf) - 1)

\* The cache: up to Published an id is found there with its line or not at all.
Published == IF pc = "publish" THEN pos - 1 ELSE done

Right(i) == cache[i].line = Line(cache[i].id)

Filling ==
  pc = "init" =>
    /\ \A i \in Slots : cache[i].id \in 1..done => Right(i)
    /\ pos = 0 => \A i \in Slots : cache[i].id = 0
    /\ lastId > done => \E q \in 1..Len(tf) : tf[q].id = lastId

Ring ==
  pc # "init" =>
    /\ \A i \in 0..max_filled - 1 :
         /\ cache[i].id > Published => entry_min_pos <= i
         /\ cache[i].id \in 1..Published /\ ~Right(i) =>
              /\ entry_min_pos <= i
              /\ \E j \in 0..entry_min_pos - 1 : cache[j].id = cache[i].id
    /\ max_filled < CacheSize - 1 =>
         /\ entry_min_pos = 0
         /\ \A i \in Slots : cache[i].id # 0 => cache[i].id <= Published /\ Right(i)

Inv == Phase /\ Files /\ AllFound(idx) /\ Batch /\ LastLine /\ Filling /\ Ring

IInv == TypeOK /\ Inv
----------------------------------------------------------------------------
(* Writing to a file *)

LEMMA CatBytes ==
  ASSUME NEW f \in Seq(Bytes), NEW g \in Seq(Bytes)
  PROVE  /\ f \o g \in Seq(Bytes) /\ Len(f) \in Nat /\ Len(g) \in Nat
         /\ Len(f \o g) = Len(f) + Len(g)
         /\ \A i \in 1..Len(f) : f[i] \in Bytes /\ (f \o g)[i] = f[i]
         /\ \A i \in 1..Len(g) : g[i] \in Bytes /\ (f \o g)[Len(f) + i] = g[i]
<1>1. /\ f \o g \in Seq(Bytes) /\ Len(f \o g) = Len(f) + Len(g)
      /\ Len(f) \in Nat /\ Len(g) \in Nat
      /\ \A i \in 1..Len(f) + Len(g) :
           (f \o g)[i] = IF i <= Len(f) THEN f[i] ELSE g[i - Len(f)]
  BY ConcatProperties, LenProperties
<1>2. ASSUME NEW i \in 1..Len(f)
      PROVE  f[i] \in Bytes /\ (f \o g)[i] = f[i]
  BY <1>1, ElementOfSeq
<1>3. ASSUME NEW i \in 1..Len(g)
      PROVE  g[i] \in Bytes /\ (f \o g)[Len(f) + i] = g[i]
  <2>1. Len(f) + i \in 1..Len(f) + Len(g) /\ ~(Len(f) + i <= Len(f)) /\ (Len(f) + i) - Len(f) = i
    BY <1>1
  <2>2. (f \o g)[Len(f) + i] = g[(Len(f) + i) - Len(f)]
    BY <1>1, <2>1
  <2> QED  BY <2>1, <2>2, ElementOfSeq
<1> QED  BY <1>1, <1>2, <1>3

LEMMA BytesOf ==
  ASSUME NEW f \in Seq(Bytes)
  PROVE  /\ Len(f) \in Nat /\ DOMAIN f = 1..Len(f)
         /\ \A k \in 1..Len(f) : /\ f[k] \in Bytes /\ f[k].id \in Ids
                                 /\ f[k].part \in {"head", "tail"}
                                 /\ f[k] = [id |-> f[k].id, part |-> f[k].part]
<1>1. Len(f) \in Nat /\ DOMAIN f = 1..Len(f) /\ \A k \in 1..Len(f) : f[k] \in Bytes
  BY LenProperties, ElementOfSeq
<1> QED  BY <1>1 DEF Bytes

\* What is appended changes nothing before it, except what follows the last byte.
LEMMA Appending ==
  ASSUME NEW f \in Seq(Bytes), NEW g \in Seq(Bytes)
  PROVE  LET h == f \o g
         IN /\ \A s \in 1..Len(f) : Begins(h, s) <=> Begins(f, s)
            /\ \A s, n : WholeAt(f, s, n) => WholeAt(h, s, n)
            /\ \A n, a, b : LineIn(f, n, a, b) => LineIn(h, n, a, b)
            /\ \A s \in 1..Len(f) : Broken(h, s) => Broken(f, s)
<1> DEFINE h == f \o g
<1>1. /\ Len(f) \in Nat /\ Len(g) \in Nat /\ Len(h) = Len(f) + Len(g)
      /\ \A i \in 1..Len(f) : h[i] = f[i]
  BY CatBytes
<1> HIDE DEF h
<1>2. \A s \in 1..Len(f) : Begins(h, s) <=> Begins(f, s)
  BY <1>1 DEF Begins
<1>3. \A s, n : WholeAt(f, s, n) => WholeAt(h, s, n)
  BY <1>1 DEF WholeAt
<1>4. \A s : Begins(f, s) => s \in 1..Len(f)
  BY DEF Begins
<1>5. \A n, a, b : LineIn(f, n, a, b) => LineIn(h, n, a, b)
  BY <1>2, <1>3, <1>4 DEF LineIn
<1>6. \A s \in 1..Len(f) : Broken(h, s) => Broken(f, s)
  BY <1>1, <1>2 DEF Broken
<1> QED  BY <1>2, <1>3, <1>5, <1>6 DEF h

LEMMA LineBytes ==
  ASSUME NEW n \in Ids
  PROVE  /\ Line(n) \in Seq(Bytes) /\ Len(Line(n)) = 2 /\ Line(n) # <<>>
         /\ Line(n)[1] = [id |-> n, part |-> "head"]
         /\ Line(n)[2] = [id |-> n, part |-> "tail"]
BY DEF Line, Bytes

\* The next line of the batch is written behind a file, which may end in a torn line.
LEMMA WriteLine ==
  ASSUME NEW f \in Seq(Bytes), NEW d \in Ids, NEW l \in Ids, NEW n \in d + 1..l,
         File(f, d, l), \A m \in d + 1..n - 1 : LineIn(f, m, 1, Len(f)),
         n > d + 1 => EndsIn(f, n - 1)
  PROVE  LET h == f \o Line(n)
         IN /\ File(h, d, l) /\ EndsIn(h, n) /\ LineIn(h, n, 1, Len(h))
            /\ Mended(f, n - 1) => Mended(h, n)
            /\ Begins(h, Len(h) - 1) \/ (n = d + 1 /\ l > d + 1)
            /\ WholeAt(h, Len(f) + 1, n)
<1> DEFINE h == f \o Line(n)
           L == Len(f)
<1>0. n \in Ids /\ d \in Nat /\ l \in Nat /\ n \in Nat
  BY DEF Ids
<1>1. /\ L \in Nat /\ Len(h) = L + 2 /\ h \in Seq(Bytes)
      /\ \A i \in 1..L : h[i] = f[i] /\ f[i] \in Bytes
      /\ h[L + 1] = [id |-> n, part |-> "head"]
      /\ h[L + 2] = [id |-> n, part |-> "tail"]
  <2> DEFINE g == Line(n)
  <2>1. g \in Seq(Bytes) /\ Len(g) = 2 /\ 1 \in 1..Len(g) /\ 2 \in 1..Len(g)
        /\ g[1] = [id |-> n, part |-> "head"] /\ g[2] = [id |-> n, part |-> "tail"]
    BY <1>0, LineBytes
  <2> HIDE DEF g
  <2>2. /\ f \o g \in Seq(Bytes) /\ L \in Nat /\ Len(f \o g) = L + Len(g)
        /\ \A i \in 1..L : f[i] \in Bytes /\ (f \o g)[i] = f[i]
        /\ \A i \in 1..Len(g) : (f \o g)[L + i] = g[i]
    BY <2>1, CatBytes, Zenon
  <2>3. (f \o g)[L + 1] = g[1] /\ (f \o g)[L + 2] = g[2]
    BY <2>1, <2>2
  <2> QED  BY <2>1, <2>2, <2>3 DEF g
<1>2. /\ \A s \in 1..L : Begins(h, s) <=> Begins(f, s)
      /\ \A m, a, b : LineIn(f, m, a, b) => LineIn(h, m, a, b)
      /\ \A s \in 1..L : Broken(h, s) => Broken(f, s)
  BY <1>0, Appending, LineBytes
<1>3. /\ \A k \in 1..L : f[k].id \in Nat /\ f[k].part \in {"head", "tail"}
  BY <1>1 DEF Bytes, Ids
<1> HIDE DEF h
<1>4. \A k \in 1..L + 2 : k \in 1..L \/ k = L + 1 \/ k = L + 2
  BY <1>1
<1>5. \A s \in 1..Len(h) : Broken(h, s) => s \in 1..L /\ Broken(f, s)
  <2> SUFFICES ASSUME NEW s \in 1..Len(h), Broken(h, s)  PROVE s \in 1..L /\ Broken(f, s)
    OBVIOUS
  <2>1. s # L + 1
    BY <1>1 DEF Broken
  <2>2. s # L + 2
    BY <1>1 DEF Broken, Begins
  <2> QED  BY <1>1, <1>2, <1>4, <2>1, <2>2
<1>6. TailsFollow(h)
  <2> SUFFICES ASSUME NEW k \in 1..L + 2, h[k].part = "tail"
               PROVE  k > 1 /\ h[k - 1] = [id |-> h[k].id, part |-> "head"]
    BY <1>1 DEF TailsFollow
  <2>1. CASE k \in 1..L
    <3>1. k > 1 /\ f[k - 1] = [id |-> f[k].id, part |-> "head"]
      BY <1>1, <2>1 DEF File, TailsFollow
    <3>2. k - 1 \in 1..L
      BY <1>1, <2>1, <3>1
    <3>3. h[k - 1] = f[k - 1] /\ h[k] = f[k]
      BY <1>1, <2>1, <3>2
    <3> QED  BY <3>1, <3>3
  <2>2. CASE k = L + 2
    <3>1. k > 1 /\ h[k - 1] = h[L + 1] /\ h[k].id = n
      BY <1>1, <2>2
    <3> QED  BY <1>1, <3>1
  <2> QED  BY <1>1, <1>4, <2>1, <2>2
<1>7. HeadsBegin(h)
  <2> SUFFICES ASSUME NEW k \in 1..L + 2,
                      h[k].part = "head" /\ (k = L + 2 \/ h[k + 1].part = "head")
               PROVE  Begins(h, k)
    BY <1>1 DEF HeadsBegin
  <2>1. k \in 1..L
    <3>1. k # L + 2
      BY <1>1
    <3>2. k # L + 1
      <4> SUFFICES ASSUME k = L + 1  PROVE FALSE
        OBVIOUS
      <4>1. k + 1 = L + 2 /\ k # L + 2
        BY <1>1
      <4> QED  BY <1>1, <4>1
    <3> QED  BY <1>4, <3>1, <3>2
  <2>2. f[k].part = "head" /\ (k = L \/ f[k + 1].part = "head")
    <3>1. k = L \/ k + 1 \in 1..L
      BY <1>1, <2>1
    <3> QED  BY <1>1, <2>1, <3>1
  <2> QED  BY <1>2, <2>1, <2>2 DEF File, HeadsBegin
<1>8. IdsUpTo(h, l)
  BY <1>0, <1>1, <1>4 DEF File, IdsUpTo
<1>9. FirstUnbroken(h, d)
  BY <1>1, <1>5 DEF File, FirstUnbroken
<1>10. Ordered(h, d)
  <2> SUFFICES ASSUME NEW i \in 1..L + 2, NEW j \in 1..L + 2, h[i].id <= d, h[j].id > d
               PROVE  i < j
    BY <1>1 DEF Ordered
  <2>1. i \in 1..L
    BY <1>0, <1>1, <1>4
  <2>2. CASE j \in 1..L
    BY <1>1, <2>1, <2>2 DEF File, Ordered
  <2> QED  BY <1>1, <1>4, <2>1, <2>2
<1>11. Preceded(h, d)
  <2> SUFFICES ASSUME NEW q \in 1..L + 2, NEW m \in d + 1..h[q].id - 1
               PROVE  LineIn(h, m, 1, q - 1)
    BY <1>1 DEF Preceded
  <2>1. CASE q \in 1..L
    <3>1. LineIn(f, m, 1, q - 1)
      BY <1>1, <2>1 DEF File, Preceded
    <3> QED  BY <1>2, <3>1
  <2>2. CASE q \notin 1..L
    <3>1. h[q].id = n
      BY <1>1, <1>4, <2>2
    <3>2. LineIn(h, m, 1, L)
      BY <1>2, <3>1
    <3>3. 1..L \subseteq 1..q - 1
      BY <1>1, <2>2
    <3> QED  BY <3>2, <3>3 DEF LineIn
  <2> QED  BY <2>1, <2>2
<1>12. ASSUME NEW b \in 1..Len(h), NEW m, LineIn(f, m, b + 1, L)
       PROVE  LineIn(h, m, b + 1, Len(h))
  <2>1. LineIn(h, m, b + 1, L) /\ b + 1..L \subseteq b + 1..Len(h)
    BY <1>1, <1>2, <1>12
  <2> QED  BY <2>1 DEF LineIn
<1>13. Mended(h, d)
  BY <1>1, <1>5, <1>12 DEF File, Mended
<1>14. WholeAt(h, L + 1, n) /\ EndsIn(h, n)
  <2>1. L + 1 \in 1..Len(h) - 1 /\ Len(h) - 1 = L + 1 /\ (L + 1) + 1 = L + 2 /\ Len(h) > 1
    BY <1>1
  <2> QED  BY <1>1, <2>1 DEF WholeAt, EndsIn
<1>15. CASE L > 0 /\ f[L].part = "head"
  <2>1. L \in 1..L /\ Broken(f, L)
    BY <1>1, <1>15 DEF File, HeadsBegin, Broken
  <2>2. f[L].id \in 1..l /\ f[L].id # d + 1
    BY <2>1 DEF File, IdsUpTo, FirstUnbroken
  <2>3. f[L].id > d
    <3> SUFFICES ASSUME f[L].id <= d  PROVE FALSE
      BY <1>0, <1>3, <2>1
    <3>1. LineIn(f, f[L].id, L + 1, L)
      BY <2>1 DEF File, Mended
    <3> QED  BY <1>1, <3>1 DEF LineIn
  <2>4. l > d + 1 /\ d + 1 \in d + 1..f[L].id - 1
    BY <1>0, <2>2, <2>3
  <2>5. n = d + 1
    <3> SUFFICES ASSUME n > d + 1  PROVE FALSE
      BY <1>0
    <3>1. f[L].part = "tail"
      <4>1. (L - 1) + 1 = L /\ WholeAt(f, L - 1, n - 1)
        BY <1>1 DEF EndsIn
      <4> QED  BY <4>1 DEF WholeAt
    <3> QED  BY <1>15, <3>1
  <2>6. LineIn(f, n, 1, L - 1)
    BY <2>1, <2>4, <2>5 DEF File, Preceded
  <2>7. LineIn(h, n, 1, Len(h))
    <3>1. LineIn(h, n, 1, L - 1) /\ 1..L - 1 \subseteq 1..Len(h)
      BY <1>1, <1>2, <2>6
    <3> QED  BY <3>1 DEF LineIn
  <2>8. Mended(f, n - 1) => Mended(h, n)
    <3> SUFFICES ASSUME NEW b \in 1..Len(h), Broken(h, b), h[b].id <= n, Mended(f, n - 1)
                 PROVE  LineIn(h, h[b].id, b + 1, Len(h))
      BY DEF Mended
    <3>1. b \in 1..L /\ Broken(f, b) /\ h[b] = f[b] /\ f[b].id \in Nat
      BY <1>1, <1>3, <1>5
    <3>2. f[b].id # n
      BY <2>5, <3>1 DEF File, FirstUnbroken
    <3>3. LineIn(f, f[b].id, b + 1, L)
      BY <1>0, <3>1, <3>2 DEF Mended
    <3> QED  BY <1>12, <3>1, <3>3
  <2> QED  BY <1>6, <1>7, <1>8, <1>9, <1>10, <1>11, <1>13, <1>14, <2>4, <2>5, <2>7, <2>8
           DEF File, h
<1>16. CASE ~(L > 0 /\ f[L].part = "head")
  <2>1. Begins(h, L + 1)
    <3>1. L + 1 \in 1..Len(h) /\ (L + 1) - 1 = L
      BY <1>1
    <3>2. L + 1 = 1 \/ h[L].part = "tail"
      BY <1>1, <1>3, <1>16
    <3> QED  BY <3>1, <3>2 DEF Begins
  <2>2. LineIn(h, n, 1, Len(h))
    BY <1>1, <1>14, <2>1 DEF LineIn
  <2>3. Mended(f, n - 1) => Mended(h, n)
    <3> SUFFICES ASSUME NEW b \in 1..Len(h), Broken(h, b), h[b].id <= n, Mended(f, n - 1)
                 PROVE  LineIn(h, h[b].id, b + 1, Len(h))
      BY DEF Mended
    <3>1. b \in 1..L /\ Broken(f, b) /\ h[b] = f[b] /\ f[b].id \in Nat
      BY <1>1, <1>3, <1>5
    <3>2. CASE f[b].id = n
      <4>1. L + 1 \in b + 1..Len(h)
        BY <1>1, <3>1
      <4> QED  BY <1>14, <2>1, <3>1, <3>2, <4>1 DEF LineIn
    <3>3. CASE f[b].id # n
      <4>1. LineIn(f, f[b].id, b + 1, L)
        BY <1>0, <3>1, <3>3 DEF Mended
      <4> QED  BY <1>12, <3>1, <4>1
    <3> QED  BY <3>2, <3>3
  <2>4. Len(h) - 1 = L + 1
    BY <1>1
  <2> QED  BY <1>6, <1>7, <1>8, <1>9, <1>10, <1>11, <1>13, <1>14, <2>1, <2>2, <2>3, <2>4
           DEF File, h
<1> QED  BY <1>15, <1>16

\* The buffer is full within a line: never within the first of a batch.
LEMMA WriteHead ==
  ASSUME NEW f \in Seq(Bytes), NEW d \in Ids, NEW l \in Ids, NEW n \in d + 2..l,
         File(f, d, l), \A m \in d + 1..n - 1 : LineIn(f, m, 1, Len(f)),
         EndsIn(f, n - 1)
  PROVE  File(f \o <<[id |-> n, part |-> "head"]>>, d, l)
<1> DEFINE head == <<[id |-> n, part |-> "head"]>>
           h == f \o head
           L == Len(f)
<1>0. n \in Ids /\ d \in Nat /\ l \in Nat /\ n \in Nat
  OBVIOUS
<1>1. /\ L \in Nat /\ L > 1 /\ Len(h) = L + 1 /\ h \in Seq(Bytes)
      /\ \A i \in 1..L : h[i] = f[i] /\ f[i] \in Bytes
      /\ h[L + 1] = [id |-> n, part |-> "head"]
      /\ f[L].part = "tail"
  <2>1. head \in Seq(Bytes) /\ Len(head) = 1 /\ head[1] = [id |-> n, part |-> "head"]
    BY <1>0 DEF Bytes
  <2> HIDE DEF head
  <2>2. L > 1 /\ f[L].part = "tail"
    <3>1. L \in Nat /\ (L - 1) + 1 = L /\ L > 1 /\ WholeAt(f, L - 1, n - 1)
      BY LenProperties DEF EndsIn
    <3> QED  BY <3>1 DEF WholeAt
  <2>3. 1 \in 1..Len(head)
    BY <2>1
  <2>4. /\ f \o head \in Seq(Bytes) /\ L \in Nat /\ Len(f \o head) = L + Len(head)
        /\ \A i \in 1..L : f[i] \in Bytes /\ (f \o head)[i] = f[i]
        /\ \A i \in 1..Len(head) : (f \o head)[L + i] = head[i]
    BY <2>1, CatBytes, Zenon
  <2>5. (f \o head)[L + 1] = head[1]
    BY <2>3, <2>4
  <2> QED  BY <2>1, <2>2, <2>4, <2>5
<1>2. /\ \A s \in 1..L : Begins(h, s) <=> Begins(f, s)
      /\ \A m, a, b : LineIn(f, m, a, b) => LineIn(h, m, a, b)
      /\ \A s \in 1..L : Broken(h, s) => Broken(f, s)
  <2>1. head \in Seq(Bytes)
    BY <1>0 DEF Bytes
  <2> QED  BY <2>1, Appending
<1>3. /\ \A k \in 1..L : f[k].id \in Nat /\ f[k].part \in {"head", "tail"}
  BY <1>1 DEF Bytes
<1> HIDE DEF h
<1>4. \A k \in 1..L + 1 : k \in 1..L \/ k = L + 1
  BY <1>1
<1>5. Begins(h, L + 1)
  <2>1. L + 1 \in 1..Len(h) /\ (L + 1) - 1 = L /\ h[L].part = "tail"
    BY <1>1
  <2> QED  BY <2>1 DEF Begins
<1>6. TailsFollow(h)
  <2> SUFFICES ASSUME NEW k \in 1..L + 1, h[k].part = "tail"
               PROVE  k > 1 /\ h[k - 1] = [id |-> h[k].id, part |-> "head"]
    BY <1>1 DEF TailsFollow
  <2>1. k \in 1..L
    BY <1>1, <1>4
  <2>2. k > 1 /\ f[k - 1] = [id |-> f[k].id, part |-> "head"]
    BY <1>1, <2>1 DEF File, TailsFollow
  <2> QED  BY <1>1, <2>1, <2>2
<1>7. HeadsBegin(h)
  <2> SUFFICES ASSUME NEW k \in 1..L + 1, k # L + 1,
                      h[k].part = "head" /\ (k = L + 1 \/ h[k + 1].part = "head")
               PROVE  Begins(h, k)
    BY <1>1, <1>5 DEF HeadsBegin
  <2>1. k \in 1..L
    BY <1>4
  <2>2. f[k].part = "head" /\ (k = L \/ f[k + 1].part = "head")
    <3>1. k = L \/ k + 1 \in 1..L
      BY <1>1, <2>1
    <3> QED  BY <1>1, <2>1, <3>1
  <2> QED  BY <1>2, <2>1, <2>2 DEF File, HeadsBegin
<1>8. IdsUpTo(h, l)
  <2> SUFFICES ASSUME NEW k \in 1..L + 1  PROVE h[k].id \in 1..l
    BY <1>1 DEF IdsUpTo
  <2>1. CASE k \in 1..L
    BY <1>1, <2>1 DEF File, IdsUpTo
  <2>2. CASE k = L + 1
    BY <1>0, <1>1, <2>2
  <2> QED  BY <1>4, <2>1, <2>2
<1>9. FirstUnbroken(h, d)
  <2> SUFFICES ASSUME NEW s \in 1..L + 1, Broken(h, s)  PROVE h[s].id # d + 1
    BY <1>1 DEF FirstUnbroken
  <2>1. CASE s \in 1..L
    BY <1>1, <1>2, <2>1 DEF File, FirstUnbroken
  <2>2. CASE s = L + 1
    BY <1>0, <1>1, <2>2
  <2> QED  BY <1>4, <2>1, <2>2
<1>10. Ordered(h, d)
  <2> SUFFICES ASSUME NEW i \in 1..L + 1, NEW j \in 1..L + 1, h[i].id <= d, h[j].id > d
               PROVE  i < j
    BY <1>1 DEF Ordered
  <2>1. i \in 1..L
    BY <1>0, <1>1, <1>4
  <2>2. CASE j \in 1..L
    BY <1>1, <2>1, <2>2 DEF File, Ordered
  <2> QED  BY <1>1, <1>4, <2>1, <2>2
<1>11. Preceded(h, d)
  <2> SUFFICES ASSUME NEW q \in 1..L + 1, NEW m \in d + 1..h[q].id - 1
               PROVE  LineIn(h, m, 1, q - 1)
    BY <1>1 DEF Preceded
  <2>1. CASE q \in 1..L
    <3>1. LineIn(f, m, 1, q - 1)
      BY <1>1, <2>1 DEF File, Preceded
    <3> QED  BY <1>2, <3>1
  <2>2. CASE q = L + 1
    <3>1. h[q].id = n
      BY <1>1, <2>2
    <3>2. LineIn(h, m, 1, L) /\ q - 1 = L
      BY <1>1, <1>2, <2>2, <3>1
    <3> QED  BY <3>2
  <2> QED  BY <1>4, <2>1, <2>2
<1>12. Mended(h, d)
  <2> SUFFICES ASSUME NEW b \in 1..L + 1, Broken(h, b), h[b].id <= d
               PROVE  LineIn(h, h[b].id, b + 1, L + 1)
    BY <1>1 DEF Mended
  <2>1. b \in 1..L
    BY <1>0, <1>1, <1>4
  <2>2. LineIn(f, f[b].id, b + 1, L)
    BY <1>1, <1>2, <2>1 DEF File, Mended
  <2>3. LineIn(h, h[b].id, b + 1, L) /\ b + 1..L \subseteq b + 1..L + 1
    BY <1>1, <1>2, <2>1, <2>2
  <2> QED  BY <2>3 DEF LineIn
<1> QED  BY <1>6, <1>7, <1>8, <1>9, <1>10, <1>11, <1>12 DEF File, h

LEMMA EmptyFile == ASSUME NEW d, NEW l  PROVE File(<<>>, d, l)
BY DEF File, TailsFollow, HeadsBegin, IdsUpTo, FirstUnbroken, Ordered, Preceded, Mended

\* When the batch is done there is nothing beyond it.
LEMMA FileDone ==
  ASSUME NEW f \in Seq(Bytes), NEW d \in Ids, NEW l \in Ids, d <= l,
         File(f, d, l), Mended(f, l)
  PROVE  File(f, l, l)
<1>1. Len(f) \in Nat /\ \A k \in 1..Len(f) : f[k].id \in 1..l
  BY LenProperties DEF File, IdsUpTo
<1>2. FirstUnbroken(f, l)
  BY <1>1 DEF FirstUnbroken
<1>3. Ordered(f, l)
  BY <1>1 DEF Ordered
<1>4. Preceded(f, l)
  BY <1>1 DEF Preceded
<1> QED  BY <1>2, <1>3, <1>4 DEF File

LEMMA FileMore ==
  ASSUME NEW f \in Seq(Bytes), NEW d \in Ids, NEW l \in Ids, NEW m \in Ids, l <= m,
         File(f, d, l)
  PROVE  File(f, d, m)
<1>1. IdsUpTo(f, m)
  BY DEF File, IdsUpTo
<1> QED  BY <1>1 DEF File

----------------------------------------------------------------------------
(* Reading from the file *)

LEMMA MinOf ==
  ASSUME NEW S, S \subseteq Nat, S # {}
  PROVE  Min(S) \in S /\ \A y \in S : Min(S) <= y
<1>1. PICK x \in S : \A y \in S : ~(<<y, x>> \in OpToRel(<, Nat))
  BY NatLessThanWellFounded, WFMin
<1>2. \A y \in S : ~(y < x)
  BY <1>1 DEF OpToRel
<1>3. \A y \in S : x <= y
  BY <1>2
<1> QED  BY <1>3 DEF Min

LEMMA MaxOf ==
  ASSUME NEW S, NEW b \in Nat, S \subseteq 0..b, S # {}
  PROVE  Max(S) \in S /\ \A y \in S : y <= Max(S)
<1> DEFINE T == {b - y : y \in S}
<1>1. T \subseteq Nat /\ T # {}
  <2>1. \A y \in S : b - y \in Nat
    OBVIOUS
  <2> QED  BY <2>1
<1>2. PICK t \in T : \A u \in T : t <= u
  <2> HIDE DEF T
  <2> QED  BY <1>1, MinOf
<1>3. PICK x \in S : t = b - x
  BY <1>2
<1>4. \A y \in S : y <= x
  <2> SUFFICES ASSUME NEW y \in S  PROVE y <= x
    OBVIOUS
  <2>1. t <= b - y
    BY <1>2
  <2> QED  BY <1>3, <2>1
<1>5. \A y \in S : x >= y
  BY <1>3, <1>4
<1> QED  BY <1>3, <1>5 DEF Max

\* A line is read to its end, and a whole line as it was written.
LEMMA ReadLine ==
  ASSUME tf \in Seq(Bytes), NEW k \in 1..Len(tf)
  PROVE  /\ LineAt(k) \in Seq(Bytes) /\ LineAt(k) # <<>> /\ LineAt(k)[1] = tf[k]
         /\ \A n \in Ids : WholeAt(tf, k, n) => LineAt(k) = Line(n)
         /\ \A n \in Ids : LineAt(k) = Line(n) => WholeAt(tf, k, n)
<1> DEFINE L == Len(tf)
           E == {e \in LineEnds : e >= k} \cup {L}
           m == Min(E)
<1>1. /\ L \in Nat /\ DOMAIN tf = 1..L
      /\ \A i \in 1..L : tf[i] \in Bytes
  BY BytesOf
<1>2. E \subseteq k..L /\ E \subseteq Nat /\ E # {}
  BY <1>1 DEF LineEnds
<1>3. m \in E /\ \A y \in E : m <= y
  <2> HIDE DEF E
  <2> QED  BY <1>2, MinOf
<1>4. m \in k..L
  BY <1>2, <1>3
<1>5. LineAt(k) = SubSeq(tf, k, m)
  BY DEF LineAt
<1> HIDE DEF m, E
<1>6. k \in Int /\ m \in Int /\ \A i \in k..m : tf[i] \in Bytes
  BY <1>1, <1>4
<1>7. /\ SubSeq(tf, k, m) \in Seq(Bytes)
      /\ Len(SubSeq(tf, k, m)) = IF k <= m THEN m - k + 1 ELSE 0
      /\ \A i \in 1..m - k + 1 : SubSeq(tf, k, m)[i] = tf[k + i - 1]
  BY <1>6, SubSeqProperties
<1>8. /\ LineAt(k) \in Seq(Bytes) /\ Len(LineAt(k)) = m - k + 1
      /\ \A i \in 1..m - k + 1 : LineAt(k)[i] = tf[k + i - 1]
  BY <1>4, <1>5, <1>7
<1>9. LineAt(k) # <<>> /\ LineAt(k)[1] = tf[k]
  <2>1. Len(LineAt(k)) > 0 /\ 1 \in 1..m - k + 1 /\ k + 1 - 1 = k
    BY <1>4, <1>8
  <2> QED  BY <1>8, <2>1, EmptySeq
<1>10. ASSUME NEW n \in Ids, WholeAt(tf, k, n)
       PROVE  LineAt(k) = Line(n)
  <2>1. /\ k \in 1..L - 1 /\ tf[k] = [id |-> n, part |-> "head"]
        /\ tf[k + 1] = [id |-> n, part |-> "tail"]
    BY <1>10 DEF WholeAt
  <2>2. k + 1 \in E /\ k \notin E
    <3>1. k + 1 \in LineEnds /\ k + 1 >= k
      BY <1>1, <2>1 DEF LineEnds
    <3>2. k \notin LineEnds /\ k # L
      BY <1>1, <2>1 DEF LineEnds
    <3> QED  BY <3>1, <3>2 DEF E
  <2>3. m = k + 1
    BY <1>3, <1>4, <2>1, <2>2
  <2>4. Len(LineAt(k)) = 2 /\ LineAt(k)[1] = tf[k] /\ LineAt(k)[2] = tf[k + 1]
    <3>1. m - k + 1 = 2 /\ 1 \in 1..m - k + 1 /\ 2 \in 1..m - k + 1
          /\ k + 1 - 1 = k /\ k + 2 - 1 = k + 1
      BY <2>1, <2>3
    <3> QED  BY <1>8, <3>1
  <2>5. \A i \in 1..2 : LineAt(k)[i] = Line(n)[i]
    <3>1. \A i \in 1..2 : i = 1 \/ i = 2
      OBVIOUS
    <3> QED  BY <2>1, <2>4, <3>1, LineBytes
  <2> QED  BY <1>8, <2>4, <2>5, LineBytes, SeqEqual
<1>11. ASSUME NEW n \in Ids, LineAt(k) = Line(n)
       PROVE  WholeAt(tf, k, n)
  <2>1. m = k + 1 /\ m \in 1..L
    <3>1. m - k + 1 = 2
      BY <1>8, <1>11, LineBytes
    <3> QED  BY <1>4, <3>1
  <2>2. tf[k + 1] = LineAt(k)[2]
    <3>1. 2 \in 1..m - k + 1 /\ k + 2 - 1 = k + 1
      BY <2>1
    <3> QED  BY <1>8, <3>1
  <2>3. k \in 1..L - 1
    BY <1>1, <2>1
  <2> QED  BY <1>9, <1>11, <2>2, <2>3, LineBytes DEF WholeAt
<1> QED  BY <1>8, <1>9, <1>10, <1>11

LEMMA ReadBeyond ==
  ASSUME tf \in Seq(Bytes), NEW k \in Nat, k > Len(tf)
  PROVE  LineAt(k) = <<>>
<1>1. Len(tf) \in Nat /\ DOMAIN tf = 1..Len(tf)
  BY BytesOf
<1>2. {e \in LineEnds : e >= k} \cup {Len(tf)} = {Len(tf)}
  BY <1>1 DEF LineEnds
<1>3. Min({Len(tf)}) = Len(tf)
  <2>1. {Len(tf)} \subseteq Nat /\ {Len(tf)} # {}
    BY <1>1
  <2>2. Min({Len(tf)}) \in {Len(tf)}
    BY <2>1, MinOf
  <2> QED  BY <2>2
<1>4. SubSeq(tf, k, Len(tf)) = <<>>
  BY <1>1, SubSeqEmpty
<1> QED  BY <1>2, <1>3, <1>4 DEF LineAt

\* A line that is not torn is a whole one.
LEMMA Unbroken ==
  ASSUME NEW f \in Seq(Bytes), TailsFollow(f), NEW s, Begins(f, s), ~Broken(f, s)
  PROVE  WholeAt(f, s, f[s].id)
<1>1. s + 1 \in 1..Len(f) /\ f[s + 1].part = "tail" /\ s \in 1..Len(f) /\ Len(f) \in Nat
  BY LenProperties DEF Broken, Begins
<1>2. f[(s + 1) - 1] = [id |-> f[s + 1].id, part |-> "head"] /\ (s + 1) - 1 = s
  BY <1>1 DEF TailsFollow
<1>3. f[s + 1] = [id |-> f[s + 1].id, part |-> f[s + 1].part]
  BY <1>1, BytesOf
<1>4. s \in 1..Len(f) - 1 /\ f[s].id = f[s + 1].id
  BY <1>1, <1>2
<1> QED  BY <1>1, <1>2, <1>3, <1>4 DEF WholeAt

\* The loop over the file looks at these lines, finds the first of these, and
\* notes where these begin.
Starts == {s \in LineStarts : \E e \in LineEnds : e >= s}
Hits(n) == {s \in Starts : tf[s].id = n}
Passed(n) == {s \in Starts : \A h \in Hits(n) : s <= h}
Noted(n, m) == {s \in Passed(n) : tf[s].id = m}

LEMMA ScannedIs ==
  ASSUME NEW n
  PROVE  /\ Scanned(n).line = IF Hits(n) = {} THEN None ELSE LineAt(Min(Hits(n)))
         /\ Scanned(n).idx = [m \in Ids |-> IF Noted(n, m) = {} THEN idx[m]
                                                               ELSE Max(Noted(n, m))]
BY DEF Scanned, Starts, Hits, Passed, Noted

LEMMA StartsBegin ==
  ASSUME tf \in Seq(Bytes)
  PROVE  /\ \A s : s \in LineStarts <=> Begins(tf, s)
         /\ \A s \in Starts : Begins(tf, s)
         /\ \A s, n : Begins(tf, s) /\ WholeAt(tf, s, n) => s \in Starts /\ tf[s].id = n
<1>1. DOMAIN tf = 1..Len(tf) /\ Len(tf) \in Nat
  BY BytesOf
<1>2. \A s : s \in LineStarts <=> Begins(tf, s)
  BY <1>1 DEF LineStarts, LineEnds, Begins
<1>3. ASSUME NEW s, NEW n, Begins(tf, s), WholeAt(tf, s, n)
      PROVE  s \in Starts /\ tf[s].id = n
  <2>1. s + 1 \in LineEnds /\ s + 1 >= s
    BY <1>1, <1>3 DEF WholeAt, LineEnds
  <2>2. tf[s].id = n
    BY <1>3 DEF WholeAt
  <2> QED  BY <1>2, <1>3, <2>1, <2>2 DEF Starts
<1> QED  BY <1>2, <1>3 DEF Starts

\* What the proofs need to know of the disk while it is read.
Disk ==
  /\ tf \in Seq(Bytes) /\ idx \in [Ids -> Nat] /\ done \in Ids /\ last \in Ids
  /\ File(tf, done, last) /\ AllFound(idx)

LEMMA ScannedTypes ==
  ASSUME Disk, NEW n \in Ids
  PROVE  /\ Scanned(n).idx \in [Ids -> Nat] /\ Scanned(n).idx[0] = 0
         /\ Hits(n) = {} => Scanned(n).line = None
         /\ Hits(n) # {} => /\ Min(Hits(n)) \in Hits(n)
                            /\ \A h \in Hits(n) : Min(Hits(n)) <= h
                            /\ Min(Hits(n)) \in 1..Len(tf)
                            /\ Scanned(n).line = LineAt(Min(Hits(n)))
<1>1. Len(tf) \in Nat /\ Starts \subseteq 1..Len(tf)
  BY LenProperties, StartsBegin DEF Disk, Begins
<1>2. \A m : Noted(n, m) # {} => Max(Noted(n, m)) \in Nat
  <2>1. ASSUME NEW m  PROVE Noted(n, m) \subseteq 0..Len(tf)
    <3>1. Noted(n, m) \subseteq Starts /\ 1..Len(tf) \subseteq 0..Len(tf)
      BY <1>1 DEF Noted, Passed
    <3> QED  BY <1>1, <3>1
  <2> QED  BY <1>1, <2>1, MaxOf
<1>3. Scanned(n).idx \in [Ids -> Nat]
  <2>1. \A m \in Ids : idx[m] \in Nat
    BY DEF Disk
  <2>2. \A m \in Ids : (IF Noted(n, m) = {} THEN idx[m] ELSE Max(Noted(n, m))) \in Nat
    BY <1>2, <2>1
  <2>3. [m \in Ids |-> IF Noted(n, m) = {} THEN idx[m] ELSE Max(Noted(n, m))]
          \in [Ids -> Nat]
    BY <2>2
  <2> QED  BY <2>3, ScannedIs
<1>4. Scanned(n).idx[0] = 0
  <2>1. Noted(n, 0) = {}
    <3>1. \A s \in Starts : tf[s].id # 0
      BY <1>1 DEF Disk, File, IdsUpTo
    <3> QED  BY <3>1 DEF Noted, Passed
  <2>2. 0 \in Ids /\ idx[0] = 0
    BY DEF Disk, AllFound
  <2> QED  BY <2>1, <2>2, ScannedIs
<1>5. Hits(n) # {} => /\ Min(Hits(n)) \in Hits(n)
                      /\ \A h \in Hits(n) : Min(Hits(n)) <= h
  <2>1. Hits(n) \subseteq Nat
    <3>1. Hits(n) \subseteq Starts /\ 1..Len(tf) \subseteq Nat
      BY DEF Hits
    <3> QED  BY <1>1, <3>1
  <2> QED  BY <2>1, MinOf
<1>6. Hits(n) # {} => Min(Hits(n)) \in 1..Len(tf)
  BY <1>1, <1>5 DEF Hits
<1> QED  BY <1>3, <1>4, <1>5, <1>6, ScannedIs

\* The index entry of a transaction that is done is right or is not set: then it
\* is found as the first line of its id.
LEMMA DoneIsFound ==
  ASSUME Disk, NEW n \in 1..done
  PROVE  /\ idx[n] # 0 => WholeAt(tf, idx[n], n)
         /\ idx[n] = 0 => \E s \in Hits(n) : /\ WholeAt(tf, s, n)
                                              /\ \A b \in 1..Len(tf) : Broken(tf, b) => s < b
<1>1. Found(tf, idx, n)
  BY DEF Disk, AllFound
<1>2. idx[n] = 0 => ~WholeAt(tf, idx[n], n)
  BY LenProperties DEF WholeAt, Disk
<1> QED  BY <1>1, <1>2, StartsBegin DEF Found, Disk, Hits

LEMMA ScanFinds ==
  ASSUME Disk, NEW n \in 1..done, idx[n] = 0
  PROVE  Scanned(n).line = Line(n)
<1>0. n \in Ids /\ tf \in Seq(Bytes) /\ TailsFollow(tf)
  BY DEF Disk, File
<1>1. PICK s \in Hits(n) : /\ WholeAt(tf, s, n)
                           /\ \A b \in 1..Len(tf) : Broken(tf, b) => s < b
  BY DoneIsFound
<1> DEFINE h == Min(Hits(n))
<1>2. h \in Hits(n) /\ h <= s /\ h \in 1..Len(tf) /\ Scanned(n).line = LineAt(h)
  BY <1>0, <1>1, ScannedTypes
<1> HIDE DEF h
<1>3. s \in Nat /\ h \in Nat
  BY <1>0, <1>1, <1>2, LenProperties DEF WholeAt
<1>4. ~Broken(tf, h)
  BY <1>1, <1>2, <1>3
<1>5. Begins(tf, h) /\ tf[h].id = n
  BY <1>0, <1>2, StartsBegin DEF Hits
<1>6. WholeAt(tf, h, n)
  BY <1>0, <1>4, <1>5, Unbroken
<1> QED  BY <1>0, <1>2, <1>6, ReadLine

\* A scan notes the last line of an id that it has passed: of what is done, never
\* a torn line that has been written again.
LEMMA ScanNotes ==
  ASSUME Disk, NEW n \in Ids, n \in 1..done => idx[n] = 0
  PROVE  AllFound(Scanned(n).idx)
<1>0. /\ Len(tf) \in Nat /\ tf \in Seq(Bytes) /\ TailsFollow(tf) /\ done \in Nat
      /\ Ordered(tf, done) /\ Mended(tf, done) /\ Starts \subseteq 1..Len(tf)
      /\ \A s \in Starts : Begins(tf, s)
  BY LenProperties, StartsBegin DEF Disk, File, Begins
<1> SUFFICES ASSUME NEW m \in 1..done  PROVE Found(tf, Scanned(n).idx, m)
  BY ScannedTypes DEF AllFound
<1> DEFINE M == Max(Noted(n, m))
<1>1. m \in Ids
  BY DEF Disk
<1>2. CASE Noted(n, m) = {}
  <2>1. Scanned(n).idx[m] = idx[m]
    BY <1>1, <1>2, ScannedIs
  <2>2. Found(tf, idx, m)
    BY DEF Disk, AllFound
  <2> QED  BY <2>1, <2>2 DEF Found
<1>3. CASE Noted(n, m) # {}
  <2>1. M \in Noted(n, m) /\ \A s \in Noted(n, m) : s <= M
    <3>1. Noted(n, m) \subseteq 0..Len(tf)
      <4>1. Noted(n, m) \subseteq Starts /\ 1..Len(tf) \subseteq 0..Len(tf)
        BY <1>0 DEF Noted, Passed
      <4> QED  BY <1>0, <4>1
    <3> QED  BY <1>0, <1>3, <3>1, MaxOf
  <2>2. Scanned(n).idx[m] = M
    BY <1>1, <1>3, ScannedIs
  <2> HIDE DEF M
  <2>3. M \in Passed(n) /\ Begins(tf, M) /\ tf[M].id = m /\ M \in 1..Len(tf)
    BY <1>0, <2>1 DEF Noted, Passed
  <2>4. ~Broken(tf, M)
    <3> SUFFICES ASSUME Broken(tf, M)  PROVE FALSE
      OBVIOUS
    <3>1. LineIn(tf, m, M + 1, Len(tf))
      BY <1>0, <2>3 DEF Mended
    <3>2. PICK s \in M + 1..Len(tf) : s \in Starts /\ tf[s].id = m
      BY <1>0, <3>1, StartsBegin DEF LineIn
    <3>3. s \notin Passed(n)
      BY <2>1, <2>3, <3>2 DEF Noted
    <3>4. PICK h \in Hits(n) : ~(s <= h)
      BY <3>2, <3>3 DEF Passed
    <3>5. h \in 1..Len(tf) /\ h \in Starts /\ tf[h].id = n
      BY <1>0, <3>4 DEF Hits
    <3>6. CASE n \in 1..done
      <4>1. PICK s0 \in Hits(n) : \A b \in 1..Len(tf) : Broken(tf, b) => s0 < b
        BY <3>6, DoneIsFound
      <4>2. s0 < M /\ M <= s0 /\ s0 \in Nat
        BY <1>0, <2>3, <4>1 DEF Passed, Hits
      <4> QED  BY <2>3, <4>2
    <3>7. CASE n \notin 1..done
      <4>1. n # 0
        BY <1>0, <3>5 DEF Disk, File, IdsUpTo
      <4>2. tf[h].id > done /\ tf[s].id <= done
        BY <1>0, <3>2, <3>5, <3>7, <4>1
      <4>3. s < h
        BY <1>0, <3>2, <3>5, <4>2 DEF Ordered
      <4> QED  BY <1>0, <3>2, <3>4, <3>5, <4>3
    <3> QED  BY <3>6, <3>7
  <2>5. WholeAt(tf, M, m)
    BY <1>0, <2>3, <2>4, Unbroken
  <2> QED  BY <2>2, <2>5 DEF Found
<1> QED  BY <1>2, <1>3

\* A line is taken through the index, if it has the id, else from a scan.
LEMMA IndexOrScan ==
  ASSUME Disk, NEW n \in Ids, NEW r \in GetOneDn(n)
  PROVE  \/ /\ idx[n] \in 1..Len(tf)
            /\ r = [line |-> LineAt(idx[n]), idx |-> idx]
            /\ tf[idx[n]].part = "head" => tf[idx[n]].id = n
         \/ /\ r = Scanned(n)
            /\ idx[n] \in 1..Len(tf) /\ tf[idx[n]].part = "head" => tf[idx[n]].id # n
<1> DEFINE line == IF idx[n] = 0 THEN <<>> ELSE LineAt(idx[n])
<1>0. idx[n] \in Nat /\ tf \in Seq(Bytes) /\ Len(tf) \in Nat
  BY LenProperties DEF Disk
<1>1. PICK found \in IF line = <<>> THEN {FALSE} ELSE Parses(line, n) :
        r = IF found THEN [line |-> line, idx |-> idx] ELSE Scanned(n)
  BY DEF GetOneDn
<1>2. CASE idx[n] \in 1..Len(tf)
  <2>1. line = LineAt(idx[n]) /\ line # <<>> /\ line[1] = tf[idx[n]]
    BY <1>0, <1>2, ReadLine
  <2> HIDE DEF line
  <2>2. found \in Parses(line, n)
    BY <1>1, <2>1
  <2>3. CASE tf[idx[n]].part = "head"
    <3>1. found = (tf[idx[n]].id = n)
      BY <2>1, <2>2, <2>3 DEF Parses
    <3>2. CASE tf[idx[n]].id = n
      BY <1>1, <1>2, <2>1, <3>1, <3>2
    <3>3. CASE tf[idx[n]].id # n
      BY <1>1, <1>2, <2>1, <3>1, <3>3
    <3> QED  BY <3>2, <3>3
  <2>4. CASE tf[idx[n]].part # "head"
    <3>1. found \in BOOLEAN
      BY <2>1, <2>2, <2>4 DEF Parses
    <3>2. CASE found = TRUE
      BY <1>1, <1>2, <2>1, <2>4, <3>2
    <3>3. CASE found = FALSE
      BY <1>1, <1>2, <2>1, <2>4, <3>3
    <3> QED  BY <3>1, <3>2, <3>3
  <2> QED  BY <2>3, <2>4
<1>3. CASE idx[n] \notin 1..Len(tf)
  <2>1. line = <<>>
    <3>1. CASE idx[n] = 0
      BY <3>1
    <3>2. CASE idx[n] # 0
      <4>1. idx[n] > Len(tf)
        BY <1>0, <1>3, <3>2
      <4> QED  BY <1>0, <3>2, <4>1, ReadBeyond
    <3> QED  BY <3>1, <3>2
  <2> HIDE DEF line
  <2>2. found = FALSE
    BY <1>1, <2>1
  <2> QED  BY <1>1, <1>3, <2>2
<1> QED  BY <1>2, <1>3

LEMMA ReadsSomething ==
  ASSUME Disk, NEW n \in Ids
  PROVE  GetOneDn(n) # {}
<1> DEFINE line == IF idx[n] = 0 THEN <<>> ELSE LineAt(idx[n])
           founds == IF line = <<>> THEN {FALSE} ELSE Parses(line, n)
<1>1. founds # {}
  BY DEF Parses
<1> HIDE DEF founds
<1>2. PICK found : found \in founds
  BY <1>1
<1> DEFINE G(f) == IF f THEN [line |-> line, idx |-> idx] ELSE Scanned(n)
<1>3. GetOneDn(n) = {G(f) : f \in founds}
  BY DEF GetOneDn, founds
<1> HIDE DEF G
<1> QED  BY <1>2, <1>3

\* What reading a transaction gives, and leaves in the index.
LEMMA Reads ==
  ASSUME Disk, NEW n \in Ids, NEW r \in GetOneDn(n)
  PROVE  /\ r.idx \in [Ids -> Nat] /\ AllFound(r.idx)
         /\ r.line # None => /\ r.line \in Seq(Bytes) /\ r.line[1] \in Bytes
                             /\ r.line[1].part = "head" => r.line[1].id = n
         /\ n \in 1..done => r.line = Line(n)
         /\ n = 0 => r.line = None
         /\ LineIn(tf, n, 1, Len(tf)) => r.line # None
<1>0. /\ tf \in Seq(Bytes) /\ Len(tf) \in Nat /\ \A k \in 1..Len(tf) : tf[k] \in Bytes
      /\ idx \in [Ids -> Nat] /\ AllFound(idx) /\ idx[0] = 0
  BY BytesOf DEF Disk, AllFound
<1>1. CASE /\ idx[n] \in 1..Len(tf)
           /\ r = [line |-> LineAt(idx[n]), idx |-> idx]
           /\ tf[idx[n]].part = "head" => tf[idx[n]].id = n
  <2>1. r.idx = idx /\ r.line = LineAt(idx[n])
    BY <1>1
  <2>2. r.line \in Seq(Bytes) /\ r.line[1] = tf[idx[n]]
    BY <1>0, <1>1, <2>1, ReadLine
  <2>3. n \in 1..done => r.line = Line(n)
    BY <1>0, <1>1, <2>1, DoneIsFound, ReadLine
  <2>4. r.line # None
    BY <2>2, NoneAssumption
  <2>5. n # 0
    BY <1>0, <1>1
  <2> QED  BY <1>0, <1>1, <2>1, <2>2, <2>3, <2>4, <2>5
<1>2. CASE /\ r = Scanned(n)
           /\ idx[n] \in 1..Len(tf) /\ tf[idx[n]].part = "head" => tf[idx[n]].id # n
  <2>1. n \in 1..done => idx[n] = 0
    <3> SUFFICES ASSUME n \in 1..done, idx[n] # 0  PROVE FALSE
      OBVIOUS
    <3>1. WholeAt(tf, idx[n], n)
      BY DoneIsFound
    <3>2. idx[n] \in 1..Len(tf) /\ tf[idx[n]].part = "head" /\ tf[idx[n]].id = n
      BY <1>0, <3>1 DEF WholeAt
    <3> QED  BY <1>2, <3>2
  <2>2. r.idx \in [Ids -> Nat] /\ AllFound(r.idx)
    BY <1>2, <2>1, ScannedTypes, ScanNotes
  <2>3. Hits(n) # {} => /\ Min(Hits(n)) \in 1..Len(tf) /\ r.line = LineAt(Min(Hits(n)))
                        /\ tf[Min(Hits(n))].id = n
    BY <1>2, ScannedTypes DEF Hits
  <2>4. Hits(n) # {} => /\ r.line \in Seq(Bytes) /\ r.line[1] \in Bytes
                        /\ r.line[1].id = n
    BY <1>0, <2>3, ReadLine
  <2>5. Hits(n) # {} => r.line # None
    BY <2>4, NoneAssumption
  <2>6. Hits(n) = {} => r.line = None
    BY <1>2, ScannedTypes
  <2>7. n \in 1..done => r.line = Line(n)
    BY <1>2, <2>1, ScanFinds
  <2>8. n = 0 => Hits(n) = {}
    <3>1. \A s \in Starts : tf[s].id # 0
      BY <1>0, StartsBegin DEF Begins, Disk, File, IdsUpTo
    <3> QED  BY <3>1 DEF Hits
  <2>9. LineIn(tf, n, 1, Len(tf)) => Hits(n) # {}
    BY <1>0, StartsBegin DEF LineIn, Hits
  <2> QED  BY <2>2, <2>4, <2>5, <2>6, <2>7, <2>8, <2>9
<1> QED  BY <1>1, <1>2, IndexOrScan

----------------------------------------------------------------------------
(* Each step keeps the invariant *)

LEMMA InvariantDisk == IInv => Disk
BY DEF IInv, TypeOK, Inv, Files, Disk

LEMMA CatEmpty ==
  ASSUME NEW f \in Seq(Bytes)
  PROVE  f \o <<>> = f
BY ConcatEmptySeq

LEMMA FoundStays ==
  ASSUME NEW f \in Seq(Bytes), NEW g \in Seq(Bytes), NEW ix, NEW jx, NEW n,
         Found(f, ix, n), jx[n] = ix[n]
  PROVE  Found(f \o g, jx, n)
<1> DEFINE h == f \o g
<1>1. Len(f) \in Nat /\ Len(g) \in Nat /\ Len(h) = Len(f) + Len(g)
  BY CatBytes
<1>2. /\ \A s \in 1..Len(f) : Begins(h, s) <=> Begins(f, s)
      /\ \A s, m : WholeAt(f, s, m) => WholeAt(h, s, m)
      /\ \A s \in 1..Len(f) : Broken(h, s) => Broken(f, s)
  BY Appending
<1> HIDE DEF h
<1>3. CASE WholeAt(f, ix[n], n)
  BY <1>2, <1>3 DEF Found, h
<1>4. CASE /\ ix[n] = 0
           /\ \E s \in 1..Len(f) : /\ Begins(f, s) /\ WholeAt(f, s, n)
                                   /\ \A b \in 1..Len(f) : Broken(f, b) => s < b
  <2>1. PICK s \in 1..Len(f) : /\ Begins(f, s) /\ WholeAt(f, s, n)
                               /\ \A b \in 1..Len(f) : Broken(f, b) => s < b
    BY <1>4
  <2>2. s \in 1..Len(h) /\ Begins(h, s) /\ WholeAt(h, s, n)
    BY <1>1, <1>2, <2>1
  <2>3. ASSUME NEW b \in 1..Len(h), Broken(h, b)  PROVE s < b
    <3>1. CASE b \in 1..Len(f)
      BY <1>2, <2>1, <2>3, <3>1
    <3>2. CASE b \notin 1..Len(f)
      BY <1>1, <3>2
    <3> QED  BY <3>1, <3>2
  <2> QED  BY <1>4, <2>2, <2>3 DEF Found, h
<1> QED  BY <1>3, <1>4 DEF Found

LEMMA FirstState == Init => IInv
<1> SUFFICES ASSUME Init  PROVE IInv
  OBVIOUS
<1> USE DEF Init
<1>1. TypeOK
  BY EmptySeq DEF TypeOK, Slots, Empty
<1>2. F = <<>>
  BY CatEmpty, EmptySeq DEF F
<1>3. Phase
  BY DEF Phase, Writing
<1>4. Files
  BY <1>2, EmptyFile DEF Files
<1>5. AllFound(idx)
  BY DEF AllFound
<1>6. Batch /\ LastLine /\ Filling
  BY DEF Batch, Writing, LastLine, Filling
<1>7. Ring
  BY DEF Ring, Slots, Empty
<1> QED  BY <1>1, <1>3, <1>4, <1>5, <1>6, <1>7 DEF IInv, Inv

\* The last line is of a transaction that is in the file, and of the last one done
\* when listener.priv is empty.
LEMMA LastNotifyIdIs ==
  ASSUME IInv
  PROVE  /\ LastNotifyId \in Ids
         /\ last = done => LastNotifyId = done
         /\ LastNotifyId > done => \E q \in 1..Len(tf) : tf[q].id = LastNotifyId
<1>0. /\ tf \in Seq(Bytes) /\ Len(tf) \in Nat /\ \A k \in 1..Len(tf) : tf[k].id \in Ids
      /\ done \in Nat /\ done \in Ids
  <2>1. tf \in Seq(Bytes) /\ done \in Ids
    BY DEF IInv, TypeOK
  <2>2. Len(tf) \in Nat /\ \A k \in 1..Len(tf) : tf[k].id \in Ids
    BY <2>1, BytesOf
  <2> QED  BY <2>1, <2>2
<1>1. CASE tf = <<>>
  <2>1. LastNotifyId = 0
    BY <1>1 DEF LastNotifyId
  <2>2. ~EndsIn(tf, done)
    BY <1>1 DEF EndsIn
  <2>3. last = done => done = 0
    BY <2>2 DEF IInv, Inv, LastLine
  <2> QED  BY <1>0, <2>1, <2>3
<1>2. CASE tf # <<>>
  <2> DEFINE M == Max(LineStarts)
  <2>1. Len(tf) > 0
    BY <1>0, <1>2, EmptySeq
  <2>2. Begins(tf, 1)
    BY <1>0, <2>1 DEF Begins
  <2>3. LineStarts \subseteq 0..Len(tf) /\ LineStarts # {}
    <3>1. \A s \in LineStarts : s \in 1..Len(tf)
      BY <1>0, StartsBegin DEF Begins
    <3>2. 1..Len(tf) \subseteq 0..Len(tf)
      OBVIOUS
    <3>3. 1 \in LineStarts
      BY <1>0, <2>2, StartsBegin
    <3> QED  BY <3>1, <3>2, <3>3
  <2>4. M \in LineStarts /\ \A y \in LineStarts : y <= M
    BY <1>0, <2>3, MaxOf
  <2>5. LastNotifyId = tf[M].id
    BY <1>2 DEF LastNotifyId
  <2> HIDE DEF M
  <2>6. Begins(tf, M) /\ M \in 1..Len(tf)
    BY <1>0, <2>4, StartsBegin DEF Begins
  <2>7. ASSUME last = done  PROVE tf[M].id = done
    <3>1. EndsIn(tf, done) /\ Begins(tf, Len(tf) - 1)
      BY <1>2, <2>7 DEF IInv, Inv, LastLine
    <3>2. /\ tf[Len(tf) - 1] = [id |-> done, part |-> "head"] /\ Len(tf) > 1
          /\ tf[(Len(tf) - 1) + 1] = [id |-> done, part |-> "tail"]
      BY <3>1 DEF EndsIn, WholeAt
    <3>3. Len(tf) - 1 <= M
      BY <1>0, <2>4, <3>1, StartsBegin
    <3>4. M = Len(tf) - 1 \/ M = Len(tf)
      BY <1>0, <2>6, <3>3
    <3>5. tf[Len(tf)].id = done
      <4>1. (Len(tf) - 1) + 1 = Len(tf)
        BY <1>0
      <4> QED  BY <3>2, <4>1
    <3> QED  BY <3>2, <3>4, <3>5
  <2> QED  BY <1>0, <2>5, <2>6, <2>7
<1> QED  BY <1>1, <1>2

\* Reading a transaction that changes nothing else but the index.
LEMMA IndexRead ==
  ASSUME IInv, NEW n \in Ids, NEW r \in GetOneDn(n), idx' = r.idx,
         UNCHANGED <<tf, done>>
  PROVE  idx' \in [Ids -> Nat] /\ AllFound(idx)'
<1>1. r.idx \in [Ids -> Nat] /\ AllFound(r.idx)
  BY InvariantDisk, Reads
<1> QED  BY <1>1 DEF AllFound

LEMMA StartKeeps == IInv /\ Start => IInv'
<1> SUFFICES ASSUME IInv, Start  PROVE IInv'
  OBVIOUS
<1>0. /\ pc = "down" /\ lastId' = LastNotifyId
      /\ cache' = [i \in Slots |-> Empty] /\ entry_min_pos' = 0 /\ max_filled' = 0
      /\ \/ First' < 0 /\ pc' = "take" /\ pos' = pos
         \/ ~(First' < 0) /\ pc' = "init" /\ pos' = First'
      /\ tf' = tf /\ buf' = buf /\ ibuf' = ibuf /\ done' = done /\ last' = last
      /\ crashes' = crashes
  BY DEF Start
<1>1. /\ tf \in Seq(Bytes) /\ buf \in Seq(Bytes) /\ done \in Ids /\ last \in done..MaxId
      /\ ibuf = None \/ ibuf \in [id : Ids, pos : Nat]
      /\ pos \in 0..MaxId + 1 /\ crashes \in 0..MaxCrash
  BY DEF IInv, TypeOK
<1>2. /\ lastId' \in Ids
      /\ last = done => lastId' = done
      /\ lastId' > done => \E q \in 1..Len(tf) : tf[q].id = lastId'
  BY <1>0, LastNotifyIdIs
<1>3. idx' \in [Ids -> Nat] /\ AllFound(idx)'
  <2>1. PICK r \in GetOneDn(lastId') : idx' = r.idx
    BY DEF Start
  <2>2. lastId' \in Ids /\ UNCHANGED <<tf, done>>
    BY <1>0, <1>2
  <2> QED  BY <2>1, <2>2, IndexRead
<1>4. First' \in Int /\ First' <= lastId'
  <2>1. \A x \in Int : x - (CacheSize - 1) \in Int /\ x - (CacheSize - 1) <= x
    OBVIOUS
  <2>2. First' = lastId' - (CacheSize - 1) /\ lastId' \in Int
    BY <1>2 DEF First
  <2> HIDE DEF First
  <2> QED  BY <2>1, <2>2, Zenon
<1>5. \A i \in Slots : cache'[i].id = 0 /\ cache'[i].line = None
  BY <1>0 DEF Empty
<1>6. TypeOK'
  <2>1. pos' \in 0..MaxId + 1
    BY <1>0, <1>1, <1>2, <1>4
  <2>2. DOMAIN cache' = Slots /\ 0 \in Slots
    BY <1>0 DEF Slots
  <2> QED  BY <1>0, <1>1, <1>2, <1>3, <1>5, <2>1, <2>2 DEF TypeOK
<1>7. Phase'
  <2>1. buf = <<>> /\ ibuf = None
    BY <1>0 DEF IInv, Inv, Phase, Writing
  <2>2. pc' = "init" => pos' \in First'..lastId' /\ First' >= 0
    BY <1>0, <1>2, <1>4
  <2> QED  BY <1>0, <1>2, <2>1, <2>2 DEF Phase, Writing
<1>8. Files' /\ LastLine'
  BY <1>0 DEF IInv, Inv, Files, LastLine, F
<1>9. Batch'
  BY <1>0 DEF Batch, Writing
<1>10. Filling'
  BY <1>0, <1>1, <1>2, <1>5 DEF Filling
<1>11. Ring'
  <2>1. 0..0 - 1 = {}
    OBVIOUS
  <2> QED  BY <1>0, <1>5, <2>1 DEF Ring
<1> QED  BY <1>3, <1>6, <1>7, <1>8, <1>9, <1>10, <1>11 DEF IInv, Inv

\* A transaction is missing when the cache is filled only at id 0.
LEMMA CacheInitFinds ==
  ASSUME IInv, pc = "init", NEW r \in GetOneDn(pos), r.line = None, pos < lastId
  PROVE  pos = 0
<1>0. /\ tf \in Seq(Bytes) /\ Len(tf) \in Nat /\ done \in Nat /\ lastId \in Ids
      /\ pos \in First..lastId /\ First >= 0 /\ First \in Int
  <2>1. tf \in Seq(Bytes) /\ done \in Ids /\ lastId \in Ids
    BY DEF IInv, TypeOK
  <2>2. pos \in First..lastId /\ First >= 0
    BY DEF IInv, Inv, Phase
  <2>3. First \in Int
    BY <2>1 DEF First
  <2> QED  BY <2>1, <2>2, <2>3, LenProperties
<1>1. Disk /\ pos \in Ids
  BY <1>0, InvariantDisk
<1>2. pos \notin 1..done
  <2> SUFFICES ASSUME pos \in 1..done  PROVE FALSE
    OBVIOUS
  <2>1. r.line = Line(pos)
    BY <1>1, Reads
  <2> QED  BY <1>1, <2>1, LineBytes, NoneAssumption
<1>3. ~(pos > done)
  <2> SUFFICES ASSUME pos > done  PROVE FALSE
    OBVIOUS
  <2>1. PICK q \in 1..Len(tf) : tf[q].id = lastId
    BY <1>0 DEF IInv, Inv, Filling
  <2>2. LineIn(tf, pos, 1, q - 1)
    <3>1. pos \in done + 1..tf[q].id - 1
      BY <1>0, <2>1
    <3> QED  BY <3>1 DEF IInv, Inv, Files, File, Preceded
  <2>3. LineIn(tf, pos, 1, Len(tf))
    <3>1. 1..q - 1 \subseteq 1..Len(tf)
      BY <1>0
    <3> QED  BY <2>2, <3>1 DEF LineIn
  <2> QED  BY <1>1, <2>3, Reads
<1> QED  BY <1>0, <1>2, <1>3

LEMMA CacheInitKeeps == IInv /\ CacheInit => IInv'
<1> SUFFICES ASSUME IInv, CacheInit  PROVE IInv'
  OBVIOUS
<1>0. /\ pc = "init"
      /\ tf' = tf /\ buf' = buf /\ ibuf' = ibuf /\ done' = done /\ last' = last
      /\ lastId' = lastId /\ entry_min_pos' = entry_min_pos /\ crashes' = crashes
  BY DEF CacheInit
<1>1. PICK r \in GetOneDn(pos) :
        /\ idx' = r.idx
        /\ IF r.line = None
             THEN /\ max_filled' = pos - First /\ pc' = "take"
                  /\ UNCHANGED <<cache, pos>>
             ELSE /\ cache' = [cache EXCEPT ![pos - First] =
                                 [id |-> IF r.line[1].part = "head" THEN r.line[1].id ELSE 0,
                                  line |-> r.line]]
                  /\ IF pos = lastId
                       THEN max_filled' = pos - First + 1 /\ pc' = "take"
                       ELSE UNCHANGED <<max_filled, pc>>
                  /\ pos' = pos + 1
  BY DEF CacheInit
<1>2. /\ tf \in Seq(Bytes) /\ buf \in Seq(Bytes) /\ done \in Ids /\ last \in done..MaxId
      /\ ibuf = None \/ ibuf \in [id : Ids, pos : Nat]
      /\ lastId \in Ids /\ crashes \in 0..MaxCrash
      /\ \A i \in Slots : /\ cache[i].id \in Ids
                          /\ cache[i].line = None \/ cache[i].line \in Seq(Bytes)
      /\ DOMAIN cache = Slots
  BY DEF IInv, TypeOK
<1>3. /\ pos \in First..lastId /\ First >= 0 /\ max_filled = 0 /\ entry_min_pos = 0
      /\ buf = <<>> /\ ibuf = None
      /\ last = done => lastId = done
  BY <1>0 DEF IInv, Inv, Phase, Writing
<1>4. First = lastId - (CacheSize - 1) /\ First \in Nat /\ pos \in Ids
  <2>1. First = lastId - (CacheSize - 1) /\ lastId \in Int
    BY <1>2 DEF First
  <2>2. First \in Int
    BY <2>1
  <2> QED  BY <1>2, <1>3, <2>1, <2>2
<1>5. pos - First \in 0..CacheSize - 1 /\ (pos < lastId => pos - First < CacheSize - 1)
      /\ (pos = lastId => pos - First = CacheSize - 1)
  BY <1>2, <1>3, <1>4
<1>6. idx' \in [Ids -> Nat] /\ AllFound(idx)'
  BY <1>0, <1>1, <1>4, IndexRead
<1>7. /\ r.line # None => /\ r.line \in Seq(Bytes) /\ r.line[1] \in Bytes
                          /\ r.line[1].part = "head" => r.line[1].id = pos
      /\ pos \in 1..done => r.line = Line(pos)
      /\ pos = 0 => r.line = None
  BY <1>4, InvariantDisk, Reads
<1>8. /\ \A i \in Slots : cache[i].id \in 1..done => Right(i)
      /\ pos = 0 => \A i \in Slots : cache[i].id = 0
      /\ lastId > done => \E q \in 1..Len(tf) : tf[q].id = lastId
  BY <1>0 DEF IInv, Inv, Filling
<1>9. First' = First
  BY <1>0 DEF First
<1>10. Files' /\ LastLine'
  BY <1>0 DEF IInv, Inv, Files, LastLine, F
<1>11. pc' \in {"init", "take"}
  BY <1>0, <1>1
<1>12. Batch'
  BY <1>11 DEF Batch, Writing
<1>13. CASE r.line = None
  <2>1. max_filled' = pos - First /\ pc' = "take" /\ cache' = cache /\ pos' = pos
    BY <1>1, <1>13
  <2>2. TypeOK'
    <3>1. max_filled' \in 0..CacheSize /\ pos' \in 0..MaxId + 1
      BY <1>2, <1>4, <1>5, <2>1
    <3>2. entry_min_pos' \in Slots
      BY <1>0, <1>3 DEF Slots
    <3> QED  BY <1>0, <1>2, <1>6, <2>1, <3>1, <3>2 DEF TypeOK
  <2>3. Phase'
    BY <1>0, <1>3, <2>1 DEF Phase, Writing
  <2>4. Filling'
    BY <2>1 DEF Filling
  <2>5. Ring'
    <3>1. \A i \in 0..max_filled' - 1 : i \in Slots /\ 0 <= i
      BY <1>5, <2>1 DEF Slots
    <3>2. \A i \in Slots : Right(i)' <=> Right(i)
      BY <2>1 DEF Right
    <3>3. Published' = done
      BY <1>0, <2>1 DEF Published
    <3>4. max_filled' < CacheSize - 1 => \A i \in Slots : cache'[i].id = 0
      <4> SUFFICES ASSUME max_filled' < CacheSize - 1
                   PROVE  \A i \in Slots : cache'[i].id = 0
        OBVIOUS
      <4>1. pos < lastId
        BY <1>2, <1>3, <1>4, <1>5, <2>1
      <4>2. pos = 0
        BY <1>0, <1>13, <4>1, CacheInitFinds
      <4> QED  BY <1>8, <2>1, <4>2
    <3> QED  BY <1>0, <1>3, <1>8, <2>1, <3>1, <3>2, <3>3, <3>4 DEF Ring
  <2> QED  BY <1>6, <1>10, <1>12, <2>2, <2>3, <2>4, <2>5 DEF IInv, Inv
<1>14. CASE r.line # None
  <2> DEFINE k == pos - First
             new == [id |-> IF r.line[1].part = "head" THEN r.line[1].id ELSE 0,
                     line |-> r.line]
  <2>1. cache' = [cache EXCEPT ![k] = new] /\ pos' = pos + 1
    BY <1>1, <1>14
  <2>2. \/ pos = lastId /\ max_filled' = k + 1 /\ pc' = "take"
        \/ pos # lastId /\ max_filled' = 0 /\ pc' = "init"
    BY <1>0, <1>1, <1>3, <1>14
  <2>3. k \in Slots
    BY <1>5 DEF Slots
  <2>4. new.id \in Ids /\ new.line \in Seq(Bytes) /\ new.line = r.line
        /\ (new.id \in 1..done => new.id = pos)
    BY <1>7, <1>14 DEF Bytes
  <2> HIDE DEF k, new
  <2>5. \A i \in Slots : cache'[i] = IF i = k THEN new ELSE cache[i]
    BY <1>2, <2>1, <2>3
  <2>6. \A i \in Slots : cache'[i].id \in 1..done => Right(i)'
    <3> SUFFICES ASSUME NEW i \in Slots, cache'[i].id \in 1..done  PROVE Right(i)'
      OBVIOUS
    <3>1. CASE i = k
      <4>1. cache'[i] = new /\ new.id = pos /\ pos \in 1..done
        BY <2>4, <2>5, <3>1
      <4> QED  BY <1>7, <2>4, <4>1 DEF Right
    <3>2. CASE i # k
      <4>1. cache'[i] = cache[i]
        BY <2>5, <3>2
      <4> QED  BY <1>8, <4>1 DEF Right
    <3> QED  BY <3>1, <3>2
  <2>7. TypeOK'
    <3>1. max_filled' \in 0..CacheSize /\ pos' \in 0..MaxId + 1
      BY <1>2, <1>4, <1>5, <2>1, <2>2 DEF k
    <3>2. entry_min_pos' \in Slots
      BY <1>0, <1>3 DEF Slots
    <3>3. DOMAIN cache' = Slots
      BY <1>2, <2>1
    <3>4. \A i \in Slots : /\ cache'[i].id \in Ids
                           /\ cache'[i].line = None \/ cache'[i].line \in Seq(Bytes)
      BY <1>2, <2>4, <2>5
    <3> QED  BY <1>0, <1>2, <1>6, <1>11, <3>1, <3>2, <3>3, <3>4 DEF TypeOK
  <2>8. Phase'
    <3>1. pc' = "init" => pos' \in First'..lastId' /\ First' >= 0 /\ max_filled' = 0
      BY <1>0, <1>2, <1>3, <1>4, <1>9, <2>1, <2>2
    <3> QED  BY <1>0, <1>3, <1>11, <3>1 DEF Phase, Writing
  <2>9. Filling'
    <3>1. pos' # 0
      BY <1>4, <2>1
    <3> QED  BY <1>0, <1>8, <2>6, <3>1 DEF Filling
  <2>10. Ring'
    <3> SUFFICES ASSUME pc' = "take"  PROVE Ring'
      BY <1>11 DEF Ring
    <3>1. max_filled' = CacheSize
      BY <1>5, <2>2 DEF k
    <3>2. \A i \in 0..max_filled' - 1 : i \in Slots /\ 0 <= i
      BY <3>1 DEF Slots
    <3>3. Published' = done
      BY <1>0 DEF Published
    <3>4. ~(max_filled' < CacheSize - 1)
      BY <3>1
    <3> QED  BY <1>0, <1>3, <2>6, <3>2, <3>3, <3>4 DEF Ring
  <2> QED  BY <1>6, <1>10, <1>12, <2>7, <2>8, <2>9, <2>10 DEF IInv, Inv
<1> QED  BY <1>13, <1>14

LEMMA TakeKeeps == IInv /\ Take => IInv'
<1> SUFFICES ASSUME IInv, Take  PROVE IInv'
  OBVIOUS
<1>0. /\ pc = "take" /\ last' \in IF last > done THEN {last} ELSE done..MaxId
      /\ pos' = done + 1 /\ pc' = IF last' = done THEN "serve" ELSE "dump"
      /\ tf' = tf /\ buf' = buf /\ idx' = idx /\ ibuf' = ibuf /\ done' = done
      /\ lastId' = lastId /\ cache' = cache /\ entry_min_pos' = entry_min_pos
      /\ max_filled' = max_filled /\ crashes' = crashes
  BY DEF Take, files, ring
<1>1. tf \in Seq(Bytes) /\ done \in Ids /\ last \in done..MaxId
  BY DEF IInv, TypeOK
<1>2. last' \in done..MaxId /\ last <= last'
  BY <1>0, <1>1
<1>3. TypeOK'
  <2>1. pos' \in 0..MaxId + 1
    BY <1>0, <1>1
  <2>2. pc' \in {"dump", "serve"}
    BY <1>0
  <2> QED  BY <1>0, <1>2, <2>1, <2>2 DEF IInv, TypeOK
<1>4. /\ buf = <<>> /\ ibuf = None
      /\ last = done => lastId = done
  BY <1>0 DEF IInv, Inv, Phase, Writing
<1>5. F = tf /\ F' = tf
  BY <1>0, <1>1, <1>4, CatEmpty DEF F
<1>6. Phase'
  BY <1>0, <1>1, <1>2, <1>4 DEF Phase, Writing
<1>7. File(tf, done, last')
  BY <1>1, <1>2, FileMore DEF IInv, Inv, Files
<1>8. Files'
  BY <1>0, <1>5, <1>7 DEF Files
<1>9. AllFound(idx)'
  BY <1>0 DEF IInv, Inv, AllFound
<1>10. Batch'
  <2>1. Mended(tf, done)
    BY <1>7 DEF File
  <2>2. done + 1..pos' - 1 = {} /\ pos' - 1 = done /\ ~(pos' > done + 1)
    BY <1>0, <1>1
  <2> QED  BY <1>0, <1>4, <1>5, <2>1, <2>2 DEF Batch
<1>11. LastLine'
  <2> SUFFICES ASSUME last' = done  PROVE LastLine'
    BY <1>0 DEF LastLine
  <2>1. last = done
    BY <1>0, <1>1
  <2> QED  BY <1>0, <2>1 DEF IInv, Inv, LastLine
<1>12. Filling'
  BY <1>0 DEF Filling
<1>13. Ring'
  <2>1. Published' = Published /\ \A i : Right(i)' <=> Right(i)
    BY <1>0 DEF Published, Right
  <2> QED  BY <1>0, <2>1 DEF IInv, Inv, Ring
<1> QED  BY <1>3, <1>6, <1>8, <1>9, <1>10, <1>11, <1>12, <1>13 DEF IInv, Inv

LEMMA TwoBytes ==
  ASSUME NEW s \in Seq(Bytes), Len(s) = 2
  PROVE  /\ SubSeq(s, 1, 0) = <<>> /\ SubSeq(s, 1, 1) = <<s[1]>>
         /\ SubSeq(s, 1, 2) = s /\ SubSeq(s, 2, 2) = <<s[2]>>
         /\ <<s[1]>> \o <<s[2]>> = s
         /\ <<s[1]>> \in Seq(Bytes) /\ <<s[2]>> \in Seq(Bytes)
<1> DEFINE a == <<s[1]>>
           b == <<s[2]>>
<1>1. /\ \A i \in 1..2 : s[i] \in Bytes /\ (i = 1 \/ i = 2)
      /\ \A i \in 1..1 : i = 1
  BY ElementOfSeq
<1>2. /\ a \in Seq(Bytes) /\ Len(a) = 1 /\ a[1] = s[1]
      /\ b \in Seq(Bytes) /\ Len(b) = 1 /\ b[1] = s[2]
  BY <1>1
<1> HIDE DEF a, b
<1>3. SubSeq(s, 1, 0) = <<>>
  BY SubSeqEmpty
<1>4. SubSeq(s, 1, 1) = a
  <2>1. \A i \in 1..1 : s[i] \in Bytes
    BY <1>1
  <2>2. SubSeq(s, 1, 1) \in Seq(Bytes) /\ Len(SubSeq(s, 1, 1)) = 1
        /\ SubSeq(s, 1, 1)[1] = s[1]
    BY <2>1, SubSeqProperties
  <2> QED  BY <1>1, <1>2, <2>2, SeqEqual
<1>5. SubSeq(s, 2, 2) = b
  <2>1. \A i \in 2..2 : s[i] \in Bytes
    BY <1>1
  <2>2. SubSeq(s, 2, 2) \in Seq(Bytes) /\ Len(SubSeq(s, 2, 2)) = 1
        /\ SubSeq(s, 2, 2)[1] = s[2]
    BY <2>1, SubSeqProperties
  <2> QED  BY <1>1, <1>2, <2>2, SeqEqual
<1>6. SubSeq(s, 1, 2) = s
  <2>1. SubSeq(s, 1, 2) \in Seq(Bytes) /\ Len(SubSeq(s, 1, 2)) = 2
        /\ \A i \in 1..2 : SubSeq(s, 1, 2)[i] = s[i]
    BY <1>1, SubSeqProperties
  <2> QED  BY <2>1, SeqEqual
<1>7. a \o b = s
  <2>1. /\ a \o b \in Seq(Bytes) /\ Len(a \o b) = Len(a) + Len(b)
        /\ \A i \in 1..Len(a) : a[i] \in Bytes /\ (a \o b)[i] = a[i]
        /\ \A i \in 1..Len(b) : b[i] \in Bytes /\ (a \o b)[Len(a) + i] = b[i]
    BY <1>2, CatBytes, Zenon
  <2>2. 1 \in 1..Len(a) /\ 1 \in 1..Len(b)
    BY <1>2
  <2>3. (a \o b)[1] = s[1] /\ (a \o b)[Len(a) + 1] = s[2]
    BY <1>2, <2>1, <2>2
  <2>4. Len(a) + 1 = 2 /\ Len(a \o b) = 2
    BY <1>2, <2>1
  <2>5. \A i \in 1..2 : (a \o b)[i] = s[i]
    BY <1>1, <2>3, <2>4
  <2> QED  BY <2>1, <2>4, <2>5, SeqEqual
<1> QED  BY <1>2, <1>3, <1>4, <1>5, <1>6, <1>7 DEF a, b

\* Whatever part of a line stdio writes at once, the file will be the same.
LEMMA Cutting ==
  ASSUME tf \in Seq(Bytes), buf \in Seq(Bytes), NEW n \in Ids, Fprintf(Line(n))
  PROVE  /\ F' = F \o Line(n) /\ tf' \in Seq(Bytes) /\ buf' \in Seq(Bytes)
         /\ \E g \in Seq(Bytes) : tf' = tf \o g
         /\ \/ tf' = tf
            \/ tf' = F /\ buf # <<>>
            \/ tf' = F \o <<[id |-> n, part |-> "head"]>> /\ buf # <<>>
<1> DEFINE line == Line(n)
           head == <<[id |-> n, part |-> "head"]>>
           tail == <<[id |-> n, part |-> "tail"]>>
<1>0. line \in Seq(Bytes) /\ Len(line) = 2 /\ head = <<line[1]>> /\ tail = <<line[2]>>
  BY LineBytes
<1> HIDE DEF line, head, tail
<1>1. /\ SubSeq(line, 1, 0) = <<>> /\ SubSeq(line, 1, 1) = head
      /\ SubSeq(line, 0 + 1, 2) = line /\ SubSeq(line, 1 + 1, 2) = tail
      /\ head \o tail = line /\ head \in Seq(Bytes) /\ tail \in Seq(Bytes)
  <2>1. 0 + 1 = 1 /\ 1 + 1 = 2
    OBVIOUS
  <2> QED  BY <1>0, <2>1, TwoBytes
<1>2. F \in Seq(Bytes) /\ <<>> \in Seq(Bytes)
  <2>1. F \in Seq(Bytes)
    BY CatBytes DEF F
  <2> QED  BY <2>1
<1>3. CASE buf' = buf \o line /\ tf' = tf
  <2>1. F' = tf \o (buf \o line)
    BY <1>3 DEF F
  <2>2. F' = F \o line
    <3>1. (tf \o buf) \o line = tf \o (buf \o line)
      BY SMTT(20), <1>0, <1>1, <1>2, ConcatAssociative
    <3> QED  BY <2>1, <3>1 DEF F
  <2>3. buf' \in Seq(Bytes)
    BY <1>0, <1>1, <1>2, <1>3, CatBytes
  <2>4. tf' = tf \o <<>>
    BY <1>3, CatEmpty
  <2> QED  BY <1>0, <1>1, <1>2, <1>3, <2>2, <2>3, <2>4 DEF line
<1>4. ASSUME Len(buf) >= 2, NEW cut \in {0, 1},
             tf' = tf \o buf \o SubSeq(line, 1, cut), buf' = SubSeq(line, cut + 1, 2)
      PROVE  /\ F' = F \o line /\ tf' \in Seq(Bytes) /\ buf' \in Seq(Bytes)
             /\ \E g \in Seq(Bytes) : tf' = tf \o g
             /\ (tf' = F \/ tf' = F \o head) /\ buf # <<>>
  <2>1. buf # <<>>
    BY <1>4, EmptySeq
  <2>2. CASE cut = 0
    <3>1. tf' = F \o <<>> /\ buf' = line
      BY <1>1, <1>4, <2>2 DEF F
    <3>2. tf' = F
      BY <1>0, <1>1, <1>2, <3>1, CatEmpty
    <3>3. F' = F \o line
      BY <3>1, <3>2 DEF F
    <3>4. tf' = tf \o buf
      BY <3>2 DEF F
    <3> QED  BY <1>0, <1>1, <1>2, <2>1, <3>1, <3>2, <3>3, <3>4
  <2>3. CASE cut = 1
    <3>1. tf' = F \o head /\ buf' = tail
      BY <1>1, <1>4, <2>3 DEF F
    <3>2. F' = (F \o head) \o tail
      BY <3>1 DEF F
    <3>3. F' = F \o line
      <4>1. (F \o head) \o tail = F \o (head \o tail)
        <5>1. F \in Seq(Bytes) /\ head \in Seq(Bytes) /\ tail \in Seq(Bytes)
          BY <1>1, <1>2
        <5> QED  BY SMTT(20), <5>1, ConcatAssociative
      <4> QED  BY <1>1, <3>2, <4>1
    <3>4. tf' = tf \o (buf \o head)
      <4>1. (tf \o buf) \o head = tf \o (buf \o head)
        <5>1. head \in Seq(Bytes)
          BY <1>1
        <5> QED  BY <5>1, ConcatAssociative
      <4> QED  BY <3>1, <4>1 DEF F
    <3>5. buf \o head \in Seq(Bytes) /\ F \o head \in Seq(Bytes)
      BY <1>0, <1>1, <1>2, CatBytes
    <3> QED  BY <1>0, <1>1, <1>2, <2>1, <3>1, <3>3, <3>4, <3>5
  <2> QED  BY <1>4, <2>2, <2>3
<1> QED  BY <1>3, <1>4 DEF Fprintf, line, head

LEMMA FlushedIs ==
  ASSUME IInv
  PROVE  /\ Flushed \in [Ids -> Nat]
         /\ \A n \in Ids : ibuf = None \/ n # ibuf.id => Flushed[n] = idx[n]
BY DEF IInv, TypeOK, Flushed

LEMMA DumpLineKeeps == IInv /\ DumpLine => IInv'
<1> SUFFICES ASSUME IInv, DumpLine  PROVE IInv'
  OBVIOUS
<1> DEFINE k == Len(tf) + Len(buf) + 1
<1>0. /\ pc = "dump" /\ idx' = Flushed /\ ibuf' = [id |-> pos, pos |-> k]
      /\ Fprintf(Line(pos))
      /\ pos' = pos + 1 /\ pc' = IF pos = last THEN "close" ELSE "dump"
      /\ done' = done /\ last' = last /\ lastId' = lastId /\ cache' = cache
      /\ entry_min_pos' = entry_min_pos /\ max_filled' = max_filled /\ crashes' = crashes
  BY DEF DumpLine, IndexSet, ring
<1>1. /\ tf \in Seq(Bytes) /\ buf \in Seq(Bytes) /\ done \in Ids /\ last \in done..MaxId
      /\ done \in Nat /\ last \in Nat /\ last \in Ids
  BY DEF IInv, TypeOK
<1>2. pos \in done + 1..last /\ pos \in Ids
  BY <1>0, <1>1 DEF IInv, Inv, Phase
<1>3. F \in Seq(Bytes) /\ Len(F) = Len(tf) + Len(buf) /\ Len(F) \in Nat /\ k = Len(F) + 1
      /\ k \in Nat
  BY <1>1, CatBytes DEF F
<1>4. /\ F' = F \o Line(pos) /\ tf' \in Seq(Bytes) /\ buf' \in Seq(Bytes)
      /\ \E g \in Seq(Bytes) : tf' = tf \o g
      /\ \/ tf' = tf
         \/ tf' = F /\ buf # <<>>
         \/ tf' = F \o <<[id |-> pos, part |-> "head"]>> /\ buf # <<>>
  BY <1>0, <1>1, <1>2, Cutting
<1> HIDE DEF k
<1>5. /\ \A m \in done + 1..pos - 1 : LineIn(F, m, 1, Len(F)) /\ WholeAt(F, Flushed[m], m)
      /\ Mended(F, pos - 1)
      /\ pos > done + 1 => EndsIn(F, pos - 1)
      /\ pos = done + 1 => buf = <<>> /\ ibuf = None
      /\ ibuf # None => ibuf.id \in done + 1..pos - 1
  BY <1>0 DEF IInv, Inv, Batch, Writing
<1>6. File(tf, done, last) /\ File(F, done, last)
  BY DEF IInv, Inv, Files
<1>7. /\ File(F', done, last) /\ EndsIn(F', pos) /\ LineIn(F', pos, 1, Len(F'))
      /\ Mended(F', pos)
      /\ Begins(F', Len(F') - 1) \/ (pos = done + 1 /\ last > done + 1)
      /\ WholeAt(F', k, pos)
  BY <1>1, <1>2, <1>3, <1>4, <1>5, <1>6, WriteLine
<1>8. Flushed \in [Ids -> Nat] /\ \A n \in Ids : ibuf = None \/ n # ibuf.id => Flushed[n] = idx[n]
  BY FlushedIs
<1>9. TypeOK'
  <2>1. pos' \in 0..MaxId + 1 /\ pc' \in {"close", "dump"}
    BY <1>0, <1>2
  <2>2. ibuf' \in [id : Ids, pos : Nat]
    BY <1>0, <1>2, <1>3
  <2> QED  BY <1>0, <1>4, <1>8, <2>1, <2>2 DEF IInv, TypeOK
<1>10. Phase'
  BY <1>0, <1>1, <1>2 DEF Phase, Writing
<1>11. Files'
  <2>1. CASE tf' = tf
    BY <1>0, <1>6, <1>7, <2>1 DEF Files
  <2>2. CASE tf' = F
    BY <1>0, <1>6, <1>7, <2>2 DEF Files
  <2>3. CASE tf' = F \o <<[id |-> pos, part |-> "head"]>> /\ buf # <<>>
    <3>1. pos # done + 1
      BY <1>5, <2>3
    <3>2. pos \in done + 2..last /\ EndsIn(F, pos - 1)
      BY <1>1, <1>2, <1>5, <3>1
    <3>3. File(tf', done, last)
      BY <1>1, <1>3, <1>5, <1>6, <2>3, <3>2, WriteHead
    <3> QED  BY <1>0, <1>7, <3>3 DEF Files
  <2> QED  BY <1>4, <2>1, <2>2, <2>3
<1>12. AllFound(idx)'
  <2>1. PICK g \in Seq(Bytes) : tf' = tf \o g
    BY <1>4
  <2>2. \A n \in 0..done : n \in Ids /\ idx'[n] = idx[n]
    <3>1. ASSUME NEW n \in 0..done  PROVE n \in Ids /\ (ibuf = None \/ n # ibuf.id)
      BY <1>1, <1>5
    <3> QED  BY <1>0, <1>8, <3>1
  <2>3. ASSUME NEW n \in 1..done  PROVE Found(tf', idx', n)
    <3>1. Found(tf, idx, n) /\ idx'[n] = idx[n]
      BY <1>1, <2>2 DEF IInv, Inv, AllFound
    <3> QED  BY <1>1, <2>1, <3>1, FoundStays
  <2>4. idx'[0] = 0
    BY <1>1, <2>2 DEF IInv, Inv, AllFound
  <2> QED  BY <1>0, <2>3, <2>4 DEF AllFound
<1>13. Batch'
  <2>1. Flushed' = [Flushed EXCEPT ![pos] = k]
    <3>1. ibuf' # None
      BY <1>0, <1>2, <1>3, NoneAssumption
    <3> QED  BY <1>0, <3>1 DEF Flushed
  <2>2. ASSUME NEW m \in done + 1..pos
        PROVE  LineIn(F', m, 1, Len(F')) /\ WholeAt(F', Flushed'[m], m)
    <3>0. m \in Ids
      BY <1>1, <1>2
    <3>1. CASE m = pos
      <4>1. Flushed'[m] = k
        BY <1>8, <2>1, <3>0, <3>1
      <4> QED  BY <1>7, <3>1, <4>1
    <3>2. CASE m # pos
      <4>1. m \in done + 1..pos - 1
        BY <1>1, <1>2, <3>2
      <4>2. Flushed'[m] = Flushed[m]
        BY <1>8, <2>1, <3>0, <3>2
      <4>3. LineIn(F', m, 1, Len(F)) /\ WholeAt(F', Flushed'[m], m)
        BY <1>2, <1>3, <1>4, <1>5, <4>1, <4>2, Appending, LineBytes
      <4>4. 1..Len(F) \subseteq 1..Len(F')
        <5>1. Len(F') = Len(F) + 2
          <6> DEFINE line == Line(pos)
          <6>1. line \in Seq(Bytes) /\ Len(line) = 2
            BY <1>2, LineBytes
          <6> HIDE DEF line
          <6>2. Len(F \o line) = Len(F) + Len(line)
            BY <1>3, <6>1, CatBytes
          <6> QED  BY <1>4, <6>1, <6>2 DEF line
        <5> QED  BY <1>3, <5>1
      <4> QED  BY <4>3, <4>4 DEF LineIn
    <3> QED  BY <3>1, <3>2
  <2>3. pos' - 1 = pos /\ pos' > done + 1 /\ pos' # done + 1 /\ done + 1..pos' - 1 = done + 1..pos
        /\ (pos' = done + 2 <=> pos = done + 1)
    BY <1>0, <1>1, <1>2
  <2>4. ibuf'.id = pos /\ pos \in done + 1..pos
    BY <1>0, <1>1, <1>2
  <2> QED  BY <1>0, <1>7, <2>2, <2>3, <2>4 DEF Batch
<1>14. LastLine' /\ Filling'
  BY <1>0, <1>1, <1>2 DEF LastLine, Filling
<1>15. Ring'
  <2>1. Published' = Published /\ \A i : Right(i)' <=> Right(i)
    BY <1>0 DEF Published, Right
  <2> QED  BY <1>0, <2>1 DEF IInv, Inv, Ring
<1> QED  BY <1>9, <1>10, <1>11, <1>12, <1>13, <1>14, <1>15 DEF IInv, Inv

LEMMA CloseIndexKeeps == IInv /\ CloseIndex => IInv'
<1> SUFFICES ASSUME IInv, CloseIndex  PROVE IInv'
  OBVIOUS
<1>0. /\ pc = "close" /\ idx' = Flushed /\ ibuf' = None
      /\ tf' = tf /\ buf' = buf /\ done' = done /\ last' = last /\ pc' = pc /\ pos' = pos
      /\ lastId' = lastId /\ cache' = cache /\ entry_min_pos' = entry_min_pos
      /\ max_filled' = max_filled /\ crashes' = crashes
  BY DEF CloseIndex, ring
<1>1. tf \in Seq(Bytes) /\ done \in Ids /\ done \in Nat
  BY DEF IInv, TypeOK
<1>2. /\ Flushed \in [Ids -> Nat]
      /\ \A n \in Ids : ibuf = None \/ n # ibuf.id => Flushed[n] = idx[n]
  BY FlushedIs
<1>3. TypeOK'
  BY <1>0, <1>2 DEF IInv, TypeOK
<1>4. Phase'
  BY <1>0 DEF IInv, Inv, Phase, Writing, First
<1>5. Files' /\ LastLine' /\ Filling'
  BY <1>0 DEF IInv, Inv, Files, F, LastLine, Filling
<1>6. AllFound(idx)'
  <2>1. \A n \in 0..done : n \in Ids /\ idx'[n] = idx[n]
    <3>1. ibuf # None => ibuf.id \in done + 1..pos - 1
      BY <1>0 DEF IInv, Inv, Batch, Writing
    <3>2. \A n \in 0..done : n \in Ids /\ (ibuf = None \/ n # ibuf.id)
      BY <1>1, <3>1
    <3> QED  BY <1>0, <1>2, <3>2
  <2>2. ASSUME NEW n \in 1..done  PROVE Found(tf, idx', n)
    <3>1. Found(tf, idx, n) /\ idx'[n] = idx[n]
      BY <1>1, <2>1 DEF IInv, Inv, AllFound
    <3> QED  BY <3>1 DEF Found
  <2>3. idx'[0] = 0
    BY <1>1, <2>1 DEF IInv, Inv, AllFound
  <2> QED  BY <1>0, <2>2, <2>3 DEF AllFound
<1>7. Batch'
  <2>1. Flushed' = Flushed /\ F' = F
    BY <1>0 DEF Flushed, F
  <2>2. pos = done + 1 => buf = <<>>
    BY <1>0 DEF IInv, Inv, Batch, Writing
  <2> QED  BY <1>0, <2>1, <2>2 DEF IInv, Inv, Batch, Writing
<1>8. Ring'
  <2>1. Published' = Published /\ \A i : Right(i)' <=> Right(i)
    BY <1>0 DEF Published, Right
  <2> QED  BY <1>0, <2>1 DEF IInv, Inv, Ring
<1> QED  BY <1>3, <1>4, <1>5, <1>6, <1>7, <1>8 DEF IInv, Inv

LEMMA CloseFileKeeps == IInv /\ CloseFile => IInv'
<1> SUFFICES ASSUME IInv, CloseFile  PROVE IInv'
  OBVIOUS
<1>0. /\ pc = "close" /\ ibuf = None /\ tf' = F /\ buf' = <<>> /\ pc' = "unlink"
      /\ idx' = idx /\ ibuf' = ibuf /\ done' = done /\ last' = last /\ pos' = pos
      /\ lastId' = lastId /\ cache' = cache /\ entry_min_pos' = entry_min_pos
      /\ max_filled' = max_filled /\ crashes' = crashes
  BY DEF CloseFile, ring, F
<1>1. tf \in Seq(Bytes) /\ buf \in Seq(Bytes) /\ done \in Ids /\ last \in Ids
  BY DEF IInv, TypeOK
<1>2. F \in Seq(Bytes) /\ F' = F
  <2>1. F \in Seq(Bytes)
    BY <1>1, CatBytes DEF F
  <2>2. F' = F \o <<>>
    BY <1>0 DEF F
  <2> QED  BY <2>1, <2>2, CatEmpty
<1>3. TypeOK'
  <2>1. buf' \in Seq(Bytes)
    BY <1>0
  <2> QED  BY <1>0, <1>2, <2>1 DEF IInv, TypeOK
<1>4. pos = last + 1 /\ last > done
  BY <1>0 DEF IInv, Inv, Phase
<1>5. Phase'
  BY <1>0, <1>4 DEF Phase, Writing
<1>6. Files'
  BY <1>0, <1>2 DEF IInv, Inv, Files
<1>7. AllFound(idx)'
  <2>1. ASSUME NEW n \in 1..done  PROVE Found(F, idx, n)
    <3>1. Found(tf, idx, n)
      BY DEF IInv, Inv, AllFound
    <3> QED  BY <1>1, <3>1, FoundStays DEF F
  <2> QED  BY <1>0, <2>1 DEF IInv, Inv, AllFound
<1>8. Batch'
  <2>1. Flushed' = Flushed
    BY <1>0 DEF Flushed
  <2> QED  BY <1>0, <1>2, <2>1 DEF IInv, Inv, Batch, Writing
<1>9. LastLine' /\ Filling'
  BY <1>0, <1>1, <1>4 DEF LastLine, Filling
<1>10. Ring'
  <2>1. Published' = Published /\ \A i : Right(i)' <=> Right(i)
    BY <1>0 DEF Published, Right
  <2> QED  BY <1>0, <2>1 DEF IInv, Inv, Ring
<1> QED  BY <1>3, <1>5, <1>6, <1>7, <1>8, <1>9, <1>10 DEF IInv, Inv

LEMMA UnlinkKeeps == IInv /\ Unlink => IInv'
<1> SUFFICES ASSUME IInv, Unlink  PROVE IInv'
  OBVIOUS
<1>0. /\ pc = "unlink" /\ done' = last /\ pos' = done + 1 /\ pc' = "publish"
      /\ tf' = tf /\ buf' = buf /\ idx' = idx /\ ibuf' = ibuf /\ last' = last
      /\ lastId' = lastId /\ cache' = cache /\ entry_min_pos' = entry_min_pos
      /\ max_filled' = max_filled /\ crashes' = crashes
  BY DEF Unlink, files, ring
<1>1. /\ tf \in Seq(Bytes) /\ done \in Ids /\ last \in done..MaxId /\ last \in Ids
      /\ done \in Nat /\ idx \in [Ids -> Nat]
  BY DEF IInv, TypeOK
<1>2. pos = last + 1 /\ last > done /\ buf = <<>> /\ ibuf = None
  BY <1>0 DEF IInv, Inv, Phase
<1>3. F = tf /\ F' = tf /\ Flushed = idx
  BY <1>0, <1>1, <1>2, CatEmpty DEF F, Flushed
<1>4. /\ \A m \in done + 1..last : WholeAt(tf, idx[m], m)
      /\ Mended(tf, last) /\ EndsIn(tf, last)
      /\ Begins(tf, Len(tf) - 1)
  <2>1. /\ \A m \in done + 1..pos - 1 : WholeAt(tf, idx[m], m)
        /\ Mended(tf, pos - 1)
        /\ pos > done + 1 => /\ EndsIn(tf, pos - 1)
                             /\ Begins(tf, Len(tf) - 1) \/ (pos = done + 2 /\ last > done + 1)
    BY <1>0, <1>3 DEF IInv, Inv, Batch, Writing
  <2>2. pos - 1 = last /\ pos > done + 1 /\ ~(pos = done + 2 /\ last > done + 1)
    BY <1>1, <1>2
  <2> QED  BY <2>1, <2>2
<1>5. TypeOK'
  <2>1. last' \in done'..MaxId /\ pos' \in 0..MaxId + 1
    BY <1>0, <1>1
  <2> QED  BY <1>0, <1>1, <2>1 DEF IInv, TypeOK
<1>6. Phase'
  BY <1>0, <1>1, <1>2 DEF Phase, Writing
<1>7. Files'
  <2>1. File(tf, last, last)
    BY <1>1, <1>4, FileDone DEF IInv, Inv, Files
  <2> QED  BY <1>0, <1>3, <2>1 DEF Files
<1>8. AllFound(idx)'
  <2>1. ASSUME NEW n \in 1..last  PROVE Found(tf, idx, n)
    <3>1. CASE n <= done
      BY <1>1, <3>1 DEF IInv, Inv, AllFound
    <3>2. CASE n > done
      BY <1>1, <1>4, <3>2 DEF Found
    <3> QED  BY <1>1, <3>1, <3>2
  <2> QED  BY <1>0, <2>1 DEF IInv, Inv, AllFound
<1>9. Batch' /\ Filling'
  BY <1>0 DEF Batch, Writing, Filling
<1>10. LastLine'
  BY <1>0, <1>1, <1>2, <1>4 DEF LastLine
<1>11. Ring'
  <2>1. Published' = Published
    BY <1>0, <1>1 DEF Published
  <2>2. \A i : Right(i)' <=> Right(i)
    BY <1>0 DEF Right
  <2> QED  BY <1>0, <2>1, <2>2 DEF IInv, Inv, Ring
<1> QED  BY <1>5, <1>6, <1>7, <1>8, <1>9, <1>10, <1>11 DEF IInv, Inv

LEMMA PublishKeeps == IInv /\ Publish => IInv'
<1> SUFFICES ASSUME IInv, Publish  PROVE IInv'
  OBVIOUS
<1> DEFINE entry == [id |-> pos, line |-> Line(pos)]
           p == entry_min_pos
<1>0. /\ pc = "publish" /\ CacheAdd(pos) /\ lastId' = pos
      /\ pos' = pos + 1 /\ pc' = IF pos = last THEN "serve" ELSE "publish"
      /\ tf' = tf /\ buf' = buf /\ idx' = idx /\ ibuf' = ibuf
      /\ done' = done /\ last' = last /\ crashes' = crashes
  BY DEF Publish, files
<1>1. /\ done \in Ids /\ last \in Ids /\ p \in Slots /\ max_filled \in 0..CacheSize
      /\ \A i \in Slots : /\ cache[i].id \in Ids
                          /\ cache[i].line = None \/ cache[i].line \in Seq(Bytes)
      /\ DOMAIN cache = Slots
  BY DEF IInv, TypeOK
<1>2. pos \in 1..done /\ last = done /\ pos \in Ids /\ pos \in Nat
  BY <1>0, <1>1 DEF IInv, Inv, Phase
<1>3. Published = pos - 1 /\ Published' = pos
  BY <1>0, <1>2 DEF Published
<1>4. /\ \A i \in 0..max_filled - 1 :
           /\ cache[i].id > pos - 1 => p <= i
           /\ cache[i].id \in 1..pos - 1 /\ ~Right(i) =>
                p <= i /\ \E j \in 0..p - 1 : cache[j].id = cache[i].id
      /\ max_filled < CacheSize - 1 =>
           /\ p = 0
           /\ \A i \in Slots : cache[i].id # 0 => cache[i].id <= pos - 1 /\ Right(i)
  BY <1>0, <1>3 DEF IInv, Inv, Ring
<1>5. entry.id = pos /\ entry.line = Line(pos) /\ entry.line \in Seq(Bytes)
  BY <1>2, LineBytes
<1> HIDE DEF entry
<1>6. ASSUME max_filled < CacheSize - 1, max_filled' = max_filled + 1,
             cache' = [cache EXCEPT ![max_filled + 1] = entry],
             entry_min_pos' = entry_min_pos
      PROVE  /\ Ring' /\ DOMAIN cache' = Slots
             /\ entry_min_pos' \in Slots /\ max_filled' \in 0..CacheSize
             /\ \A i \in Slots : /\ cache'[i].id \in Ids
                                 /\ cache'[i].line = None \/ cache'[i].line \in Seq(Bytes)
  <2>1. /\ max_filled + 1 \in Slots
        /\ \A i \in Slots : cache'[i] = IF i = max_filled + 1 THEN entry ELSE cache[i]
        /\ DOMAIN cache' = Slots
    BY <1>1, <1>6 DEF Slots
  <2>2. \A i \in Slots : cache'[i].id # 0 => cache'[i].id <= pos /\ Right(i)'
    <3> SUFFICES ASSUME NEW i \in Slots, cache'[i].id # 0
                 PROVE  cache'[i].id <= pos /\ Right(i)'
      OBVIOUS
    <3>1. CASE i = max_filled + 1
      BY <1>2, <1>5, <2>1, <3>1 DEF Right
    <3>2. CASE i # max_filled + 1
      <4>1. cache'[i] = cache[i]
        BY <2>1, <3>2
      <4>2. cache[i].id <= pos - 1 /\ Right(i)
        BY <1>4, <1>6, <4>1
      <4> QED  BY <1>1, <1>2, <4>1, <4>2 DEF Right
    <3> QED  BY <3>1, <3>2
  <2>3. Ring'
    <3>1. ASSUME NEW i \in 0..max_filled' - 1
          PROVE  i \in Slots /\ 0 <= i /\ ~(cache'[i].id \in 1..pos /\ ~Right(i)')
      <4>1. i \in Slots /\ 0 <= i
        BY <1>1, <1>6, <3>1 DEF Slots
      <4>2. CASE cache'[i].id = 0
        BY <4>1, <4>2
      <4>3. CASE cache'[i].id # 0
        BY <2>2, <4>1, <4>3
      <4> QED  BY <4>1, <4>2, <4>3
    <3> QED  BY <1>3, <1>4, <1>6, <2>2, <3>1 DEF Ring
  <2>4. /\ entry_min_pos' \in Slots /\ max_filled' \in 0..CacheSize
        /\ \A i \in Slots : /\ cache'[i].id \in Ids
                            /\ cache'[i].line = None \/ cache'[i].line \in Seq(Bytes)
    BY <1>1, <1>2, <1>5, <1>6, <2>1
  <2> QED  BY <2>1, <2>3, <2>4
<1>7. ASSUME max_filled >= CacheSize - 1, max_filled' = max_filled,
             cache' = [cache EXCEPT ![p] = entry], entry_min_pos' = Wraps
      PROVE  /\ Ring' /\ DOMAIN cache' = Slots
             /\ entry_min_pos' \in Slots /\ max_filled' \in 0..CacheSize
             /\ \A i \in Slots : /\ cache'[i].id \in Ids
                                 /\ cache'[i].line = None \/ cache'[i].line \in Seq(Bytes)
  <2>1. /\ \A i \in Slots : cache'[i] = IF i = p THEN entry ELSE cache[i]
        /\ DOMAIN cache' = Slots
    BY <1>1, <1>7
  <2>2. Wraps \in Slots /\ (p < CacheSize - 1 => Wraps = p + 1)
        /\ (~(p < CacheSize - 1) => Wraps = 0 /\ p = CacheSize - 1)
    BY <1>1 DEF Wraps, Slots
  <2>3. \A i \in 0..max_filled' - 1 : i \in Slots /\ i <= CacheSize - 1 /\ i \in Nat
    BY <1>1, <1>7 DEF Slots
  <2>4. p \in Nat
    BY <1>1 DEF Slots
  <2>5. \A j \in 0..p - 1 : j \in Slots /\ cache'[j] = cache[j]
    <3>1. \A j \in 0..p - 1 : j \in Slots /\ j # p
      BY <1>1 DEF Slots
    <3> QED  BY <2>1, <3>1
  <2>6. ASSUME NEW i \in 0..max_filled' - 1, i # p, p <= i
        PROVE  Wraps = p + 1 /\ Wraps <= i
    BY <2>2, <2>3, <2>4, <2>6
  <2>7. ASSUME NEW i \in 0..max_filled' - 1, cache'[i].id > pos
        PROVE  Wraps <= i
    <3>1. i # p /\ cache'[i] = cache[i]
      BY <1>2, <1>5, <2>1, <2>3, <2>7
    <3>2. cache[i].id > pos - 1
      BY <1>1, <1>2, <2>3, <2>7, <3>1
    <3>3. p <= i
      BY <1>4, <1>7, <3>2
    <3> QED  BY <2>6, <3>1, <3>3
  <2>8. ASSUME NEW i \in 0..max_filled' - 1, cache'[i].id \in 1..pos, ~Right(i)'
        PROVE  Wraps <= i /\ \E j \in 0..Wraps - 1 : cache'[j].id = cache'[i].id
    <3>1. i # p
      BY <1>5, <2>1, <2>3, <2>8 DEF Right
    <3>2. cache'[i] = cache[i] /\ ~Right(i)
      BY <2>1, <2>3, <2>8, <3>1 DEF Right
    <3>3. CASE cache[i].id = pos
      <4>1. p <= i
        BY <1>2, <1>4, <1>7, <3>3
      <4>2. Wraps <= i /\ p \in 0..Wraps - 1
        BY <2>4, <2>6, <3>1, <4>1
      <4> QED  BY <1>1, <1>5, <2>1, <3>2, <3>3, <4>2
    <3>4. CASE cache[i].id # pos
      <4>1. cache[i].id \in 1..pos - 1
        BY <1>2, <2>8, <3>2, <3>4
      <4>2. p <= i /\ \E j \in 0..p - 1 : cache[j].id = cache[i].id
        BY <1>4, <1>7, <3>2, <4>1
      <4>3. Wraps <= i /\ 0..p - 1 \subseteq 0..Wraps - 1
        BY <2>4, <2>6, <3>1, <4>2
      <4> QED  BY <2>5, <3>2, <4>2, <4>3
    <3> QED  BY <3>3, <3>4
  <2>9. Ring'
    <3>1. ~(max_filled' < CacheSize - 1)
      BY <1>1, <1>7
    <3> QED  BY <1>3, <1>7, <2>7, <2>8, <3>1 DEF Ring
  <2>10. /\ entry_min_pos' \in Slots /\ max_filled' \in 0..CacheSize
         /\ \A i \in Slots : /\ cache'[i].id \in Ids
                             /\ cache'[i].line = None \/ cache'[i].line \in Seq(Bytes)
    BY <1>1, <1>2, <1>5, <1>7, <2>1, <2>2
  <2> QED  BY <2>1, <2>9, <2>10
<1>8. /\ Ring' /\ DOMAIN cache' = Slots
      /\ entry_min_pos' \in Slots /\ max_filled' \in 0..CacheSize
      /\ \A i \in Slots : /\ cache'[i].id \in Ids
                          /\ cache'[i].line = None \/ cache'[i].line \in Seq(Bytes)
  BY <1>0, <1>6, <1>7 DEF CacheAdd, entry
<1>9. TypeOK'
  <2>1. pos' \in 0..MaxId + 1 /\ pc' \in {"serve", "publish"} /\ lastId' \in Ids
    BY <1>0, <1>2
  <2> QED  BY <1>0, <1>8, <2>1 DEF IInv, TypeOK
<1>10. Phase'
  <2>1. buf = <<>> /\ ibuf = None
    BY <1>0 DEF IInv, Inv, Phase, Writing
  <2>2. pc' = "publish" => pos' \in 1..done
    BY <1>0, <1>1, <1>2
  <2> QED  BY <1>0, <1>2, <2>1, <2>2 DEF Phase, Writing
<1>11. Files' /\ LastLine'
  BY <1>0 DEF IInv, Inv, Files, LastLine, F
<1>12. Batch' /\ Filling'
  BY <1>0 DEF Batch, Writing, Filling
<1>13. AllFound(idx)'
  BY <1>0 DEF IInv, Inv, AllFound
<1> QED  BY <1>8, <1>9, <1>10, <1>11, <1>12, <1>13 DEF IInv, Inv

LEMMA SignalKeeps == IInv /\ Signal => IInv'
<1> SUFFICES ASSUME IInv, Signal  PROVE IInv'
  OBVIOUS
<1>0. /\ pc = "serve" /\ pc' = "take"
      /\ tf' = tf /\ buf' = buf /\ idx' = idx /\ ibuf' = ibuf /\ done' = done
      /\ last' = last /\ pos' = pos /\ lastId' = lastId /\ cache' = cache
      /\ entry_min_pos' = entry_min_pos /\ max_filled' = max_filled /\ crashes' = crashes
  BY DEF Signal, files, ring
<1>1. TypeOK'
  BY <1>0 DEF IInv, TypeOK
<1>2. Phase'
  BY <1>0 DEF IInv, Inv, Phase, Writing
<1>3. Files' /\ LastLine' /\ AllFound(idx)'
  BY <1>0 DEF IInv, Inv, Files, F, LastLine, AllFound
<1>4. Batch' /\ Filling'
  BY <1>0 DEF Batch, Writing, Filling
<1>5. Ring'
  <2>1. Published' = Published /\ \A i : Right(i)' <=> Right(i)
    BY <1>0 DEF Published, Right
  <2> QED  BY <1>0, <2>1 DEF IInv, Inv, Ring
<1> QED  BY <1>1, <1>2, <1>3, <1>4, <1>5 DEF IInv, Inv

LEMMA CrashKeeps == IInv /\ Crash => IInv'
<1> SUFFICES ASSUME IInv, Crash  PROVE IInv'
  OBVIOUS
<1>0. /\ crashes < MaxCrash /\ crashes' = crashes + 1
      /\ pc' = "down" /\ pos' = 0 /\ lastId' = 0 /\ buf' = <<>> /\ ibuf' = None
      /\ cache' = [i \in Slots |-> Empty] /\ entry_min_pos' = 0 /\ max_filled' = 0
      /\ tf' = tf /\ idx' = idx /\ done' = done /\ last' = last
  BY DEF Crash
<1>1. tf \in Seq(Bytes)
  BY DEF IInv, TypeOK
<1>2. \A i \in Slots : cache'[i].id = 0 /\ cache'[i].line = None
  BY <1>0 DEF Empty
<1>3. TypeOK'
  <2>1. /\ crashes' \in 0..MaxCrash /\ buf' \in Seq(Bytes) /\ 0 \in Ids /\ 0 \in Slots
        /\ DOMAIN cache' = Slots /\ pos' \in 0..MaxId + 1 /\ max_filled' \in 0..CacheSize
    BY <1>0 DEF IInv, TypeOK, Slots
  <2> QED  BY <1>0, <1>2, <2>1 DEF IInv, TypeOK
<1>4. Phase'
  BY <1>0 DEF Phase, Writing
<1>5. Files'
  <2>1. F' = tf
    BY <1>0, <1>1, CatEmpty DEF F
  <2> QED  BY <1>0, <2>1 DEF IInv, Inv, Files
<1>6. LastLine' /\ AllFound(idx)'
  BY <1>0 DEF IInv, Inv, LastLine, AllFound
<1>7. Batch' /\ Filling'
  BY <1>0 DEF Batch, Writing, Filling
<1>8. Ring'
  <2>1. 0..0 - 1 = {}
    OBVIOUS
  <2> QED  BY <1>0, <1>2, <2>1 DEF Ring
<1> QED  BY <1>3, <1>4, <1>5, <1>6, <1>7, <1>8 DEF IInv, Inv

\* A step that leaves all but the index alone, and finds the same with it.
LEMMA IndexKeeps ==
  ASSUME IInv, pc \in {"down", "serve"}, idx' \in [Ids -> Nat], AllFound(idx)',
         UNCHANGED <<tf, buf, ibuf, done, last, pc, pos, lastId, ring, crashes>>
  PROVE  IInv'
<1>0. /\ tf' = tf /\ buf' = buf /\ ibuf' = ibuf /\ done' = done /\ last' = last
      /\ pc' = pc /\ pos' = pos /\ lastId' = lastId /\ cache' = cache
      /\ entry_min_pos' = entry_min_pos /\ max_filled' = max_filled /\ crashes' = crashes
  BY DEF ring
<1>1. TypeOK'
  BY <1>0 DEF IInv, TypeOK
<1>2. Phase'
  BY <1>0 DEF IInv, Inv, Phase, Writing, First
<1>3. Files' /\ LastLine'
  BY <1>0 DEF IInv, Inv, Files, F, LastLine
<1>4. Batch' /\ Filling'
  BY <1>0 DEF Batch, Writing, Filling
<1>5. Ring'
  <2>1. Published' = Published /\ \A i : Right(i)' <=> Right(i)
    BY <1>0 DEF Published, Right
  <2> QED  BY <1>0, <2>1 DEF IInv, Inv, Ring
<1> QED  BY <1>1, <1>2, <1>3, <1>4, <1>5 DEF IInv, Inv

LEMMA GetDnKeeps == ASSUME IInv, NEW n \in 1..MaxId, GetDn(n)  PROVE IInv'
<1>1. PICK r \in GetOneDn(n) : idx' = r.idx
  BY DEF GetDn
<1>2. /\ pc = "serve" /\ n \in Ids
      /\ UNCHANGED <<tf, buf, ibuf, done, last, pc, pos, lastId, ring, crashes>>
  BY DEF GetDn
<1>3. idx' \in [Ids -> Nat] /\ AllFound(idx)'
  BY <1>1, <1>2, IndexRead
<1> QED  BY <1>2, <1>3, IndexKeeps

\* In a file of whole lines each of them begins where a scan looks for it.
LEMMA WholeLinesAreUnbroken ==
  ASSUME IInv, WholeLines
  PROVE  /\ \A b : ~Broken(tf, b)
         /\ \A k, n : WholeAt(tf, k, n) => Begins(tf, k)
<1>0. tf \in Seq(Bytes) /\ Len(tf) \in Nat /\ HeadsBegin(tf) /\ TailsFollow(tf)
      /\ \A k \in 1..Len(tf) : tf[k].part \in {"head", "tail"} /\ tf[k].id \in Ids
  <2>1. tf \in Seq(Bytes) /\ HeadsBegin(tf) /\ TailsFollow(tf)
    BY DEF IInv, TypeOK, Inv, Files, File
  <2> QED  BY <2>1, BytesOf
<1>1. ASSUME NEW b, Broken(tf, b)  PROVE FALSE
  <2>1. b \in LineStarts /\ b \in 1..Len(tf)
    BY <1>0, <1>1, StartsBegin DEF Broken, Begins
  <2>2. LineAt(b) = Line(tf[b].id)
    BY <2>1 DEF WholeLines
  <2>3. WholeAt(tf, b, tf[b].id)
    BY <1>0, <2>1, <2>2, ReadLine
  <2>4. b + 1 \in 1..Len(tf) /\ tf[b + 1].part = "tail"
    BY <1>0, <2>3 DEF WholeAt
  <2> QED  BY <1>1, <2>4 DEF Broken
<1>2. ASSUME NEW k, NEW n, WholeAt(tf, k, n)  PROVE Begins(tf, k)
  <2> SUFFICES ASSUME ~Begins(tf, k)  PROVE FALSE
    OBVIOUS
  <2>1. k \in 1..Len(tf) - 1 /\ tf[k].part = "head"
    BY <1>2 DEF WholeAt
  <2>2. k - 1 \in 1..Len(tf) /\ tf[k - 1].part # "tail" /\ (k - 1) + 1 = k
    BY <1>0, <2>1 DEF Begins
  <2>3. tf[k - 1].part = "head"
    BY <1>0, <2>2
  <2>4. Begins(tf, k - 1)
    BY <1>0, <2>1, <2>2, <2>3 DEF HeadsBegin
  <2>5. Broken(tf, k - 1)
    BY <2>1, <2>2, <2>4 DEF Broken
  <2> QED  BY <1>1, <2>5
<1> QED  BY <1>1, <1>2

LEMMA RemoveIndexKeeps == IInv /\ RemoveIndex => IInv'
<1> SUFFICES ASSUME IInv, RemoveIndex  PROVE IInv'
  OBVIOUS
<1>0. /\ pc \in {"down", "serve"} /\ WholeLines /\ idx' = [n \in Ids |-> 0]
      /\ UNCHANGED <<tf, buf, ibuf, done, last, pc, pos, lastId, ring, crashes>>
  BY DEF RemoveIndex
<1>1. idx' \in [Ids -> Nat] /\ \A n \in Ids : idx'[n] = 0
  BY <1>0
<1>2. Len(tf) \in Nat /\ done \in Ids /\ done \in Nat
  <2>1. tf \in Seq(Bytes) /\ done \in Ids
    BY DEF IInv, TypeOK
  <2> QED  BY <2>1, LenProperties
<1>3. ASSUME NEW n \in 1..done  PROVE Found(tf, idx', n)
  <2>1. Found(tf, idx, n)
    BY DEF IInv, Inv, AllFound
  <2>2. PICK s : WholeAt(tf, s, n)
    BY <2>1 DEF Found
  <2>3. Begins(tf, s) /\ \A b : ~Broken(tf, b)
    BY <1>0, <2>2, WholeLinesAreUnbroken
  <2>4. s \in 1..Len(tf) /\ idx'[n] = 0
    BY <1>1, <1>2, <2>2 DEF WholeAt
  <2> QED  BY <2>2, <2>3, <2>4 DEF Found
<1>4. AllFound(idx)'
  <2>1. tf' = tf /\ done' = done /\ idx'[0] = 0
    BY <1>0, <1>1
  <2> QED  BY <1>3, <2>1 DEF AllFound
<1> QED  BY <1>0, <1>1, <1>4, IndexKeeps

----------------------------------------------------------------------------
(* The theorems *)

LEMMA Inductive == IInv /\ [Next]_vars => IInv'
<1> SUFFICES ASSUME IInv, [Next]_vars  PROVE IInv'
  OBVIOUS
<1>1. CASE Start
  BY <1>1, StartKeeps
<1>2. CASE CacheInit
  BY <1>2, CacheInitKeeps
<1>3. CASE Take
  BY <1>3, TakeKeeps
<1>4. CASE DumpLine
  BY <1>4, DumpLineKeeps
<1>5. CASE CloseIndex
  BY <1>5, CloseIndexKeeps
<1>6. CASE CloseFile
  BY <1>6, CloseFileKeeps
<1>7. CASE Unlink
  BY <1>7, UnlinkKeeps
<1>8. CASE Publish
  BY <1>8, PublishKeeps
<1>9. CASE Signal
  BY <1>9, SignalKeeps
<1>10. CASE Crash
  BY <1>10, CrashKeeps
<1>11. CASE RemoveIndex
  BY <1>11, RemoveIndexKeeps
<1>12. ASSUME NEW n \in 1..MaxId, GetDn(n)  PROVE IInv'
  BY <1>12, GetDnKeeps
<1>13. CASE UNCHANGED vars
  <2>1. /\ tf' = tf /\ buf' = buf /\ idx' = idx /\ ibuf' = ibuf /\ done' = done
        /\ last' = last /\ pc' = pc /\ pos' = pos /\ lastId' = lastId /\ cache' = cache
        /\ entry_min_pos' = entry_min_pos /\ max_filled' = max_filled /\ crashes' = crashes
    BY <1>13 DEF vars, files, ring
  <2>2. TypeOK'
    BY <2>1 DEF IInv, TypeOK
  <2>3. Phase'
    BY <2>1 DEF IInv, Inv, Phase, Writing, First
  <2>4. Files' /\ LastLine' /\ AllFound(idx)'
    BY <2>1 DEF IInv, Inv, Files, F, LastLine, AllFound
  <2>5. Batch'
    <3>1. F' = F /\ Flushed' = Flushed
      BY <2>1 DEF F, Flushed
    <3> QED  BY <2>1, <3>1 DEF IInv, Inv, Batch, Writing
  <2>6. \A i : Right(i)' <=> Right(i)
    BY <2>1 DEF Right
  <2>7. Filling'
    BY <2>1, <2>6 DEF IInv, Inv, Filling
  <2>8. Ring'
    <3>1. Published' = Published
      BY <2>1 DEF Published
    <3> QED  BY <2>1, <2>6, <3>1 DEF IInv, Inv, Ring
  <2> QED  BY <2>2, <2>3, <2>4, <2>5, <2>7, <2>8 DEF IInv, Inv
<1> QED  BY <1>1, <1>2, <1>3, <1>4, <1>5, <1>6, <1>7, <1>8, <1>9, <1>10, <1>11, <1>12, <1>13
         DEF Next

LEMMA Invariant == Spec => []IInv
BY FirstState, Inductive, PTL DEF Spec

\* The types of TypeOK: no entry of the ring is written outside of its slots,
\* and what is read as the last id is one that was written.
THEOREM TypeCorrect == Spec => []TypeOK
<1>1. IInv => TypeOK
  BY DEF IInv
<1> QED  BY <1>1, Invariant, PTL

LEMMA IdsAreServed == IInv => LastIdIsDone
BY DEF IInv, Inv, Phase, LastIdIsDone

\* The id the notifier read from a line torn by a crash (main,
\* notify_transaction_get_last_notify_id) is corrected before it serves requests.
THEOREM LastIdIsAlwaysDone == Spec => []LastIdIsDone
BY Invariant, IdsAreServed, PTL

LEMMA AnswerIsRight ==
  ASSUME IInv, pc = "serve", NEW n \in 1..lastId
  PROVE  Answers(n) = {Line(n)}
<1>0. /\ lastId = done /\ done \in Ids /\ max_filled \in 0..CacheSize
      /\ entry_min_pos \in Slots /\ \A i \in Slots : cache[i].id \in Ids
  BY IdsAreServed DEF IInv, TypeOK, LastIdIsDone
<1>1. n \in 1..done /\ n \in Ids /\ Disk
  BY <1>0, InvariantDisk
<1>2. Line(n) # None
  BY <1>1, LineBytes, NoneAssumption
<1> DEFINE hits == {i \in 0..max_filled - 1 : cache[i].id = n}
<1>3. CASE hits = {}
  <2>1. CacheHit(n) = None
    BY <1>3 DEF CacheHit
  <2>2. Answers(n) = {found.line : found \in GetOneDn(n)}
    BY <2>1 DEF Answers
  <2>3. \A r \in GetOneDn(n) : r.line = Line(n)
    BY <1>1, Reads
  <2>4. PICK r : r \in GetOneDn(n)
    BY <1>1, ReadsSomething
  <2> QED  BY <2>2, <2>3, <2>4
<1>4. CASE hits # {}
  <2> DEFINE i == Min(hits)
  <2>1. hits \subseteq Nat
    <3>1. 0..max_filled - 1 \subseteq Nat
      BY <1>0
    <3> QED  BY <3>1
  <2>2. i \in hits /\ \A j \in hits : i <= j
    <3> HIDE DEF hits
    <3> QED  BY <1>4, <2>1, MinOf
  <2>3. CacheHit(n) = cache[i].line
    BY <1>4 DEF CacheHit
  <2> HIDE DEF i
  <2>4. i \in 0..max_filled - 1 /\ cache[i].id = n
    BY <2>2
  <2>5. Right(i)
    <3> SUFFICES ASSUME ~Right(i)  PROVE FALSE
      OBVIOUS
    <3>1. Published = done
      BY DEF Published
    <3>2. entry_min_pos <= i /\ \E j \in 0..entry_min_pos - 1 : cache[j].id = n
      BY <1>1, <2>4, <3>1 DEF IInv, Inv, Ring
    <3>3. PICK j \in 0..entry_min_pos - 1 : cache[j].id = n
      BY <3>2
    <3>4. j \in 0..max_filled - 1 /\ j < i
      BY <1>0, <2>4, <3>2 DEF Slots
    <3> QED  BY <2>2, <2>4, <3>3, <3>4
  <2>6. CacheHit(n) = Line(n)
    BY <2>3, <2>4, <2>5 DEF Right
  <2> QED  BY <1>2, <2>6 DEF Answers
<1> QED  BY <1>3, <1>4

\* A listener that asks for a published transaction (GET_DN) is told that one,
\* whatever crashes have torn, from the ring of the cache or from the file.
THEOREM AnswersAreRight == Spec => []GetDnIsRight
<1>1. IInv => GetDnIsRight
  BY AnswerIsRight DEF GetDnIsRight
<1> QED  BY <1>1, Invariant, PTL
=============================================================================
