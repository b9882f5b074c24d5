-------------------------- MODULE FaultSpoolProofs --------------------------
(***************************************************************************)
(* Safety of FaultSpool for every number of faults, kills, batches and Hub *)
(* instances, and every cap.                                               *)
(*                                                                         *)
(* A fault moves between two files and a request, and may be in several of *)
(* them at once.  The properties are about what has been reported; the     *)
(* invariant says of every place where an unreported fault may be that the *)
(* older faults come first there, or come from somewhere that goes first,  *)
(* and that a fault is in two places only if an upload of it was not seen  *)
(* to succeed or could not be discarded.                                   *)
(***************************************************************************)
EXTENDS FaultSpool, FiniteSetTheorems, WellFoundedInduction, TLAPS

Done == reported \cup lost

Earlier(file, i) == {file[k] : k \in {m \in Readable(file) : m < i}}

\* Behind which faults a file may be read: those of base.
InOrder(file, base) ==
  \A i \in Readable(file) : \A g \in 1 .. (file[i] - 1) : g \in base \cup Earlier(file, i)

\* Only faults of known are more than once in the file.
Once(file, known) ==
  \A i, k \in Readable(file) : i # k /\ file[i] = file[k] => file[i] \in known

Uploading == pc \in {"await", "commit", "restore", "unlink"}

\* An upload cuts its batch where drainSpool does, within the bound of batches.
UploadInv ==
  /\ Uploading => cut = Cut(inflight)
  /\ pc = "drain" \/ Uploading => round < MaxBatches
  /\ pc = "down" => round = 0

AnswerInv ==
  /\ pc \in {"down", "drain", "serve"} => answer = NoAnswer
  /\ pc = "restore" => answer \in {NoAnswer, "refused"}
  /\ pc = "commit" => answer \in {"accepted", "rejected"}

\* Nothing is named that was not spooled.
KnownInv ==
  FaultsIn(spool) \cup FaultsIn(inflight) \cup FaultsIn(late) \cup reported \subseteq 1 .. spooled

\* What may be removed has been dealt with, or written back.
OwedInv ==
  /\ pc = "commit" \/ (pc = "await" /\ answer = "accepted") => FaultsIn(Request) \subseteq Done
  /\ pc = "unlink" => FaultsIn(inflight) \subseteq FaultsIn(spool) \cup Done

OrderInv ==
  /\ InOrder(inflight, Done) /\ InOrder(late, Done)
  /\ InOrder(spool, Done \cup FaultsIn(inflight))
  /\ pc = "unlink" => InOrder(spool, Done)

SeenInv == \A h \in Hubs : Members(seen[h]) \subseteq reported

\* A stored fault that was reported is of the batch just accepted, or retried.
RepeatInv ==
  /\ FaultsIn(late) \subseteq retried
  /\ FaultsIn(spool) \cap reported \subseteq retried
  /\ \A i \in Readable(inflight) :
       inflight[i] \in reported \ retried => i <= cut /\ answer = "accepted"

OnceInv ==
  /\ Once(spool, retried) /\ Once(inflight, retried)
  /\ pc # "unlink" => FaultsIn(spool) \cap FaultsIn(inflight) \subseteq retried

SpoolInv ==
  /\ SpoolTypeOK
  /\ UploadInv /\ AnswerInv /\ KnownInv /\ OwedInv
  /\ OrderInv /\ SeenInv /\ RepeatInv /\ OnceInv
  /\ NothingForgotten /\ OldestFirst /\ RepeatsNeedAFault

-----------------------------------------------------------------------------
(***************************************************************************)
(* Numbers                                                                 *)
(***************************************************************************)

LEMMA Bounds ==
  /\ MaxFaults \in Nat /\ MaxKills \in Nat /\ SpoolCap \in Nat /\ MaxBatches \in Nat /\ MaxBatches >= 1
  /\ BatchCap \in Nat /\ BatchCap >= 1 /\ SeenLimit \in Nat /\ SeenLimit >= 1
  /\ Faults \subseteq Nat /\ Torn \notin Faults /\ Junk \notin Faults /\ Junk # Torn
BY SpoolAssumption DEF Faults, Torn, Junk

\* Every set of numbers that is not empty has its minimum among its members.
LEMMA LeastOf ==
  ASSUME NEW S \in SUBSET Nat, S # {}
  PROVE  Min(S) \in S /\ \A n \in S : Min(S) <= n
<1>1. PICK m \in S : \A n \in S : ~(<<n, m>> \in OpToRel(<, Nat))
  BY NatLessThanWellFounded, WFMin
<1>2. \A n \in S : n < m => <<n, m>> \in OpToRel(<, Nat)
  BY DEF OpToRel
<1>3. \A n \in S : ~(n < m)
  BY <1>1, <1>2
<1>4. \A n \in S : m =< n
  BY <1>3
<1> QED BY <1>4 DEF Min

-----------------------------------------------------------------------------
(***************************************************************************)
(* Files                                                                   *)
(***************************************************************************)

LEMMA FileParts ==
  ASSUME NEW file \in Lines
  PROVE  /\ Readable(file) \subseteq 1 .. Len(file) /\ IsFiniteSet(Readable(file))
         /\ Len(file) \in Nat
         /\ FaultsIn(file) \subseteq Faults
         /\ \A i \in Readable(file) : i \in Nat /\ file[i] \in FaultsIn(file) /\ file[i] \in Nat
         /\ \A f \in FaultsIn(file) : \E i \in Readable(file) : f = file[i]
<1>1. Len(file) \in Nat /\ DOMAIN file = 1 .. Len(file)
  BY DEF Lines
<1>2. IsFiniteSet(1 .. Len(file))
  BY <1>1, FS_Interval
<1>3. Readable(file) \subseteq 1 .. Len(file)
  BY <1>1 DEF Readable
<1>4. \A i \in Readable(file) : file[i] \in Faults
  BY DEF Readable
<1>5. IsFiniteSet(Readable(file))
  BY <1>2, <1>3, FS_Subset
<1>6. \A i \in Readable(file) : file[i] \in FaultsIn(file)
  BY DEF FaultsIn
<1>7. \A f \in FaultsIn(file) : \E i \in Readable(file) : f = file[i]
  BY DEF FaultsIn
<1>8. FaultsIn(file) \subseteq Faults /\ Faults \subseteq Nat
  BY <1>4, <1>7, Bounds
<1>9. \A i \in Readable(file) : i \in Nat /\ file[i] \in Nat
  <2>1. \A i \in Readable(file) : i \in Nat
    BY <1>1, <1>3
  <2> QED BY <2>1, <1>4, <1>8
<1> QED BY <1>1, <1>3, <1>5, <1>6, <1>7, <1>8, <1>9

LEMMA EmptyFile == <<>> \in Lines /\ Readable(<<>>) = {} /\ FaultsIn(<<>>) = {} /\ ~EndsTorn(<<>>)
BY DEF Lines, Readable, FaultsIn, EndsTorn

LEMMA OneLine ==
  ASSUME NEW x \in Faults \cup {Torn, Junk}
  PROVE  /\ <<x>> \in Lines /\ Len(<<x>>) = 1
         /\ Readable(<<x>>) = IF x \in Faults THEN {1} ELSE {}
         /\ FaultsIn(<<x>>) = {x} \cap Faults
<1>1. <<x>> \in Lines /\ Len(<<x>>) = 1 /\ DOMAIN <<x>> = {1} /\ <<x>>[1] = x
  BY DEF Lines
<1>2. Readable(<<x>>) = IF x \in Faults THEN {1} ELSE {}
  BY <1>1 DEF Readable
<1> QED BY <1>1, <1>2 DEF FaultsIn

\* One file in front of another, by a name the provers leave alone.
Join(a, b) == a \o b

\* A file behind another one: its first line may be swallowed.
LEMMA Concat ==
  ASSUME NEW a \in Lines, NEW b \in Lines
  PROVE  /\ Join(a, b) \in Lines /\ Len(Join(a, b)) = Len(a) + Len(b)
         /\ \A i \in Readable(a) : i \in Readable(Join(a, b)) /\ Join(a, b)[i] = a[i]
         /\ \A k \in Readable(b) :
              ~(k = 1 /\ EndsTorn(a)) =>
                k + Len(a) \in Readable(Join(a, b)) /\ Join(a, b)[k + Len(a)] = b[k]
         /\ \A i \in Readable(Join(a, b)) :
              \/ i \in Readable(a) /\ Join(a, b)[i] = a[i]
              \/ \E k \in Readable(b) : /\ i = k + Len(a) /\ Join(a, b)[i] = b[k]
                                        /\ ~(k = 1 /\ EndsTorn(a))
<1> DEFINE c == Join(a, b)
<1>1. /\ Len(a) \in Nat /\ Len(b) \in Nat /\ c \in Lines /\ Len(c) = Len(a) + Len(b)
      /\ \A i \in 1 .. Len(a) : c[i] = a[i]
      /\ \A k \in 1 .. Len(b) : c[k + Len(a)] = b[k]
      /\ DOMAIN a = 1 .. Len(a) /\ DOMAIN b = 1 .. Len(b) /\ DOMAIN c = 1 .. Len(c)
  BY DEF Lines, Join
<1> HIDE DEF c
<1>2. \A i \in 1 .. Len(a) : i \in Readable(c) <=> i \in Readable(a)
  BY <1>1 DEF Readable
<1>3. \A k \in 1 .. Len(b) :
        k + Len(a) \in Readable(c) <=> k \in Readable(b) /\ ~(k = 1 /\ EndsTorn(a))
  <2> SUFFICES ASSUME NEW k \in 1 .. Len(b)
               PROVE  k + Len(a) \in Readable(c) <=> k \in Readable(b) /\ ~(k = 1 /\ EndsTorn(a))
    OBVIOUS
  <2>1. k + Len(a) \in DOMAIN c /\ c[k + Len(a)] = b[k]
    BY <1>1
  <2>2. CASE k = 1
    <3>1. k + Len(a) \in Readable(c) <=> b[k] \in Faults /\ (Len(a) = 0 \/ c[Len(a)] # Torn)
      BY <1>1, <2>1, <2>2 DEF Readable
    <3>2. Len(a) # 0 => c[Len(a)] = a[Len(a)] /\ a # <<>>
      BY <1>1
    <3>3. Len(a) = 0 => a = <<>>
      BY <1>1 DEF Lines
    <3> QED BY <3>1, <3>2, <3>3, <2>2, <1>1 DEF Readable, EndsTorn
  <2>3. CASE k # 1
    <3>1. k - 1 \in 1 .. Len(b) /\ (k - 1) + Len(a) = (k + Len(a)) - 1
      BY <1>1, <2>3
    <3>2. c[(k + Len(a)) - 1] = b[k - 1] /\ k + Len(a) # 1
      BY <1>1, <2>3, <3>1
    <3> QED BY <1>1, <2>1, <2>3, <3>2 DEF Readable
  <2> QED BY <2>2, <2>3
<1>4. \A i \in Readable(c) : i \in 1 .. Len(a) \/ \E k \in 1 .. Len(b) : i = k + Len(a)
  <2> SUFFICES ASSUME NEW i \in Readable(c), i \notin 1 .. Len(a)
               PROVE  \E k \in 1 .. Len(b) : i = k + Len(a)
    OBVIOUS
  <2>1. i \in 1 .. (Len(a) + Len(b))
    BY <1>1 DEF Readable
  <2>2. i - Len(a) \in 1 .. Len(b) /\ i = (i - Len(a)) + Len(a)
    BY <1>1, <2>1
  <2> QED BY <2>2
<1>5. Readable(a) \subseteq 1 .. Len(a) /\ Readable(b) \subseteq 1 .. Len(b)
  BY FileParts
<1> QED BY <1>1, <1>2, <1>3, <1>4, <1>5 DEF c

LEMMA ConcatFaults ==
  ASSUME NEW a \in Lines, NEW b \in Lines
  PROVE  /\ FaultsIn(a) \subseteq FaultsIn(Join(a, b))
         /\ FaultsIn(Join(a, b)) \subseteq FaultsIn(a) \cup FaultsIn(b)
         /\ FaultsIn(b) \subseteq FaultsIn(Join(a, b)) \cup Swallowed(a, b)
<1> DEFINE c == Join(a, b)
<1>1. ASSUME NEW i \in Readable(a) PROVE a[i] \in FaultsIn(c)
  <2>1. i \in Readable(c) /\ c[i] = a[i]
    BY Concat
  <2> QED BY <2>1 DEF FaultsIn
<1>2. ASSUME NEW i \in Readable(c) PROVE c[i] \in FaultsIn(a) \cup FaultsIn(b)
  <2>1. \/ i \in Readable(a) /\ c[i] = a[i]
        \/ \E k \in Readable(b) : c[i] = b[k]
    BY Concat
  <2> QED BY <2>1 DEF FaultsIn
<1>3. ASSUME NEW k \in Readable(b) PROVE b[k] \in FaultsIn(c) \cup Swallowed(a, b)
  <2>1. CASE k = 1 /\ EndsTorn(a)
    <3>1. b # <<>> /\ b[1] \in Faults
      BY <2>1, FileParts, EmptyFile DEF Readable
    <3> QED BY <2>1, <3>1 DEF Swallowed
  <2>2. CASE ~(k = 1 /\ EndsTorn(a))
    <3>1. k + Len(a) \in Readable(c) /\ c[k + Len(a)] = b[k]
      BY <2>2, Concat
    <3> QED BY <3>1 DEF FaultsIn
  <2> QED BY <2>1, <2>2
<1> QED BY <1>1, <1>2, <1>3 DEF FaultsIn

LEMMA OrderMono ==
  ASSUME NEW file, NEW base, NEW more, base \subseteq more, InOrder(file, base)
  PROVE  InOrder(file, more)
BY DEF InOrder

LEMMA OnceMono ==
  ASSUME NEW file, NEW known, NEW more, known \subseteq more, Once(file, known)
  PROVE  Once(file, more)
BY DEF Once

\* A file in order behind another one in order.
LEMMA ConcatOrder ==
  ASSUME NEW a \in Lines, NEW b \in Lines, NEW base,
         InOrder(a, base), InOrder(b, base \cup FaultsIn(a))
  PROVE  InOrder(Join(a, b), base \cup Swallowed(a, b))
<1> DEFINE c == Join(a, b)
<1> SUFFICES ASSUME NEW i \in Readable(c), NEW g \in 1 .. (c[i] - 1)
             PROVE  g \in base \cup Swallowed(a, b) \cup Earlier(c, i)
  BY DEF InOrder
<1>1. /\ Len(a) \in Nat /\ Readable(a) \subseteq 1 .. Len(a) /\ Readable(b) \subseteq 1 .. Len(b)
      /\ Readable(b) \subseteq Nat /\ Len(b) \in Nat
  BY FileParts
<1>2. CASE i \in Readable(a) /\ c[i] = a[i]
  <2>1. g \in base \cup Earlier(a, i)
    BY <1>2 DEF InOrder
  <2>2. Earlier(a, i) \subseteq Earlier(c, i)
    <3> SUFFICES ASSUME NEW m \in Readable(a), m < i PROVE a[m] \in Earlier(c, i)
      BY DEF Earlier
    <3>1. m \in Readable(c) /\ c[m] = a[m]
      BY Concat
    <3> QED BY <3>1 DEF Earlier
  <2> QED BY <2>1, <2>2
<1>3. CASE \E k \in Readable(b) : /\ i = k + Len(a) /\ c[i] = b[k]
                                  /\ ~(k = 1 /\ EndsTorn(a))
  <2>1. PICK k \in Readable(b) : i = k + Len(a) /\ c[i] = b[k]
    BY <1>3
  <2>2. g \in base \cup FaultsIn(a) \cup Earlier(b, k)
    BY <2>1 DEF InOrder
  <2>3. ASSUME g \in FaultsIn(a) PROVE g \in Earlier(c, i)
    <3>1. PICK m \in Readable(a) : g = a[m]
      BY <2>3, FileParts
    <3>2. m \in Readable(c) /\ c[m] = g
      BY <3>1, Concat
    <3>3. m < i
      BY <3>1, <2>1, <1>1
    <3> QED BY <3>2, <3>3 DEF Earlier
  <2>4. ASSUME g \in Earlier(b, k) PROVE g \in Swallowed(a, b) \cup Earlier(c, i)
    <3>1. PICK m \in Readable(b) : m < k /\ g = b[m]
      BY <2>4 DEF Earlier
    <3>2. CASE m = 1 /\ EndsTorn(a)
      <4>1. b # <<>> /\ b[1] \in Faults
        BY <3>2, FileParts, EmptyFile DEF Readable
      <4> QED BY <3>1, <3>2, <4>1 DEF Swallowed
    <3>3. CASE ~(m = 1 /\ EndsTorn(a))
      <4>1. m + Len(a) \in Readable(c) /\ c[m + Len(a)] = g
        <5>1. \A n \in Readable(b) :
                ~(n = 1 /\ EndsTorn(a)) =>
                  n + Len(a) \in Readable(c) /\ c[n + Len(a)] = b[n]
          BY Concat
        <5> QED BY <3>1, <3>3, <5>1
      <4>2. m + Len(a) < i
        BY <3>1, <2>1, <1>1
      <4> QED BY <4>1, <4>2 DEF Earlier
    <3> QED BY <3>2, <3>3
  <2> QED BY <2>2, <2>3, <2>4
<1> QED BY <1>2, <1>3, Concat

LEMMA ConcatOnce ==
  ASSUME NEW a \in Lines, NEW b \in Lines, NEW known,
         Once(a, known), Once(b, known), FaultsIn(a) \cap FaultsIn(b) \subseteq known
  PROVE  Once(Join(a, b), known)
<1> DEFINE c == Join(a, b)
<1> SUFFICES ASSUME NEW i \in Readable(c), NEW k \in Readable(c), i # k, c[i] = c[k]
             PROVE  c[i] \in known
  BY DEF Once
<1> DEFINE InA(n) == n \in Readable(a) /\ c[n] = a[n]
           InB(n) == \E m \in Readable(b) : n = m + Len(a) /\ c[n] = b[m]
<1>1. (InA(i) \/ InB(i)) /\ (InA(k) \/ InB(k))
  BY Concat
<1>2. ASSUME InA(i), InA(k) PROVE c[i] \in known
  BY <1>2 DEF Once
<1>3. ASSUME InB(i), InB(k) PROVE c[i] \in known
  BY <1>3 DEF Once
<1>4. ASSUME InA(i), InB(k) PROVE c[i] \in known
  <2>1. c[i] \in FaultsIn(a) /\ c[k] \in FaultsIn(b)
    BY <1>4, FileParts
  <2> QED BY <2>1
<1>5. ASSUME InB(i), InA(k) PROVE c[i] \in known
  <2>1. c[i] \in FaultsIn(b) /\ c[k] \in FaultsIn(a)
    BY <1>5, FileParts
  <2> QED BY <2>1
<1> QED BY <1>1, <1>2, <1>3, <1>4, <1>5

\* The first lines of a file.
LEMMA Prefix ==
  ASSUME NEW file \in Lines, NEW c \in 0 .. Len(file)
  PROVE  /\ Upto(file, c) \in Lines /\ Len(Upto(file, c)) = c
         /\ Readable(Upto(file, c)) = {i \in Readable(file) : i <= c}
         /\ \A i \in Readable(Upto(file, c)) : Upto(file, c)[i] = file[i]
<1>1. PICK a : a = Upto(file, c)
  OBVIOUS
<1>2. /\ a \in Lines /\ Len(a) = c /\ DOMAIN a = 1 .. c /\ DOMAIN file = 1 .. Len(file)
      /\ \A i \in 1 .. c : a[i] = file[i]
      /\ c \in Nat /\ Len(file) \in Nat
  BY <1>1 DEF Lines, Upto
<1>3. Readable(a) \subseteq {i \in Readable(file) : i <= c}
  BY <1>2 DEF Readable
<1>4. {i \in Readable(file) : i <= c} \subseteq Readable(a)
  BY <1>2 DEF Readable
<1>5. \A i \in Readable(a) : a[i] = file[i]
  BY <1>2 DEF Readable
<1> QED BY <1>1, <1>2, <1>3, <1>4, <1>5

\* A place to cut a file at: its end, or one of its records.
IsCut(file, c) == c \in 0 .. Len(file) /\ (c = Len(file) \/ c \in Readable(file))

\* The lines that are left over behind the cut, each with its newline.
LEMMA Suffix ==
  ASSUME NEW file \in Lines, NEW c, IsCut(file, c)
  PROVE  /\ Behind(file, c) \in Lines /\ ~EndsTorn(Behind(file, c))
         /\ \A k \in Readable(Behind(file, c)) : k + c \in Readable(file) /\ Behind(file, c)[k] = file[k + c]
         /\ \A i \in Readable(file) : i > c => i - c \in Readable(Behind(file, c)) /\ Behind(file, c)[i - c] = file[i]
<1>0. PICK b : b = Behind(file, c)
  OBVIOUS
<1>a. PICK n \in Nat : n = Len(file)
  BY DEF Lines
<1>1. PICK r : r = SubSeq(file, c + 1, n)
  OBVIOUS
<1>2. c \in Nat /\ n \in Nat /\ c <= n /\ DOMAIN file = 1 .. n
  BY <1>a DEF Lines, IsCut
<1>3. /\ r \in Lines /\ Len(r) = n - c /\ DOMAIN r = 1 .. (n - c)
      /\ \A k \in 1 .. (n - c) : r[k] = file[k + c]
  <2>1. file \in Seq(Faults \cup {Torn, Junk}) /\ c + 1 \in 1 .. (n + 1)
    BY <1>2, <1>a DEF Lines
  <2>2. r \in Seq(Faults \cup {Torn, Junk})
    BY <2>1, <1>1, <1>a
  <2>3. Len(r) = n - c
    <3>1. CASE c = n
      BY <3>1, <2>1, <1>1, <1>2, <1>a
    <3>2. CASE c < n
      <4>1. c + 1 \in 1 .. n /\ n \in (c + 1) .. n
        BY <3>2, <1>2
      <4>2. Len(r) = n - (c + 1) + 1
        BY <4>1, <2>1, <1>1, <1>2, <1>a
      <4> QED BY <4>2, <1>2
    <3>3. c = n \/ c < n
      BY <1>2
    <3> QED BY <3>1, <3>2, <3>3
  <2>4. \A k \in 1 .. (n - c) : r[k] = file[k + c]
    <3> SUFFICES ASSUME NEW k \in 1 .. (n - c) PROVE r[k] = file[k + c]
      OBVIOUS
    <3>1. c + 1 \in 1 .. n /\ k \in 1 .. (n - (c + 1) + 1)
      BY <1>2
    <3>2. r[k] = file[(c + 1) + k - 1]
      BY <3>1, <2>1, <1>1, <1>2, <1>a
    <3>3. (c + 1) + k - 1 = k + c
      BY <1>2
    <3> QED BY <3>2, <3>3
  <2> QED BY <2>2, <2>3, <2>4 DEF Lines
<1>4. /\ DOMAIN b = 1 .. (n - c)
      /\ \A k \in 1 .. (n - c) :
           b[k] = IF k = Len(r) /\ r[k] = Torn THEN Junk ELSE r[k]
  BY <1>0, <1>a, <1>1, <1>3 DEF Terminated, Behind
<1>5. b \in Lines /\ Len(b) = n - c
  <2>1. \A k \in DOMAIN b : b[k] \in Faults \cup {Torn, Junk}
    BY <1>3, <1>4 DEF Lines
  <2>2. b = [k \in 1 .. (n - c) |-> b[k]]
    BY <1>0, <1>a, <1>1, <1>3, <1>4 DEF Terminated, Behind
  <2> QED BY <1>2, <1>4, <2>1, <2>2 DEF Lines
<1>6. ~EndsTorn(b)
  <2> SUFFICES ASSUME b # <<>> PROVE b[Len(b)] # Torn
    BY DEF EndsTorn
  <2>1. Len(b) \in 1 .. (n - c)
    BY <1>2, <1>5 DEF Lines
  <2> QED BY <1>3, <1>4, <1>5, <2>1, Bounds
<1>7. \A k \in 1 .. (n - c) : b[k] \in Faults <=> file[k + c] \in Faults
  BY <1>3, <1>4, Bounds
<1>8. \A k \in 1 .. (n - c) : b[k] \in Faults => b[k] = file[k + c]
  BY <1>3, <1>4, Bounds
<1>9. \A k \in 1 .. (n - c) : k > 1 => b[k - 1] = file[k - 1 + c]
  <2> SUFFICES ASSUME NEW k \in 1 .. (n - c), k > 1 PROVE b[k - 1] = file[k - 1 + c]
    OBVIOUS
  <2>1. k - 1 \in 1 .. (n - c) /\ k - 1 # Len(r)
    BY <1>2, <1>3
  <2> QED BY <1>3, <1>4, <2>1
<1>10. c = 0 \/ c = n \/ file[c] # Torn
  BY <1>a, Bounds DEF Readable, IsCut
<1>11. \A k \in 1 .. (n - c) : k \in Readable(b) <=> k + c \in Readable(file)
  <2> SUFFICES ASSUME NEW k \in 1 .. (n - c)
               PROVE  k \in Readable(b) <=> k + c \in Readable(file)
    OBVIOUS
  <2>1. k \in DOMAIN b /\ k + c \in DOMAIN file /\ (b[k] \in Faults <=> file[k + c] \in Faults)
    BY <1>2, <1>4, <1>7
  <2>2. CASE k = 1
    <3>1. c < n /\ (k + c) - 1 = c /\ (k + c = 1 <=> c = 0)
      BY <2>2, <1>2
    <3>4. ~(c = n)
      BY <3>1, <1>2
    <3>2. k \in Readable(b) <=> b[k] \in Faults
      BY <2>1, <2>2 DEF Readable
    <3>3. k + c \in Readable(file) <=> file[k + c] \in Faults
      BY <2>1, <3>1, <3>4, <1>10 DEF Readable
    <3> QED BY <2>1, <3>2, <3>3
  <2>3. CASE k # 1
    <3>1. b[k - 1] = file[(k + c) - 1] /\ k + c # 1
      BY <1>2, <1>9, <2>3
    <3> QED BY <2>1, <2>3, <3>1 DEF Readable
  <2> QED BY <2>2, <2>3
<1>12. Readable(b) \subseteq 1 .. (n - c) /\ Readable(file) \subseteq 1 .. n
  BY <1>2, <1>4 DEF Readable
<1>13. \A i \in Readable(file) : i > c => i - c \in 1 .. (n - c) /\ (i - c) + c = i
  BY <1>2, <1>12
<1>14. \A k \in Readable(b) : b[k] \in Faults /\ k \in 1 .. (n - c)
  BY <1>12 DEF Readable
<1>15. \A i \in Readable(file) : file[i] \in Faults
  BY DEF Readable
<1>16. \A k \in Readable(b) : k + c \in Readable(file) /\ b[k] = file[k + c]
  BY <1>8, <1>11, <1>14
<1>17. \A i \in Readable(file) : i > c => i - c \in Readable(b) /\ b[i - c] = file[i]
  <2> SUFFICES ASSUME NEW i \in Readable(file), i > c
               PROVE  i - c \in Readable(b) /\ b[i - c] = file[i]
    OBVIOUS
  <2>1. i - c \in 1 .. (n - c) /\ (i - c) + c = i
    BY <1>13
  <2>2. i - c \in Readable(b)
    BY <1>11, <2>1
  <2> QED BY <1>16, <2>1, <2>2
<1> QED BY <1>0, <1>5, <1>6, <1>16, <1>17

LEMMA SplitFaults ==
  ASSUME NEW file \in Lines, NEW c, IsCut(file, c)
  PROVE  FaultsIn(file) = FaultsIn(Upto(file, c)) \cup FaultsIn(Behind(file, c))
<1>1. c \in 0 .. Len(file)
  BY DEF IsCut
<1>2. c \in Nat /\ Readable(file) \subseteq Nat
  BY <1>1, FileParts DEF Lines
<1>3. ASSUME NEW i \in Readable(file)
      PROVE  file[i] \in FaultsIn(Upto(file, c)) \cup FaultsIn(Behind(file, c))
  <2>1. CASE i <= c
    <3>1. i \in Readable(Upto(file, c)) /\ Upto(file, c)[i] = file[i]
      BY <2>1, <1>1, Prefix
    <3> QED BY <3>1 DEF FaultsIn
  <2>2. CASE i > c
    <3>1. i - c \in Readable(Behind(file, c)) /\ Behind(file, c)[i - c] = file[i]
      BY <2>2, Suffix
    <3> QED BY <3>1 DEF FaultsIn
  <2> QED BY <1>2, <2>1, <2>2
<1>4. ASSUME NEW i \in Readable(Upto(file, c)) PROVE Upto(file, c)[i] \in FaultsIn(file)
  <2>1. i \in Readable(file) /\ Upto(file, c)[i] = file[i]
    BY <1>1, Prefix
  <2> QED BY <2>1 DEF FaultsIn
<1>5. ASSUME NEW k \in Readable(Behind(file, c)) PROVE Behind(file, c)[k] \in FaultsIn(file)
  <2>1. k + c \in Readable(file) /\ Behind(file, c)[k] = file[k + c]
    BY Suffix
  <2> QED BY <2>1 DEF FaultsIn
<1> QED BY <1>3, <1>4, <1>5 DEF FaultsIn

LEMMA SplitOrder ==
  ASSUME NEW file \in Lines, NEW c, IsCut(file, c), NEW base, InOrder(file, base)
  PROVE  /\ InOrder(Upto(file, c), base)
         /\ InOrder(Behind(file, c), base \cup FaultsIn(Upto(file, c)))
<1>1. c \in 0 .. Len(file) /\ c \in Nat
  BY FileParts DEF IsCut
<1> DEFINE a == Upto(file, c)
           b == Behind(file, c)
<1>2. /\ Readable(a) = {i \in Readable(file) : i <= c}
      /\ \A i \in Readable(a) : a[i] = file[i]
  BY <1>1, Prefix
<1>3. /\ b \in Lines
      /\ \A k \in Readable(b) : k + c \in Readable(file) /\ b[k] = file[k + c]
      /\ \A i \in Readable(file) : i > c => i - c \in Readable(b) /\ b[i - c] = file[i]
  BY Suffix
<1>4. Readable(file) \subseteq Nat /\ Readable(b) \subseteq Nat
  BY <1>3, FileParts
<1> HIDE DEF a, b
<1>5. InOrder(a, base)
  <2> SUFFICES ASSUME NEW i \in Readable(a), NEW g \in 1 .. (a[i] - 1)
               PROVE  g \in base \cup Earlier(a, i)
    BY DEF InOrder
  <2>1. g \in base \cup Earlier(file, i)
    BY <1>2 DEF InOrder
  <2>2. Earlier(file, i) \subseteq Earlier(a, i)
    <3> SUFFICES ASSUME NEW m \in Readable(file), m < i PROVE file[m] \in Earlier(a, i)
      BY DEF Earlier
    <3>1. m \in Readable(a) /\ a[m] = file[m]
      BY <1>1, <1>2, <1>4
    <3> QED BY <3>1 DEF Earlier
  <2> QED BY <2>1, <2>2
<1>6. InOrder(b, base \cup FaultsIn(a))
  <2> SUFFICES ASSUME NEW k \in Readable(b), NEW g \in 1 .. (b[k] - 1),
                      g \notin base, g \notin FaultsIn(a)
               PROVE  g \in Earlier(b, k)
    BY DEF InOrder
  <2>1. k + c \in Readable(file) /\ b[k] = file[k + c]
    BY <1>3
  <2>2. g \in Earlier(file, k + c)
    BY <2>1 DEF InOrder
  <2>3. PICK m \in Readable(file) : m < k + c /\ g = file[m]
    BY <2>2 DEF Earlier
  <2>4. m > c
    <3> SUFFICES ASSUME m <= c PROVE FALSE
      BY <1>1, <1>4
    <3>1. m \in Readable(a) /\ a[m] = g
      BY <1>2, <2>3
    <3> QED BY <3>1 DEF FaultsIn
  <2>5. m - c \in Readable(b) /\ b[m - c] = g
    BY <1>3, <2>3, <2>4
  <2>6. m - c < k
    BY <1>1, <1>4, <2>3
  <2> QED BY <2>5, <2>6 DEF Earlier
<1> QED BY <1>5, <1>6 DEF a, b

LEMMA SplitOnce ==
  ASSUME NEW file \in Lines, NEW c, IsCut(file, c), NEW known, Once(file, known)
  PROVE  Once(Behind(file, c), known)
<1>1. c \in Nat
  BY FileParts DEF IsCut
<1> DEFINE b == Behind(file, c)
<1>2. \A k \in Readable(b) : k + c \in Readable(file) /\ b[k] = file[k + c]
  BY Suffix
<1>3. b \in Lines
  BY Suffix
<1>4. Readable(b) \subseteq Nat
  BY <1>3, FileParts
<1> HIDE DEF b
<1>5. Once(b, known)
  <2> SUFFICES ASSUME NEW i \in Readable(b), NEW k \in Readable(b), i # k, b[i] = b[k]
               PROVE  b[i] \in known
    BY DEF Once
  <2>1. i + c # k + c
    BY <1>1, <1>4
  <2> QED BY <1>2, <2>1 DEF Once
<1> QED BY <1>5 DEF b

\* A batch ends with the last line, or with the record that fills it, and a file
\* with records gives a batch with records.
LEMMA CutIs ==
  ASSUME NEW file \in Lines
  PROVE  /\ IsCut(file, Cut(file))
         /\ Readable(file) # {} =>
              Cardinality({i \in Readable(file) : i <= Cut(file)}) \in 1 .. BatchCap
<1> DEFINE Batch(c) == {i \in Readable(file) : i <= c}
<1>1. /\ Len(file) \in Nat /\ DOMAIN file = 1 .. Len(file) /\ IsFiniteSet(Readable(file))
      /\ Readable(file) \subseteq 1 .. Len(file)
  BY FileParts DEF Lines
<1>2. \A c : IsFiniteSet(Batch(c)) /\ Cardinality(Batch(c)) \in Nat
  <2> SUFFICES ASSUME NEW c PROVE IsFiniteSet(Batch(c)) /\ Cardinality(Batch(c)) \in Nat
    OBVIOUS
  <2>1. Batch(c) \subseteq Readable(file)
    OBVIOUS
  <2>2. IsFiniteSet(Batch(c))
    BY <1>1, <2>1, FS_Subset
  <2> QED BY <2>2, FS_CardinalityType
<1>3. CASE Full(file) = {}
  <2>1. Cut(file) = Len(file) /\ Batch(Len(file)) = Readable(file)
    BY <1>1, <1>3 DEF Cut
  <2>2. IsCut(file, Cut(file))
    BY <1>1, <2>1 DEF IsCut
  <2>3. ASSUME Readable(file) # {} PROVE Cardinality(Readable(file)) \in 1 .. BatchCap
    <3>1. Cardinality(Readable(file)) # 0
      BY <1>1, <2>3, FS_EmptySet
    <3>2. PICK i : i \in Readable(file)
      BY <2>3
    <3>3. Len(file) \in DOMAIN file
      BY <1>1, <3>2
    <3>4. ~(Cardinality(Batch(Len(file))) >= BatchCap)
      BY <1>3, <3>3 DEF Full
    <3>5. Cardinality(Readable(file)) \in Nat
      BY <1>1, FS_CardinalityType
    <3>6. BatchCap \in Nat /\ ~(Cardinality(Readable(file)) >= BatchCap)
      BY <2>1, <3>4, Bounds
    <3> QED BY <3>1, <3>5, <3>6
  <2> QED BY <2>1, <2>2, <2>3
<1>4. CASE Full(file) # {}
  <2> DEFINE c == Cut(file)
  <2>1. c \in Full(file) /\ \A d \in Full(file) : c <= d
    <3>1. Full(file) \in SUBSET Nat
      BY <1>1 DEF Full
    <3> QED BY <1>4, <3>1, LeastOf DEF Cut
  <2> HIDE DEF c
  <2>2. c \in 1 .. Len(file) /\ Cardinality(Batch(c)) >= BatchCap
    BY <1>1, <2>1 DEF Full
  <2>3. Cardinality(Batch(c - 1)) < BatchCap
    <3>1. CASE c = 1
      <4>1. Batch(c - 1) = {}
        BY <1>1, <3>1
      <4>2. Cardinality(Batch(c - 1)) = 0
        BY <4>1, FS_EmptySet
      <4> QED BY <4>2, Bounds
    <3>2. CASE c # 1
      <4>1. c - 1 \in DOMAIN file /\ ~(c <= c - 1)
        BY <1>1, <2>2, <3>2
      <4>2. ~(Cardinality(Batch(c - 1)) >= BatchCap)
        BY <2>1, <4>1 DEF Full
      <4> QED BY <1>2, <4>2, Bounds
    <3> QED BY <3>1, <3>2
  <2>n. /\ Cardinality(Batch(c)) \in Nat /\ Cardinality(Batch(c - 1)) \in Nat
        /\ BatchCap \in Nat /\ BatchCap >= 1
    BY <1>2, Bounds
  <2>4. c \in Readable(file)
    <3> SUFFICES ASSUME c \notin Readable(file) PROVE FALSE
      OBVIOUS
    <3>1. Batch(c) = Batch(c - 1)
      BY <1>1, <2>2
    <3> HIDE DEF Batch
    <3>2. Cardinality(Batch(c)) = Cardinality(Batch(c - 1))
      BY <3>1
    <3> QED BY <2>2, <2>3, <2>n, <3>2
  <2>5. Batch(c) = Batch(c - 1) \cup {c} /\ c \notin Batch(c - 1)
    BY <1>1, <2>2, <2>4
  <2>6. Cardinality(Batch(c)) = Cardinality(Batch(c - 1)) + 1
    BY <1>2, <2>5, FS_AddElement
  <2>7. Cardinality(Batch(c)) \in 1 .. BatchCap
    BY <2>2, <2>3, <2>6, <2>n
  <2>8. IsCut(file, c)
    <3>1. c \in 0 .. Len(file)
      BY <1>1, <2>2
    <3> QED BY <2>4, <3>1 DEF IsCut
  <2> QED BY <2>7, <2>8 DEF c
<1> QED BY <1>3, <1>4

-----------------------------------------------------------------------------
(***************************************************************************)
(* The dedupe set of one instance                                          *)
(***************************************************************************)

\* The set after the first i lines, as the loop over the batch computes it.
IsRun(known, n, set, b) ==
  known = [i \in 0 .. n |->
             IF i = 0 THEN set
             ELSE IF i \in Readable(b) THEN Claimed(known[i - 1], b[i])
             ELSE known[i - 1]]

\* Such a run exists for every batch: one of n + 1 lines extends one of n.
LEMMA RunExists ==
  ASSUME NEW set, NEW b
  PROVE  \A n \in Nat : \E known : IsRun(known, n, set, b)
<1> DEFINE Missing == {n \in Nat : ~\E known : IsRun(known, n, set, b)}
<1>1. SUFFICES ASSUME Missing # {} PROVE FALSE
  OBVIOUS
<1>2. PICK n \in Missing : \A k \in Missing : n <= k
  <2>1. Missing \in SUBSET Nat
    OBVIOUS
  <2> QED BY <1>1, <2>1, LeastOf
<1>3. n # 0
  <2> SUFFICES ASSUME n = 0 PROVE FALSE
    OBVIOUS
  <2> DEFINE known == [i \in 0 .. 0 |-> set]
  <2>1. IsRun(known, 0, set, b)
    <3>1. 0 .. 0 = {0}
      OBVIOUS
    <3> QED BY <3>1 DEF IsRun
  <2> QED BY <2>1
<1>4. n \in Nat /\ n - 1 \in Nat /\ ~(n <= n - 1)
  BY <1>3
<1>5. PICK old : IsRun(old, n - 1, set, b)
  BY <1>2, <1>4
<1>6. PICK new : new = [i \in 0 .. n |->
                          IF i < n THEN old[i]
                          ELSE IF i \in Readable(b) THEN Claimed(old[i - 1], b[i])
                          ELSE old[i - 1]]
  OBVIOUS
<1>7. ASSUME NEW i \in 0 .. n
      PROVE  new[i] = IF i = 0 THEN set
                      ELSE IF i \in Readable(b) THEN Claimed(new[i - 1], b[i])
                      ELSE new[i - 1]
  <2>1. CASE i = 0
    <3>1. 0 \in 0 .. (n - 1) /\ i < n
      BY <1>3, <1>4, <2>1
    <3>2. old[0] = set
      BY <1>5, <3>1 DEF IsRun
    <3> QED BY <1>6, <2>1, <3>1, <3>2
  <2>2. CASE i # 0 /\ i < n
    <3>1. i \in 0 .. (n - 1) /\ i - 1 \in 0 .. n /\ i - 1 < n
      BY <1>4, <2>2
    <3>2. new[i] = old[i] /\ new[i - 1] = old[i - 1]
      BY <1>6, <2>2, <3>1
    <3>3. old[i] = IF i \in Readable(b) THEN Claimed(old[i - 1], b[i]) ELSE old[i - 1]
      BY <1>5, <2>2, <3>1 DEF IsRun
    <3> QED BY <2>2, <3>2, <3>3
  <2>3. CASE i = n
    <3>1. i - 1 \in 0 .. n /\ i - 1 < n /\ ~(i < n)
      BY <1>4, <2>3
    <3>2. new[i - 1] = old[i - 1]
      BY <1>6, <3>1
    <3>3. new[i] = IF i \in Readable(b) THEN Claimed(old[i - 1], b[i]) ELSE old[i - 1]
      BY <1>6, <3>1
    <3> QED BY <1>3, <2>3, <3>2, <3>3
  <2> QED BY <1>4, <2>1, <2>2, <2>3
<1>8. IsRun(new, n, set, b)
  <2>1. new = [i \in 0 .. n |-> new[i]]
    BY <1>6
  <2> QED BY <1>7, <2>1 DEF IsRun
<1> QED BY <1>2, <1>8

LEMMA SeenAfterIs ==
  ASSUME NEW set, NEW b \in Lines
  PROVE  /\ SeenAfter(set, b)[0] = set
         /\ \A i \in 1 .. Len(b) :
              SeenAfter(set, b)[i] =
                IF i \in Readable(b) THEN Claimed(SeenAfter(set, b)[i - 1], b[i])
                ELSE SeenAfter(set, b)[i - 1]
<1>1. Len(b) \in Nat
  BY FileParts
<1>2. \E known : IsRun(known, Len(b), set, b)
  BY <1>1, RunExists
<1>3. SeenAfter(set, b) = CHOOSE known : IsRun(known, Len(b), set, b)
  BY DEF SeenAfter, IsRun
<1>4. IsRun(SeenAfter(set, b), Len(b), set, b)
  BY <1>2, <1>3
<1> HIDE DEF SeenAfter
<1> QED BY <1>1, <1>4 DEF IsRun

LEMMA AppendMembers ==
  ASSUME NEW s \in Seq(Faults), NEW f \in Faults
  PROVE  Members(Append(s, f)) \subseteq Members(s) \cup {f}
<1>1. PICK new : new = Append(s, f)
  OBVIOUS
<1>2. Len(s) \in Nat /\ DOMAIN s = 1 .. Len(s) /\ DOMAIN new = 1 .. (Len(s) + 1)
  BY <1>1
<1>3. new[Len(s) + 1] = f
  BY <1>1
<1>4. \A i \in 1 .. Len(s) : new[i] = s[i]
  BY <1>1
<1>5. \A i \in DOMAIN new : i = Len(s) + 1 \/ i \in 1 .. Len(s)
  BY <1>2
<1>6. \A i \in DOMAIN new : new[i] \in Members(s) \cup {f}
  BY <1>2, <1>3, <1>4, <1>5 DEF Members
<1> QED BY <1>1, <1>6 DEF Members

LEMMA ClaimedIs ==
  ASSUME NEW set \in Seq(Faults), Len(set) <= SeenLimit, NEW f \in Faults
  PROVE  /\ Claimed(set, f) \in Seq(Faults) /\ Len(Claimed(set, f)) <= SeenLimit
         /\ Members(Claimed(set, f)) \subseteq Members(set) \cup {f}
         /\ f \in Members(set) => Claimed(set, f) = set
<1>1. Len(set) \in Nat /\ DOMAIN set = 1 .. Len(set) /\ SeenLimit \in Nat /\ SeenLimit >= 1
  BY Bounds
<1>2. CASE f \in Members(set)
  BY <1>2 DEF Claimed
<1>3. CASE f \notin Members(set) /\ Len(set) < SeenLimit
  <2>1. PICK new : new = Append(set, f)
    OBVIOUS
  <2>2. new \in Seq(Faults) /\ Len(new) = Len(set) + 1 /\ DOMAIN new = 1 .. Len(new)
    BY <2>1
  <2>4. Members(new) \subseteq Members(set) \cup {f}
    BY <2>1, AppendMembers
  <2>5. Len(new) <= SeenLimit
    BY <1>1, <1>3, <2>2
  <2>6. Claimed(set, f) = new
    BY <1>3, <2>1 DEF Claimed
  <2> QED BY <1>3, <2>2, <2>4, <2>5, <2>6
<1>4. CASE f \notin Members(set) /\ ~(Len(set) < SeenLimit)
  <2>1. PICK rest : rest = Tail(set)
    OBVIOUS
  <2>2. set # <<>> /\ Len(set) >= 1
    BY <1>1, <1>4
  <2>3. rest \in Seq(Faults) /\ Len(rest) = Len(set) - 1 /\ DOMAIN rest = 1 .. Len(rest)
    BY <2>1, <2>2
  <2>4. \A i \in DOMAIN rest : rest[i] = set[i + 1] /\ i + 1 \in DOMAIN set
    BY <2>1, <2>2, <2>3, <1>1
  <2>5. PICK new : new = Append(rest, f)
    OBVIOUS
  <2>6. new \in Seq(Faults) /\ Len(new) = Len(rest) + 1 /\ DOMAIN new = 1 .. Len(new)
    BY <2>3, <2>5
  <2>7. Members(new) \subseteq Members(rest) \cup {f}
    BY <2>3, <2>5, AppendMembers
  <2>8. Members(new) \subseteq Members(set) \cup {f}
    BY <2>4, <2>7 DEF Members
  <2>9. Len(new) <= SeenLimit
    BY <1>1, <2>3, <2>6
  <2>10. Claimed(set, f) = new
    BY <1>4, <2>1, <2>5 DEF Claimed
  <2> QED BY <1>4, <2>6, <2>8, <2>9, <2>10
<1> QED BY <1>2, <1>3, <1>4

\* After i lines the set holds what it held, and what was new among those lines.
LEMMA SeenGrows ==
  ASSUME NEW set \in Seq(Faults), Len(set) <= SeenLimit, NEW b \in Lines
  PROVE  \A i \in 0 .. Len(b) :
           /\ SeenAfter(set, b)[i] \in Seq(Faults)
           /\ Len(SeenAfter(set, b)[i]) <= SeenLimit
           /\ Members(SeenAfter(set, b)[i])
                \subseteq Members(set) \cup {b[k] : k \in {m \in Fresh(set, b) : m <= i}}
<1> DEFINE S(i) == SeenAfter(set, b)[i]
           News(i) == {b[k] : k \in {m \in Fresh(set, b) : m <= i}}
           Good(i) == /\ S(i) \in Seq(Faults) /\ Len(S(i)) <= SeenLimit
                      /\ Members(S(i)) \subseteq Members(set) \cup News(i)
           Bad == {i \in 0 .. Len(b) : ~Good(i)}
<1>1. Len(b) \in Nat /\ Readable(b) \subseteq 1 .. Len(b)
  BY FileParts
<1>2. SUFFICES ASSUME Bad # {} PROVE FALSE
  OBVIOUS
<1>3. PICK i \in Bad : \A k \in Bad : i <= k
  <2>1. Bad \in SUBSET Nat
    BY <1>1
  <2> QED BY <1>2, <2>1, LeastOf
<1>4. Good(0)
  <2>1. S(0) = set
    BY SeenAfterIs
  <2> QED BY <2>1
<1>5. i \in 1 .. Len(b) /\ i - 1 \in 0 .. Len(b) /\ ~(i <= i - 1)
  BY <1>1, <1>3, <1>4
<1>6. Good(i - 1)
  BY <1>3, <1>5
<1>7. S(i) = IF i \in Readable(b) THEN Claimed(S(i - 1), b[i]) ELSE S(i - 1)
  BY <1>5, SeenAfterIs
<1>8. News(i - 1) \subseteq News(i)
  <2> SUFFICES ASSUME NEW m \in Fresh(set, b), m <= i - 1 PROVE m <= i
    OBVIOUS
  <2>1. m \in Nat
    BY <1>1 DEF Fresh
  <2> QED BY <1>1, <1>5, <2>1
<1>9. CASE i \notin Readable(b)
  BY <1>3, <1>6, <1>7, <1>8, <1>9
<1>10. CASE i \in Readable(b)
  <2>1. b[i] \in Faults
    BY <1>10 DEF Readable
  <2> HIDE DEF S
  <2>2. /\ S(i) \in Seq(Faults) /\ Len(S(i)) <= SeenLimit
        /\ Members(S(i)) \subseteq Members(S(i - 1)) \cup {b[i]}
        /\ b[i] \in Members(S(i - 1)) => S(i) = S(i - 1)
    BY <1>6, <1>7, <1>10, <2>1, ClaimedIs
  <2>3. b[i] \notin Members(S(i - 1)) => b[i] \in News(i)
    <3> SUFFICES ASSUME b[i] \notin Members(S(i - 1)) PROVE b[i] \in News(i)
      OBVIOUS
    <3>1. i \in Fresh(set, b)
      BY <1>10 DEF Fresh, S
    <3>2. i <= i
      BY <1>5
    <3> QED BY <3>1, <3>2
  <2>4. Members(S(i)) \subseteq Members(set) \cup News(i)
    BY <1>6, <1>8, <2>2, <2>3
  <2> QED BY <1>3, <2>2, <2>4 DEF S
<1> QED BY <1>9, <1>10

\* A record of a batch was seen before, or is first found new at its place or
\* before it.
LEMMA FreshOrSeen ==
  ASSUME NEW set \in Seq(Faults), Len(set) <= SeenLimit, NEW b \in Lines,
         NEW k \in Readable(b)
  PROVE  b[k] \in Members(set) \/ \E m \in Fresh(set, b) : m <= k /\ b[m] = b[k]
<1>1. k \in 1 .. Len(b) /\ Len(b) \in Nat /\ Readable(b) \subseteq 1 .. Len(b)
  BY FileParts
<1>2. CASE k \in Fresh(set, b)
  <2>1. k <= k
    BY <1>1
  <2> QED BY <1>2, <2>1
<1>3. CASE k \notin Fresh(set, b)
  <2>1. b[k] \in Members(SeenAfter(set, b)[k - 1])
    BY <1>3 DEF Fresh
  <2>2. k - 1 \in 0 .. Len(b)
    BY <1>1
  <2>3. b[k] \in Members(set) \cup {b[n] : n \in {m \in Fresh(set, b) : m <= k - 1}}
    BY <2>1, <2>2, SeenGrows
  <2>4. CASE b[k] \in Members(set)
    BY <2>4
  <2>5. CASE b[k] \in {b[n] : n \in {m \in Fresh(set, b) : m <= k - 1}}
    <3>1. PICK m \in Fresh(set, b) : m <= k - 1 /\ b[m] = b[k]
      BY <2>5
    <3>2. m \in Nat
      BY <1>1 DEF Fresh
    <3> QED BY <1>1, <3>1, <3>2
  <2> QED BY <2>3, <2>4, <2>5
<1> QED BY <1>2, <1>3

-----------------------------------------------------------------------------
(***************************************************************************)
(* The upload under way                                                    *)
(***************************************************************************)

LEMMA Types ==
  ASSUME SpoolTypeOK
  PROVE  /\ spool \in Lines /\ inflight \in Lines /\ late \in Lines
         /\ cut \in Nat /\ spooled \in Nat /\ spooled <= MaxFaults /\ 1 .. spooled \subseteq Faults
         /\ reported \subseteq Faults /\ overtaken \subseteq Faults /\ repeats \subseteq Faults
         /\ lost \subseteq Faults /\ retried \subseteq Faults /\ Done \subseteq Faults
         /\ round \in Nat /\ kills \in Nat
<1>1. inflight \in Lines /\ Len(inflight) \in Nat
  BY FileParts DEF SpoolTypeOK
<1>2. cut \in Nat /\ spooled \in Nat /\ spooled <= MaxFaults
  BY <1>1, Bounds DEF SpoolTypeOK
<1>3. 1 .. spooled \subseteq Faults
  BY <1>2, Bounds DEF Faults
<1> QED BY <1>1, <1>2, <1>3 DEF SpoolTypeOK, Done

\* What is sent and what is left over are the two parts of the file in flight.
LEMMA RequestIs ==
  ASSUME SpoolInv, Uploading
  PROVE  /\ Request \in Lines /\ Owed \in Lines /\ ~EndsTorn(Owed)
         /\ FaultsIn(inflight) = FaultsIn(Request) \cup FaultsIn(Owed)
         /\ InOrder(Request, Done) /\ InOrder(Owed, Done \cup FaultsIn(Request))
         /\ Once(Request, retried) /\ Once(Owed, retried)
         /\ FaultsIn(Owed) \cap reported \subseteq retried
         /\ \A k \in Readable(Request) :
              k \in Readable(inflight) /\ k <= cut /\ Request[k] = inflight[k]
<1>1. inflight \in Lines /\ cut \in Nat /\ IsCut(inflight, cut)
  BY Types, CutIs DEF SpoolInv, UploadInv
<1>2. cut \in 0 .. Len(inflight)
  BY <1>1 DEF IsCut
<1>3. InOrder(inflight, Done) /\ Once(inflight, retried)
  BY DEF SpoolInv, OrderInv, OnceInv
<1>4. Request \in Lines /\ Owed \in Lines /\ ~EndsTorn(Owed)
  BY <1>1, <1>2, Prefix, Suffix DEF Request, Owed
<1>5. FaultsIn(inflight) = FaultsIn(Request) \cup FaultsIn(Owed)
  BY <1>1, SplitFaults DEF Request, Owed
<1>6. InOrder(Request, Done) /\ InOrder(Owed, Done \cup FaultsIn(Request))
  BY <1>1, <1>3, SplitOrder DEF Request, Owed
<1>7. Once(Owed, retried)
  BY <1>1, <1>3, SplitOnce DEF Owed
<1>8. \A k \in Readable(Request) :
        k \in Readable(inflight) /\ k <= cut /\ Request[k] = inflight[k]
  BY <1>1, <1>2, Prefix DEF Request
<1>9. Once(Request, retried)
  BY <1>3, <1>8 DEF Once
<1>10. \A k \in Readable(Owed) : k + cut \in Readable(inflight) /\ Owed[k] = inflight[k + cut]
  BY <1>1, Suffix DEF Owed
<1>11. \A k \in Readable(Owed) : k \in Nat /\ k >= 1 /\ ~(k + cut <= cut)
  <2>1. Readable(Owed) \subseteq 1 .. Len(Owed) /\ Len(Owed) \in Nat
    BY <1>4, FileParts
  <2> QED BY <1>1, <2>1
<1>12. ASSUME NEW k \in Readable(Owed), Owed[k] \in reported PROVE Owed[k] \in retried
  BY <1>10, <1>11, <1>12 DEF SpoolInv, RepeatInv
<1>13. FaultsIn(Owed) \cap reported \subseteq retried
  BY <1>4, <1>12, FileParts
<1> QED BY <1>4, <1>5, <1>6, <1>7, <1>8, <1>9, <1>13

\* What stays true of files nobody touches.
LEMMA FilesStand ==
  ASSUME SpoolInv, UNCHANGED <<spool, inflight, spooled>>,
         Done \subseteq Done', retried \subseteq retried'
  PROVE  /\ InOrder(inflight, Done)' /\ InOrder(spool, Done \cup FaultsIn(inflight))'
         /\ InOrder(late, Done')
         /\ pc = "unlink" => InOrder(spool, Done)'
         /\ Once(spool, retried)' /\ Once(inflight, retried)'
         /\ pc # "unlink" => (FaultsIn(spool) \cap FaultsIn(inflight) \subseteq retried)'
         /\ NothingForgotten'
<1>1. /\ InOrder(inflight, Done) /\ InOrder(spool, Done \cup FaultsIn(inflight))
      /\ InOrder(late, Done)
      /\ pc = "unlink" => InOrder(spool, Done)
      /\ Once(spool, retried) /\ Once(inflight, retried)
      /\ pc # "unlink" => FaultsIn(spool) \cap FaultsIn(inflight) \subseteq retried
      /\ NothingForgotten
  BY DEF SpoolInv, OrderInv, OnceInv
<1>2. /\ InOrder(inflight, Done') /\ InOrder(late, Done')
      /\ InOrder(spool, Done' \cup FaultsIn(inflight))
      /\ pc = "unlink" => InOrder(spool, Done')
  <2>1. InOrder(inflight, Done') /\ InOrder(late, Done')
    BY <1>1, OrderMono
  <2>2. pc = "unlink" => InOrder(spool, Done')
    BY <1>1, OrderMono
  <2>3. Done \cup FaultsIn(inflight) \subseteq Done' \cup FaultsIn(inflight)
    OBVIOUS
  <2>4. InOrder(spool, Done' \cup FaultsIn(inflight))
    BY <1>1, <2>3, OrderMono
  <2> QED BY <2>1, <2>2, <2>4
<1>3. Once(spool, retried') /\ Once(inflight, retried')
  BY <1>1, OnceMono
<1>4. NothingForgotten'
  BY <1>1 DEF NothingForgotten, Stored, Done
<1> QED BY <1>1, <1>2, <1>3, <1>4

\* A Hub reads a request whose order and repeats are accounted for.
LEMMA Ingestion ==
  ASSUME SpoolInv, NEW h \in Hubs, NEW b, b \in Lines, Ingest(h, b), lost' = lost,
         InOrder(b, Done), Once(b, retried),
         \A k \in Readable(b) : b[k] \in reported => b[k] \in retried
  PROVE  /\ seen' \in [Hubs -> Seq(Faults)] /\ \A i \in Hubs : Len(seen'[i]) <= SeenLimit
         /\ {reported', overtaken', repeats'} \subseteq SUBSET Faults
         /\ reported \subseteq reported' /\ reported' \subseteq reported \cup FaultsIn(b)
         /\ Rejects(b) \/ FaultsIn(b) \subseteq reported'
         /\ SeenInv' /\ OldestFirst' /\ repeats' \subseteq retried
<1>1. /\ seen \in [Hubs -> Seq(Faults)] /\ \A i \in Hubs : Len(seen[i]) <= SeenLimit
      /\ reported \subseteq Faults /\ overtaken \subseteq Faults /\ repeats \subseteq Faults
      /\ SeenInv /\ OldestFirst /\ RepeatsNeedAFault
  BY DEF SpoolInv, SpoolTypeOK
<1>2. CASE Rejects(b)
  <2>1. UNCHANGED <<seen, reported, overtaken, repeats>>
    BY <1>2 DEF Ingest
  <2> QED BY <1>1, <1>2, <2>1 DEF SeenInv, OldestFirst, RepeatsNeedAFault
<1>3. CASE ~Rejects(b)
  <2>1. PICK F : F = Fresh(seen[h], b)
    OBVIOUS
  <2>2. /\ seen' = [seen EXCEPT ![h] = SeenAfter(seen[h], b)[Len(b)]]
        /\ reported' = reported \cup {b[i] : i \in F}
        /\ overtaken' = overtaken \cup PassedOver(b, F)
        /\ repeats' = repeats \cup SentAgain(b, F)
    BY <1>3, <2>1 DEF Ingest
  <2>3. F \subseteq Readable(b)
    BY <2>1 DEF Fresh
  <2>4. \A i \in Readable(b) : b[i] \in Faults /\ b[i] \in FaultsIn(b) /\ i \in Nat
    BY FileParts
  <2>5. \A k \in Readable(b) : b[k] \in Members(seen[h]) \/ \E m \in F : m <= k /\ b[m] = b[k]
    BY <1>1, <2>1, FreshOrSeen
  <2>6. Members(seen[h]) \subseteq reported
    BY <1>1 DEF SeenInv
  <2>7. /\ SeenAfter(seen[h], b)[Len(b)] \in Seq(Faults)
        /\ Len(SeenAfter(seen[h], b)[Len(b)]) <= SeenLimit
        /\ Members(SeenAfter(seen[h], b)[Len(b)]) \subseteq reported'
    <3>1. Len(b) \in 0 .. Len(b)
      BY FileParts
    <3>2. {b[k] : k \in {m \in F : m <= Len(b)}} \subseteq reported'
      BY <2>2
    <3>3. Members(seen[h]) \cup {b[k] : k \in {m \in F : m <= Len(b)}} \subseteq reported'
      BY <2>2, <2>6, <3>2
    <3>4. /\ SeenAfter(seen[h], b)[Len(b)] \in Seq(Faults)
          /\ Len(SeenAfter(seen[h], b)[Len(b)]) <= SeenLimit
          /\ Members(SeenAfter(seen[h], b)[Len(b)])
               \subseteq Members(seen[h]) \cup {b[k] : k \in {m \in F : m <= Len(b)}}
      <4>1. seen[h] \in Seq(Faults) /\ Len(seen[h]) <= SeenLimit
        BY <1>1
      <4>2. \A i \in 0 .. Len(b) :
              /\ SeenAfter(seen[h], b)[i] \in Seq(Faults)
              /\ Len(SeenAfter(seen[h], b)[i]) <= SeenLimit
              /\ Members(SeenAfter(seen[h], b)[i])
                   \subseteq Members(seen[h]) \cup {b[k] : k \in {m \in F : m <= i}}
        BY <2>1, <4>1, SeenGrows
      <4> QED BY <3>1, <4>2
    <3> QED BY <3>3, <3>4
  <2>8. /\ seen' \in [Hubs -> Seq(Faults)] /\ \A i \in Hubs : Len(seen'[i]) <= SeenLimit
        /\ \A i \in Hubs : Members(seen'[i]) \subseteq reported'
    <3>1. PICK new : new = SeenAfter(seen[h], b)[Len(b)]
      OBVIOUS
    <3>2. seen' = [seen EXCEPT ![h] = new] /\ new \in Seq(Faults) /\ Len(new) <= SeenLimit
      BY <2>2, <2>7, <3>1
    <3>3. Members(new) \subseteq reported'
      BY <2>7, <3>1
    <3>4. \A i \in Hubs : seen'[i] = new \/ seen'[i] = seen[i]
      BY <1>1, <3>2
    <3>5. \A i \in Hubs : Members(seen[i]) \subseteq reported'
      BY <1>1, <2>2 DEF SeenInv
    <3>6. \A i \in Hubs : Members(seen'[i]) \subseteq reported'
      BY <3>3, <3>4, <3>5
    <3> QED BY <1>1, <3>2, <3>4, <3>6
  <2>9. reported \subseteq reported' /\ reported' \subseteq reported \cup FaultsIn(b)
    BY <2>2, <2>3, <2>4
  <2>10. FaultsIn(b) \subseteq reported'
    <3>1. \A k \in Readable(b) : b[k] \in reported'
      BY <2>2, <2>5, <2>6
    <3> QED BY <3>1 DEF FaultsIn
  <2>11. PassedOver(b, F) \subseteq lost
    <3> SUFFICES ASSUME NEW g \in Faults \ reported, NEW i \in F, g < b[i],
                        \A k \in F : k < i => b[k] # g
                 PROVE  g \in lost
      BY DEF PassedOver
    <3>1. i \in Readable(b) /\ b[i] \in Nat /\ g \in Nat /\ g >= 1
      BY <2>3, <2>4, Bounds DEF Faults
    <3>2. g \in 1 .. (b[i] - 1)
      BY <3>1
    <3>3. g \in Done \cup Earlier(b, i)
      BY <3>1, <3>2 DEF InOrder
    <3>4. ASSUME NEW k \in Readable(b), k < i, b[k] = g PROVE FALSE
      <4>1. PICK m \in F : m <= k /\ b[m] = b[k]
        BY <2>5, <2>6, <3>4
      <4>2. m < i
        BY <2>3, <2>4, <3>1, <3>4, <4>1
      <4> QED BY <3>4, <4>1, <4>2
    <3> QED BY <3>3, <3>4 DEF Earlier, Done
  <2>12. SentAgain(b, F) \subseteq retried
    <3> SUFFICES ASSUME NEW k \in F, b[k] \in reported \/ \E m \in F : m < k /\ b[m] = b[k]
                 PROVE  b[k] \in retried
      BY DEF SentAgain
    <3>1. CASE b[k] \in reported
      BY <2>3, <3>1
    <3>2. CASE \E m \in F : m < k /\ b[m] = b[k]
      <4>1. PICK m \in F : m < k /\ b[m] = b[k]
        BY <3>2
      <4>2. m # k
        BY <2>3, <2>4, <4>1
      <4> QED BY <2>3, <4>1, <4>2 DEF Once
    <3> QED BY <3>1, <3>2
  <2>13. reported' \subseteq Faults /\ overtaken' \subseteq Faults /\ repeats' \subseteq Faults
    <3>1. PassedOver(b, F) \subseteq Faults /\ SentAgain(b, F) \subseteq Faults
      BY <2>3, <2>4 DEF PassedOver, SentAgain
    <3> QED BY <1>1, <2>2, <2>3, <2>4, <3>1
  <2> QED BY <1>1, <2>2, <2>8, <2>9, <2>10, <2>11, <2>12, <2>13
          DEF SeenInv, OldestFirst, RepeatsNeedAFault
<1> QED BY <1>2, <1>3

\* The parts of the invariant that concern one step each.
LEMMA Holds ==
  ASSUME SpoolTypeOK', UploadInv', AnswerInv', KnownInv', OwedInv', OrderInv', SeenInv',
         RepeatInv', OnceInv', NothingForgotten', OldestFirst', RepeatsNeedAFault'
  PROVE  SpoolInv'
BY DEF SpoolInv

LEMMA Answers == NoAnswer = "none" /\ NoAnswer \notin {"accepted", "rejected", "refused"}
BY DEF NoAnswer

LEMMA HubReadsKeeps ==
  ASSUME SpoolInv, NEW h \in Hubs, HubReads(h)
  PROVE  SpoolInv'
<1>1. /\ pc = "await" /\ answer = NoAnswer /\ Ingest(h, Request)
      /\ answer' = IF Rejects(Request) THEN "rejected" ELSE "accepted"
      /\ UNCHANGED <<spool, inflight, pc, cut, round, late, spooled, kills, lost, retried>>
  BY DEF HubReads, fileVars
<1>2. SpoolTypeOK /\ Uploading /\ Request' = Request
  BY <1>1 DEF SpoolInv, Uploading, Request
<1>3. /\ Request \in Lines /\ FaultsIn(Request) \subseteq FaultsIn(inflight)
      /\ InOrder(Request, Done) /\ Once(Request, retried)
      /\ \A k \in Readable(Request) :
           k \in Readable(inflight) /\ k <= cut /\ Request[k] = inflight[k]
  BY <1>2, RequestIs
<1>4. \A i \in Readable(inflight) : inflight[i] \in reported => inflight[i] \in retried
  BY <1>1, Answers DEF SpoolInv, RepeatInv
<1>5. \A k \in Readable(Request) : Request[k] \in reported => Request[k] \in retried
  BY <1>3, <1>4
<1>6. /\ seen' \in [Hubs -> Seq(Faults)] /\ \A i \in Hubs : Len(seen'[i]) <= SeenLimit
      /\ {reported', overtaken', repeats'} \subseteq SUBSET Faults
      /\ reported \subseteq reported' /\ reported' \subseteq reported \cup FaultsIn(Request)
      /\ Rejects(Request) \/ FaultsIn(Request) \subseteq reported'
      /\ SeenInv' /\ OldestFirst' /\ repeats' \subseteq retried
  BY <1>1, <1>3, <1>5, Ingestion
<1>7. Rejects(Request) => reported' = reported
  BY <1>1 DEF Ingest
<1>8. SpoolTypeOK'
  BY <1>1, <1>2, <1>6 DEF SpoolTypeOK
<1>9. UploadInv' /\ AnswerInv' /\ RepeatsNeedAFault'
  BY <1>1, <1>6 DEF SpoolInv, UploadInv, AnswerInv, RepeatsNeedAFault, Uploading
<1>10. KnownInv'
  BY <1>1, <1>3, <1>6 DEF SpoolInv, KnownInv
<1>11. OwedInv'
  BY <1>1, <1>2, <1>6 DEF OwedInv, Done
<1>12. OrderInv' /\ OnceInv' /\ NothingForgotten'
  <2>1. Done \subseteq Done' /\ retried \subseteq retried'
    BY <1>1, <1>6 DEF Done
  <2> QED BY <1>1, <2>1, FilesStand DEF OrderInv, OnceInv
<1>13. RepeatInv'
  <2>1. FaultsIn(spool) \cap FaultsIn(inflight) \subseteq retried
    BY <1>1 DEF SpoolInv, OnceInv
  <2>2. FaultsIn(late) \subseteq retried /\ FaultsIn(spool) \cap reported \subseteq retried
    BY DEF SpoolInv, RepeatInv
  <2>3. FaultsIn(spool) \cap reported' \subseteq retried
    BY <1>3, <1>6, <2>1, <2>2
  <2>4. ASSUME NEW i \in Readable(inflight), inflight[i] \in reported' \ retried
        PROVE  i <= cut /\ answer' = "accepted"
    <3>1. inflight[i] \in FaultsIn(Request) /\ ~Rejects(Request)
      BY <1>4, <1>6, <1>7, <2>4
    <3>2. PICK k \in Readable(Request) : Request[k] = inflight[i]
      BY <1>3, <3>1, FileParts
    <3>3. k = i
      BY <1>3, <2>4, <3>2 DEF SpoolInv, OnceInv, Once
    <3> QED BY <1>1, <1>3, <3>1, <3>3
  <2> QED BY <1>1, <2>2, <2>3, <2>4 DEF RepeatInv
<1> QED BY <1>6, <1>8, <1>9, <1>10, <1>11, <1>12, <1>13, Holds

LEMMA HubReadsLateKeeps ==
  ASSUME SpoolInv, NEW h \in Hubs, HubReadsLate(h)
  PROVE  SpoolInv'
<1>1. /\ Ingest(h, late) /\ late' = <<>>
      /\ UNCHANGED <<spool, inflight, pc, cut, answer, round, spooled, kills, lost, retried>>
  BY DEF HubReadsLate, fileVars, uploadVars
<1>2. /\ SpoolTypeOK /\ late \in Lines /\ Request' = Request
      /\ <<>> \in Lines /\ Readable(<<>>) = {} /\ FaultsIn(<<>>) = {}
  BY <1>1, Types, EmptyFile DEF SpoolInv, Request
<1>3. InOrder(late, Done) /\ FaultsIn(late) \subseteq retried
  BY DEF SpoolInv, OrderInv, RepeatInv
<1>4. \A k \in Readable(late) : late[k] \in retried
  BY <1>2, <1>3, FileParts
<1>5. Once(late, retried) /\ \A k \in Readable(late) : late[k] \in reported => late[k] \in retried
  BY <1>4 DEF Once
<1>6. /\ seen' \in [Hubs -> Seq(Faults)] /\ \A i \in Hubs : Len(seen'[i]) <= SeenLimit
      /\ {reported', overtaken', repeats'} \subseteq SUBSET Faults
      /\ reported \subseteq reported' /\ reported' \subseteq reported \cup FaultsIn(late)
      /\ SeenInv' /\ OldestFirst' /\ repeats' \subseteq retried
  BY <1>1, <1>2, <1>3, <1>5, Ingestion
<1>7. SpoolTypeOK'
  BY <1>1, <1>2, <1>6 DEF SpoolTypeOK
<1>8. UploadInv' /\ AnswerInv' /\ RepeatsNeedAFault'
  BY <1>1, <1>6 DEF SpoolInv, UploadInv, AnswerInv, RepeatsNeedAFault, Uploading
<1>9. KnownInv'
  BY <1>1, <1>2, <1>6 DEF SpoolInv, KnownInv
<1>10. Done \subseteq Done' /\ retried \subseteq retried'
  BY <1>1, <1>6 DEF Done
<1>11. OwedInv'
  BY <1>1, <1>2, <1>10 DEF SpoolInv, OwedInv
<1>12. OrderInv' /\ OnceInv' /\ NothingForgotten'
  <2>1. InOrder(late, Done)'
    BY <1>1, <1>2 DEF InOrder
  <2> QED BY <1>1, <1>10, <2>1, FilesStand DEF OrderInv, OnceInv
<1>13. RepeatInv'
  <2>1. /\ FaultsIn(spool) \cap reported \subseteq retried
        /\ \A i \in Readable(inflight) :
             inflight[i] \in reported \ retried => i <= cut /\ answer = "accepted"
    BY DEF SpoolInv, RepeatInv
  <2>2. FaultsIn(spool) \cap reported' \subseteq retried
    BY <1>3, <1>6, <2>1
  <2>3. \A i \in Readable(inflight) :
          inflight[i] \in reported' \ retried => i <= cut /\ answer = "accepted"
    BY <1>3, <1>6, <2>1
  <2> QED BY <1>1, <1>2, <2>2, <2>3 DEF RepeatInv
<1> QED BY <1>6, <1>7, <1>8, <1>9, <1>11, <1>12, <1>13, Holds

-----------------------------------------------------------------------------
(***************************************************************************)
(* The steps in which the process ends                                     *)
(***************************************************************************)

LEMMA InitHolds ==
  ASSUME Init
  PROVE  SpoolInv
<1>1. /\ spool = <<>> /\ inflight = <<>> /\ late = <<>> /\ pc = "serve" /\ cut = 0
      /\ answer = NoAnswer /\ round = 0 /\ spooled = 0 /\ kills = 0
      /\ seen = [h \in Hubs |-> <<>>]
      /\ reported = {} /\ overtaken = {} /\ repeats = {} /\ lost = {} /\ retried = {}
  BY DEF Init
<1>2. <<>> \in Lines /\ Len(<<>>) = 0 /\ Readable(<<>>) = {} /\ FaultsIn(<<>>) = {}
  BY EmptyFile
<1>3. SpoolTypeOK
  <2>1. seen \in [Hubs -> Seq(Faults)] /\ \A h \in Hubs : Len(seen[h]) <= SeenLimit
    BY <1>1, Bounds
  <2> QED BY <1>1, <1>2, <2>1, Bounds, Answers DEF SpoolTypeOK
<1>4. UploadInv /\ AnswerInv /\ KnownInv /\ OwedInv
  BY <1>1, <1>2 DEF UploadInv, Uploading, AnswerInv, KnownInv, OwedInv
<1>5. OrderInv /\ RepeatInv /\ OnceInv
  BY <1>1, <1>2 DEF OrderInv, InOrder, RepeatInv, OnceInv, Once
<1>6. SeenInv
  BY <1>1 DEF SeenInv, Members
<1>7. NothingForgotten /\ OldestFirst /\ RepeatsNeedAFault
  BY <1>1, <1>2 DEF NothingForgotten, OldestFirst, RepeatsNeedAFault
<1> QED BY <1>3, <1>4, <1>5, <1>6, <1>7 DEF SpoolInv

\* Whatever the end does to the spool, the request under way and the file in
\* flight are accounted for.
LEMMA EndsKeeps ==
  ASSUME SpoolInv, Ends,
         spool' \in Lines, spooled' \in 0 .. MaxFaults, spooled <= spooled', kills' \in 0 .. MaxKills,
         lost \subseteq lost', lost' \subseteq Faults,
         FaultsIn(spool') \subseteq 1 .. spooled',
         FaultsIn(spool') \cap reported \subseteq retried,
         InOrder(spool', Done' \cup FaultsIn(inflight)), Once(spool', retried),
         NothingForgotten'
  PROVE  SpoolInv'
<1>1. /\ pc' = "down" /\ cut' = 0 /\ answer' = NoAnswer /\ round' = 0
      /\ late' = IF pc = "await" /\ answer = NoAnswer THEN Request ELSE late
      /\ retried' = retried \cup FaultsIn(inflight)
      /\ UNCHANGED <<inflight, seen, reported, overtaken, repeats>>
  BY DEF Ends
<1>2. SpoolTypeOK /\ inflight \in Lines /\ spooled \in Nat /\ spooled' \in Nat
  BY Types, Bounds DEF SpoolInv
<1>3. /\ late' \in Lines /\ FaultsIn(late') \subseteq retried' /\ InOrder(late', Done)
      /\ FaultsIn(late') \subseteq 1 .. spooled
  <2>1. CASE pc = "await" /\ answer = NoAnswer
    <3>1. Uploading /\ late' = Request
      BY <1>1, <2>1 DEF Uploading
    <3>2. Request \in Lines /\ FaultsIn(Request) \subseteq FaultsIn(inflight) /\ InOrder(Request, Done)
      BY <3>1, RequestIs
    <3>3. FaultsIn(inflight) \subseteq 1 .. spooled
      BY DEF SpoolInv, KnownInv
    <3> QED BY <1>1, <3>1, <3>2, <3>3
  <2>2. CASE ~(pc = "await" /\ answer = NoAnswer)
    <3>1. /\ late \in Lines /\ FaultsIn(late) \subseteq retried /\ InOrder(late, Done)
          /\ FaultsIn(late) \subseteq 1 .. spooled
      BY <1>2, Types DEF SpoolInv, RepeatInv, OrderInv, KnownInv
    <3> QED BY <1>1, <2>2, <3>1
  <2> QED BY <2>1, <2>2
<1>4. 1 .. spooled \subseteq 1 .. spooled' /\ Done \subseteq Done' /\ retried \subseteq retried'
  BY <1>1, <1>2 DEF Done
<1>5. FaultsIn(inflight) \subseteq Faults /\ 0 \in 0 .. Len(inflight)
  BY <1>2, FileParts
<1>6. SpoolTypeOK'
  BY <1>1, <1>2, <1>3, <1>5, Bounds, Answers DEF SpoolTypeOK
<1>7. UploadInv' /\ AnswerInv' /\ OwedInv'
  BY <1>1 DEF UploadInv, Uploading, AnswerInv, OwedInv
<1>8. KnownInv'
  BY <1>1, <1>3, <1>4 DEF SpoolInv, KnownInv
<1>9. OrderInv'
  <2>1. InOrder(inflight, Done)
    BY DEF SpoolInv, OrderInv
  <2>2. InOrder(inflight, Done') /\ InOrder(late', Done')
    BY <1>3, <1>4, <2>1, OrderMono
  <2> QED BY <1>1, <2>2 DEF OrderInv
<1>10. SeenInv' /\ RepeatsNeedAFault'
  BY <1>1, <1>4 DEF SpoolInv, SeenInv, RepeatsNeedAFault
<1>11. OldestFirst'
  BY <1>1 DEF SpoolInv, OldestFirst
<1>12. RepeatInv'
  <2>1. \A i \in Readable(inflight) : inflight[i] \in retried'
    BY <1>1, <1>2, FileParts
  <2> QED BY <1>1, <1>3, <1>4, <2>1 DEF RepeatInv
<1>13. OnceInv'
  <2>1. Once(inflight, retried)
    BY DEF SpoolInv, OnceInv
  <2>2. Once(spool', retried') /\ Once(inflight, retried')
    BY <1>4, <2>1, OnceMono
  <2> QED BY <1>1, <2>2 DEF OnceInv
<1> QED BY <1>6, <1>7, <1>8, <1>9, <1>10, <1>11, <1>12, <1>13, Holds

LEMMA AppendIs ==
  ASSUME NEW file \in Lines, NEW x \in Faults \cup {Torn, Junk}
  PROVE  Append(file, x) = Join(file, <<x>>)
BY DEF Lines, Join

LEMMA CrashSpooledKeeps ==
  ASSUME SpoolInv, CrashSpooled
  PROVE  SpoolInv'
<1> DEFINE x == spooled + 1
           base == Done \cup FaultsIn(inflight)
<1>1. /\ Ends /\ spooled < MaxFaults /\ spooled' = x /\ kills' = kills
      /\ spool' = Append(spool, x) /\ lost' = lost \cup Swallowed(spool, <<x>>)
      /\ UNCHANGED <<inflight, reported>>
  BY DEF CrashSpooled, Ends
<1>2. /\ SpoolTypeOK /\ spool \in Lines /\ spooled \in Nat /\ x \in Faults /\ x \notin 1 .. spooled
      /\ x \in 1 .. x /\ 1 .. spooled \subseteq 1 .. x
  BY <1>1, Types, Bounds DEF SpoolInv, Faults
<1>3. /\ <<x>> \in Lines /\ Readable(<<x>>) = {1} /\ FaultsIn(<<x>>) = {x} /\ <<x>>[1] = x
      /\ spool' = Join(spool, <<x>>)
  BY <1>1, <1>2, OneLine, AppendIs
<1> HIDE DEF x
<1>4. /\ FaultsIn(spool) \subseteq FaultsIn(spool')
      /\ FaultsIn(spool') \subseteq FaultsIn(spool) \cup {x}
      /\ x \in FaultsIn(spool') \cup Swallowed(spool, <<x>>)
  BY <1>2, <1>3, ConcatFaults
<1>5. FaultsIn(spool) \subseteq 1 .. spooled /\ reported \subseteq 1 .. spooled
  BY DEF SpoolInv, KnownInv
<1>6. spool' \in Lines
  BY <1>2, <1>3, Concat
<1>7. Swallowed(spool, <<x>>) \subseteq Faults /\ lost \subseteq Faults
  BY <1>2, Types DEF Swallowed
<1>8. InOrder(spool', Done' \cup FaultsIn(inflight))
  <2>1. InOrder(spool, base)
    BY DEF SpoolInv, OrderInv
  <2>2. \A g \in 1 .. (x - 1) : g \in base \cup FaultsIn(spool)
    <3>1. x - 1 = spooled
      BY <1>2 DEF x
    <3> QED BY <3>1 DEF SpoolInv, NothingForgotten, Stored, Done
  <2>3. InOrder(<<x>>, base \cup FaultsIn(spool))
    BY <1>3, <2>2 DEF InOrder
  <2>4. InOrder(spool', base \cup Swallowed(spool, <<x>>))
    BY <1>2, <1>3, <2>1, <2>3, ConcatOrder
  <2>5. base \cup Swallowed(spool, <<x>>) = Done' \cup FaultsIn(inflight)
    BY <1>1 DEF Done
  <2> QED BY <2>4, <2>5
<1>9. Once(spool', retried)
  <2>1. Once(spool, retried) /\ Once(<<x>>, retried)
    BY <1>3 DEF SpoolInv, OnceInv, Once
  <2>2. FaultsIn(spool) \cap FaultsIn(<<x>>) \subseteq retried
    BY <1>2, <1>3, <1>5
  <2> QED BY <1>2, <1>3, <2>1, <2>2, ConcatOnce
<1>10. NothingForgotten'
  <2>1. \A f \in 1 .. spooled : f \in Stored \cup reported \cup lost
    BY DEF SpoolInv, NothingForgotten
  <2>2. \A f \in 1 .. x : f \in 1 .. spooled \/ f = x
    BY <1>2 DEF x
  <2> QED BY <1>1, <1>4, <2>1, <2>2 DEF NothingForgotten, Stored
<1>11. FaultsIn(spool') \cap reported \subseteq retried
  <2>1. FaultsIn(spool) \cap reported \subseteq retried
    BY DEF SpoolInv, RepeatInv
  <2> QED BY <1>2, <1>4, <1>5, <2>1
<1>12. FaultsIn(spool') \subseteq 1 .. spooled'
  BY <1>1, <1>2, <1>4, <1>5
<1>13. spooled' \in 0 .. MaxFaults /\ spooled <= spooled' /\ kills' \in 0 .. MaxKills
  BY <1>1, <1>2, Bounds DEF SpoolTypeOK, x
<1> QED BY <1>1, <1>6, <1>7, <1>8, <1>9, <1>10, <1>11, <1>12, <1>13, EndsKeeps

LEMMA CrashTornKeeps ==
  ASSUME SpoolInv, CrashTorn
  PROVE  SpoolInv'
<1>1. /\ Ends /\ kills' \in 0 .. MaxKills /\ spool' = Append(spool, Torn)
      /\ UNCHANGED <<inflight, spooled, reported, lost>>
  BY Bounds DEF CrashTorn, EndsSilently, Fault, Ends, SpoolInv, SpoolTypeOK
<1>2. SpoolTypeOK /\ spool \in Lines /\ spooled \in 0 .. MaxFaults /\ spooled <= spooled /\ lost \subseteq Faults
  BY Types, Bounds DEF SpoolInv, SpoolTypeOK
<1>3. /\ <<Torn>> \in Lines /\ Readable(<<Torn>>) = {} /\ FaultsIn(<<Torn>>) = {}
      /\ spool' = Join(spool, <<Torn>>)
  BY <1>1, <1>2, OneLine, AppendIs, Bounds
<1>4. FaultsIn(spool') = FaultsIn(spool) /\ spool' \in Lines
  <2>1. FaultsIn(spool) \subseteq FaultsIn(spool') /\ FaultsIn(spool') \subseteq FaultsIn(spool)
    BY <1>2, <1>3, ConcatFaults
  <2>2. spool' \in Lines
    BY <1>2, <1>3, Concat
  <2> QED BY <2>1, <2>2
<1>5. Swallowed(spool, <<Torn>>) = {}
  BY Bounds DEF Swallowed
<1>6. InOrder(spool', Done' \cup FaultsIn(inflight))
  <2>1. InOrder(spool, Done \cup FaultsIn(inflight))
    BY DEF SpoolInv, OrderInv
  <2>2. InOrder(<<Torn>>, (Done \cup FaultsIn(inflight)) \cup FaultsIn(spool))
    BY <1>3 DEF InOrder
  <2>3. InOrder(spool', (Done \cup FaultsIn(inflight)) \cup Swallowed(spool, <<Torn>>))
    BY <1>2, <1>3, <2>1, <2>2, ConcatOrder
  <2> QED BY <1>1, <1>5, <2>3 DEF Done
<1>7. Once(spool', retried)
  <2>1. Once(spool, retried) /\ Once(<<Torn>>, retried) /\ FaultsIn(spool) \cap FaultsIn(<<Torn>>) \subseteq retried
    BY <1>3 DEF SpoolInv, OnceInv, Once
  <2> QED BY <1>2, <1>3, <2>1, ConcatOnce
<1>8. NothingForgotten' /\ FaultsIn(spool') \cap reported \subseteq retried
  BY <1>1, <1>4 DEF SpoolInv, NothingForgotten, Stored, RepeatInv
<1>9. FaultsIn(spool') \subseteq 1 .. spooled'
  BY <1>1, <1>4 DEF SpoolInv, KnownInv
<1> QED BY <1>1, <1>2, <1>4, <1>6, <1>7, <1>8, <1>9, EndsKeeps

LEMMA KilledKeeps ==
  ASSUME SpoolInv, Killed
  PROVE  SpoolInv'
<1>1. /\ Ends /\ kills' \in 0 .. MaxKills
      /\ UNCHANGED <<spool, inflight, spooled, reported, lost>>
  BY Bounds DEF Killed, EndsSilently, Fault, Ends, SpoolInv, SpoolTypeOK
<1>2. SpoolTypeOK /\ spool \in Lines /\ spooled \in 0 .. MaxFaults /\ spooled <= spooled /\ lost \subseteq Faults
  BY Types, Bounds DEF SpoolInv, SpoolTypeOK
<1>3. InOrder(spool', Done' \cup FaultsIn(inflight)) /\ Once(spool', retried)
  BY <1>1 DEF SpoolInv, OrderInv, OnceInv, Done
<1>4. NothingForgotten' /\ FaultsIn(spool') \cap reported \subseteq retried
  BY <1>1 DEF SpoolInv, NothingForgotten, Stored, RepeatInv
<1>5. FaultsIn(spool') \subseteq 1 .. spooled'
  BY <1>1 DEF SpoolInv, KnownInv
<1> QED BY <1>1, <1>2, <1>3, <1>4, <1>5, EndsKeeps

LEMMA KilledInWriteBackKeeps ==
  ASSUME SpoolInv, KilledInWriteBack
  PROVE  SpoolInv'
<1>1. /\ Ends /\ kills' \in 0 .. MaxKills /\ spool' = <<>> /\ lost' = lost \cup FaultsIn(spool)
      /\ UNCHANGED <<inflight, spooled, reported>>
  BY Bounds DEF KilledInWriteBack, WriteBackIsCut, EndsSilently, Fault, Ends, SpoolInv, SpoolTypeOK
<1>2. SpoolTypeOK /\ spool \in Lines /\ spooled \in 0 .. MaxFaults /\ spooled <= spooled /\ lost \subseteq Faults
  BY Types, Bounds DEF SpoolInv, SpoolTypeOK
<1>3. spool' \in Lines /\ Readable(spool') = {} /\ FaultsIn(spool') = {}
  BY <1>1, EmptyFile
<1>4. lost' \subseteq Faults
  BY <1>1, <1>2, FileParts
<1>5. InOrder(spool', Done' \cup FaultsIn(inflight)) /\ Once(spool', retried)
  BY <1>3 DEF InOrder, Once
<1>6. NothingForgotten'
  BY <1>1, <1>3 DEF SpoolInv, NothingForgotten, Stored
<1> QED BY <1>1, <1>2, <1>3, <1>4, <1>5, <1>6, EndsKeeps

-----------------------------------------------------------------------------
(***************************************************************************)
(* The steps of the worker that leave the files alone                      *)
(***************************************************************************)

LEMMA RestStands ==
  ASSUME SpoolInv, pc # "unlink", pc' # "unlink",
         UNCHANGED <<spool, inflight, late, seen, reported, overtaken, repeats, spooled>>,
         lost \subseteq lost', retried \subseteq retried'
  PROVE  /\ KnownInv' /\ OrderInv' /\ SeenInv' /\ OnceInv'
         /\ NothingForgotten' /\ OldestFirst' /\ RepeatsNeedAFault'
<1>1. Done \subseteq Done'
  BY DEF Done
<1>2. OrderInv' /\ OnceInv' /\ NothingForgotten'
  BY <1>1, FilesStand DEF OrderInv, OnceInv
<1>3. KnownInv' /\ SeenInv' /\ OldestFirst' /\ RepeatsNeedAFault'
  BY DEF SpoolInv, KnownInv, SeenInv, OldestFirst, RepeatsNeedAFault
<1> QED BY <1>2, <1>3

\* While no upload was accepted, a fault in flight that was reported is retried.
LEMMA NoneAccepted ==
  ASSUME SpoolInv, answer # "accepted"
  PROVE  /\ \A i \in Readable(inflight) : inflight[i] \in reported => inflight[i] \in retried
         /\ FaultsIn(inflight) \cap reported \subseteq retried
<1>1. \A i \in Readable(inflight) : inflight[i] \in reported => inflight[i] \in retried
  BY DEF SpoolInv, RepeatInv
<1>2. inflight \in Lines
  BY Types DEF SpoolInv
<1> QED BY <1>1, <1>2, FileParts

LEMMA RestartKeeps ==
  ASSUME SpoolInv, Restart
  PROVE  SpoolInv'
<1>1. /\ pc = "serve" /\ pc' = "down" /\ cut' = 0 /\ answer' = NoAnswer /\ round' = 0
      /\ UNCHANGED <<spool, inflight, late, seen, reported, overtaken, repeats, spooled, kills,
                     lost, retried>>
  BY DEF Restart, fileVars, hubVars
<1>2. SpoolTypeOK /\ AnswerInv /\ inflight \in Lines
  BY Types DEF SpoolInv
<1>3. 0 \in 0 .. Len(inflight)
  BY <1>2, FileParts
<1>4. SpoolTypeOK'
  BY <1>1, <1>2, <1>3, Bounds, Answers DEF SpoolTypeOK
<1>5. UploadInv' /\ AnswerInv' /\ OwedInv'
  BY <1>1 DEF UploadInv, Uploading, AnswerInv, OwedInv
<1>6. RepeatInv'
  <2>1. \A i \in Readable(inflight) : inflight[i] \in reported => inflight[i] \in retried
    BY <1>1, <1>2, NoneAccepted, Answers DEF AnswerInv
  <2> QED BY <1>1, <2>1 DEF SpoolInv, RepeatInv
<1> QED BY <1>1, <1>4, <1>5, <1>6, RestStands, Holds

LEMMA BootKeeps ==
  ASSUME SpoolInv, Boot
  PROVE  SpoolInv'
<1>1. /\ pc = "down" /\ pc' = "drain"
      /\ UNCHANGED <<spool, inflight, cut, answer, round, late, seen, reported, overtaken, repeats,
                     spooled, kills, lost, retried>>
  BY DEF Boot, fileVars, uploadVars, hubVars
<1>2. SpoolTypeOK'
  BY <1>1 DEF SpoolInv, SpoolTypeOK, Request
<1>3. UploadInv' /\ AnswerInv' /\ OwedInv'
  BY <1>1, Bounds DEF SpoolInv, UploadInv, Uploading, AnswerInv, OwedInv
<1>4. RepeatInv'
  BY <1>1 DEF SpoolInv, RepeatInv
<1> QED BY <1>1, <1>2, <1>3, <1>4, RestStands, Holds

LEMMA HubRefusesKeeps ==
  ASSUME SpoolInv, HubRefuses
  PROVE  SpoolInv'
<1>1. /\ pc = "await" /\ answer = NoAnswer /\ answer' = "refused"
      /\ UNCHANGED <<spool, inflight, pc, cut, round, late, seen, reported, overtaken, repeats,
                     spooled, kills, lost, retried>>
  BY DEF HubRefuses, fileVars, hubVars
<1>2. SpoolTypeOK'
  BY <1>1 DEF SpoolInv, SpoolTypeOK, Request
<1>3. UploadInv' /\ AnswerInv' /\ OwedInv'
  BY <1>1 DEF SpoolInv, UploadInv, Uploading, AnswerInv, OwedInv
<1>4. RepeatInv'
  <2>1. \A i \in Readable(inflight) : inflight[i] \in reported => inflight[i] \in retried
    BY <1>1, NoneAccepted, Answers
  <2> QED BY <1>1, <2>1 DEF SpoolInv, RepeatInv
<1> QED BY <1>1, <1>2, <1>3, <1>4, RestStands, Holds

LEMMA AnsweredKeeps ==
  ASSUME SpoolInv, Answered
  PROVE  SpoolInv'
<1>1. /\ pc = "await" /\ answer # NoAnswer
      /\ pc' = IF answer = "refused" THEN "restore" ELSE "commit"
      /\ lost' = IF answer = "rejected" THEN lost \cup FaultsIn(Request) ELSE lost
      /\ UNCHANGED <<spool, inflight, cut, answer, round, late, seen, reported, overtaken, repeats,
                     spooled, kills, retried>>
  BY DEF Answered, fileVars, uploadVars, hubVars
<1>2. SpoolTypeOK /\ UploadInv /\ OwedInv /\ Uploading /\ Request' = Request
  BY <1>1 DEF SpoolInv, Uploading, Request
<1>3. Request \in Lines
  BY <1>2, RequestIs
<1>4. FaultsIn(Request) \subseteq Faults
  BY <1>3, FileParts
<1>5. SpoolTypeOK'
  BY <1>1, <1>2, <1>4 DEF SpoolTypeOK
<1>6. UploadInv'
  BY <1>1, <1>2 DEF UploadInv, Uploading
<1>7. AnswerInv'
  BY <1>1, <1>2, Answers DEF AnswerInv, SpoolTypeOK
<1>8. OwedInv'
  <2>1. answer \in {"accepted", "rejected", "refused"}
    BY <1>1, <1>2, Answers DEF SpoolTypeOK
  <2>2. answer = "accepted" => FaultsIn(Request) \subseteq Done'
    BY <1>1, <1>2 DEF OwedInv, Done
  <2>3. answer = "rejected" => FaultsIn(Request) \subseteq Done'
    BY <1>1 DEF Done
  <2> QED BY <1>1, <1>2, <2>1, <2>2, <2>3 DEF OwedInv
<1>9. RepeatInv'
  BY <1>1 DEF SpoolInv, RepeatInv
<1> QED BY <1>1, <1>5, <1>6, <1>7, <1>8, <1>9, RestStands, Holds

LEMMA GivesUpKeeps ==
  ASSUME SpoolInv, GivesUp
  PROVE  SpoolInv'
<1>1. /\ pc = "await" /\ pc' = "restore" /\ answer' = NoAnswer
      /\ late' = IF answer = NoAnswer THEN Request ELSE late
      /\ retried' = retried \cup FaultsIn(Request)
      /\ UNCHANGED <<spool, inflight, cut, round, seen, reported, overtaken, repeats, spooled, kills,
                     lost>>
  BY DEF GivesUp, fileVars
<1>2. SpoolTypeOK /\ UploadInv /\ Uploading /\ Request' = Request
  BY <1>1 DEF SpoolInv, Uploading, Request
<1>3. /\ Request \in Lines /\ InOrder(Request, Done) /\ FaultsIn(Request) \subseteq FaultsIn(inflight)
  BY <1>2, RequestIs
<1>4. FaultsIn(Request) \subseteq Faults /\ late \in Lines /\ inflight \in Lines /\ retried \subseteq Faults
  BY <1>2, <1>3, FileParts, Types
<1>5. FaultsIn(late) \subseteq retried /\ InOrder(late, Done) /\ KnownInv
  BY DEF SpoolInv, RepeatInv, OrderInv
<1>6. /\ late' \in Lines /\ FaultsIn(late') \subseteq retried' /\ InOrder(late', Done)
      /\ FaultsIn(late') \subseteq FaultsIn(late) \cup FaultsIn(inflight)
  <2>1. CASE answer = NoAnswer
    BY <1>1, <1>3, <2>1
  <2>2. CASE answer # NoAnswer
    BY <1>1, <1>4, <1>5, <2>2
  <2> QED BY <2>1, <2>2
<1>7. SpoolTypeOK'
  BY <1>1, <1>2, <1>4, <1>6, Answers DEF SpoolTypeOK
<1>8. UploadInv' /\ AnswerInv' /\ OwedInv'
  BY <1>1, <1>2 DEF UploadInv, Uploading, AnswerInv, OwedInv
<1>9. KnownInv'
  BY <1>1, <1>5, <1>6 DEF KnownInv
<1>10. Done' = Done /\ retried \subseteq retried'
  BY <1>1 DEF Done
<1>11. OrderInv' /\ OnceInv' /\ NothingForgotten'
  <2>1. InOrder(late', Done')
    BY <1>6, <1>10
  <2> QED BY <1>1, <1>10, <2>1, FilesStand DEF OrderInv, OnceInv
<1>12. SeenInv' /\ OldestFirst' /\ RepeatsNeedAFault'
  BY <1>1 DEF SpoolInv, SeenInv, OldestFirst, RepeatsNeedAFault
<1>13. RepeatInv'
  <2>1. ASSUME NEW i \in Readable(inflight), inflight[i] \in reported \ retried'
        PROVE  FALSE
    <3>1. i <= cut /\ cut \in 0 .. Len(inflight)
      BY <1>1, <1>2, <2>1 DEF SpoolInv, RepeatInv, SpoolTypeOK
    <3>2. i \in Readable(Request) /\ Request[i] = inflight[i]
      BY <1>4, <3>1, Prefix DEF Request
    <3> QED BY <1>1, <1>3, <2>1, <3>2, FileParts
  <2>2. FaultsIn(spool) \cap reported \subseteq retried'
    BY <1>1 DEF SpoolInv, RepeatInv
  <2> QED BY <1>1, <1>6, <2>1, <2>2 DEF RepeatInv
<1> QED BY <1>7, <1>8, <1>9, <1>11, <1>12, <1>13, Holds

\* A step that changes no variable keeps the invariant.
LEMMA StutterKeeps ==
  ASSUME SpoolInv, UNCHANGED vars
  PROVE  SpoolInv'
<1>1. UNCHANGED <<spool, inflight, pc, cut, answer, round, late, seen, reported, overtaken, repeats,
                  spooled, kills, lost, retried>>
  BY DEF vars, fileVars, uploadVars, hubVars
<1>2. SpoolTypeOK' /\ UploadInv' /\ AnswerInv' /\ KnownInv' /\ OwedInv'
  BY <1>1 DEF SpoolInv, SpoolTypeOK, Request, UploadInv, Uploading, AnswerInv, KnownInv, OwedInv, Done
<1>3. OrderInv' /\ SeenInv' /\ RepeatInv' /\ OnceInv'
  BY <1>1 DEF SpoolInv, OrderInv, Done, SeenInv, RepeatInv, OnceInv
<1>4. NothingForgotten' /\ OldestFirst' /\ RepeatsNeedAFault'
  BY <1>1 DEF SpoolInv, NothingForgotten, Stored, OldestFirst, RepeatsNeedAFault
<1> QED BY <1>2, <1>3, <1>4, Holds

-----------------------------------------------------------------------------
(***************************************************************************)
(* The steps of the worker that move faults between the files              *)
(***************************************************************************)

LEMMA DrainKeeps ==
  ASSUME SpoolInv, Drain
  PROVE  SpoolInv'
<1>1. /\ pc = "drain"
      /\ inflight' = IF ClaimsSpool THEN spool ELSE inflight
      /\ spool' = IF ClaimsSpool THEN <<>> ELSE spool
      /\ cut' = Cut(inflight')
      /\ pc' = CASE inflight' = <<>>                              -> "serve"
                 [] inflight' # <<>> /\ Readable(inflight') = {}  -> "unlink"
                 [] OTHER                                         -> "await"
      /\ UNCHANGED <<answer, round, late, seen, reported, overtaken, repeats, spooled, kills, lost,
                     retried>>
  BY DEF Drain, hubVars
<1>2. /\ SpoolTypeOK /\ AnswerInv /\ UploadInv /\ KnownInv /\ OrderInv /\ RepeatInv /\ OnceInv
      /\ spool \in Lines /\ inflight \in Lines
      /\ answer = NoAnswer /\ answer # "accepted"
  BY <1>1, Types, Answers DEF SpoolInv, AnswerInv
<1>3. /\ inflight' \in Lines /\ spool' \in Lines
      /\ FaultsIn(inflight') \cup FaultsIn(spool') = FaultsIn(inflight) \cup FaultsIn(spool)
      /\ InOrder(inflight', Done) /\ InOrder(spool', Done \cup FaultsIn(inflight'))
      /\ Once(inflight', retried) /\ Once(spool', retried)
      /\ FaultsIn(spool') \cap FaultsIn(inflight') \subseteq retried
      /\ FaultsIn(inflight') \cap reported \subseteq retried
      /\ FaultsIn(spool') \cap reported \subseteq retried
  <2>0. /\ <<>> \in Lines /\ Readable(<<>>) = {} /\ FaultsIn(<<>>) = {}
        /\ FaultsIn(inflight) \cap reported \subseteq retried
        /\ FaultsIn(spool) \cap reported \subseteq retried
    BY <1>2, EmptyFile, NoneAccepted DEF RepeatInv
  <2>1. CASE inflight = <<>>
    <3>1. inflight' = spool /\ spool' = <<>>
      BY <1>1, <2>1 DEF ClaimsSpool
    <3>2. InOrder(spool, Done)
      BY <1>2, <2>0, <2>1 DEF OrderInv
    <3> QED BY <1>2, <2>0, <2>1, <3>1, <3>2 DEF OnceInv, InOrder, Once
  <2>2. CASE inflight # <<>>
    <3>1. inflight' = inflight /\ spool' = spool
      BY <1>1, <2>2 DEF ClaimsSpool
    <3> QED BY <1>1, <1>2, <2>0, <3>1 DEF OrderInv, OnceInv
  <2> QED BY <2>1, <2>2
<1>4. /\ IsCut(inflight', cut') /\ cut' \in 0 .. Len(inflight')
      /\ Readable(inflight') # {} =>
           Cardinality({i \in Readable(inflight') : i <= cut'}) \in 1 .. BatchCap
  BY <1>1, <1>3, CutIs DEF IsCut
<1>5. /\ pc' \in {"serve", "unlink", "await"}
      /\ pc' = "unlink" => Readable(inflight') = {}
      /\ pc' = "await" => Readable(inflight') # {}
  BY <1>1, EmptyFile
<1>6. pc' = "await" => Cardinality(Readable(Request')) \in 1 .. BatchCap
  <2>1. Readable(Upto(inflight', cut')) = {i \in Readable(inflight') : i <= cut'}
    BY <1>3, <1>4, Prefix
  <2> QED BY <1>4, <1>5, <2>1 DEF Request
<1>7. SpoolTypeOK'
  BY <1>1, <1>2, <1>3, <1>4, <1>5, <1>6 DEF SpoolTypeOK
<1>8. UploadInv' /\ AnswerInv'
  BY <1>1, <1>2, <1>5 DEF UploadInv, Uploading, AnswerInv
<1>9. KnownInv'
  BY <1>1, <1>2, <1>3 DEF KnownInv
<1>10. Readable(inflight') = {} => FaultsIn(inflight') = {}
  BY DEF FaultsIn
<1>11. OwedInv'
  BY <1>1, <1>2, <1>5, <1>10, Answers DEF OwedInv
<1>12. Done' = Done /\ InOrder(late, Done)
  BY <1>1, <1>2 DEF Done, OrderInv
<1>13. OrderInv'
  <2>1. pc' = "unlink" => InOrder(spool', Done)
    <3> SUFFICES ASSUME pc' = "unlink" PROVE InOrder(spool', Done)
      OBVIOUS
    <3>1. Done \cup FaultsIn(inflight') = Done
      BY <1>5, <1>10
    <3> QED BY <1>3, <3>1
  <2> QED BY <1>1, <1>3, <1>12, <2>1 DEF OrderInv
<1>14. RepeatInv'
  <2>1. \A i \in Readable(inflight') : inflight'[i] \in FaultsIn(inflight')
    BY <1>3, FileParts
  <2>2. \A i \in Readable(inflight') : inflight'[i] \notin reported \ retried
    BY <1>3, <2>1
  <2> QED BY <1>1, <1>2, <1>3, <2>2 DEF RepeatInv
<1>15. OnceInv'
  BY <1>1, <1>3 DEF OnceInv
<1>16. SeenInv' /\ OldestFirst' /\ RepeatsNeedAFault'
  BY <1>1 DEF SpoolInv, SeenInv, OldestFirst, RepeatsNeedAFault
<1>17. NothingForgotten'
  BY <1>1, <1>3 DEF SpoolInv, NothingForgotten, Stored
<1> QED BY <1>7, <1>8, <1>9, <1>11, <1>13, <1>14, <1>15, <1>16, <1>17, Holds

LEMMA CommitKeeps ==
  ASSUME SpoolInv, Commit
  PROVE  SpoolInv'
<1>1. /\ pc = "commit" /\ pc' = "unlink" /\ spool' = Join(Owed, spool)
      /\ UNCHANGED <<inflight, cut, answer, round, late, seen, reported, overtaken, repeats, spooled,
                     kills, lost, retried>>
  BY DEF Commit, WriteBackAhead, Join, uploadVars, hubVars
<1>2. /\ SpoolTypeOK /\ UploadInv /\ KnownInv /\ OwedInv /\ OrderInv /\ RepeatInv /\ OnceInv
      /\ Uploading /\ spool \in Lines
  BY <1>1, Types DEF SpoolInv, Uploading
<1>3. /\ Owed \in Lines /\ ~EndsTorn(Owed)
      /\ FaultsIn(inflight) = FaultsIn(Request) \cup FaultsIn(Owed)
      /\ InOrder(Owed, Done \cup FaultsIn(Request)) /\ Once(Owed, retried)
      /\ FaultsIn(Owed) \cap reported \subseteq retried
  BY <1>2, RequestIs
<1>4. FaultsIn(Request) \subseteq Done /\ Done' = Done /\ Swallowed(Owed, spool) = {}
  BY <1>1, <1>2, <1>3 DEF OwedInv, Done, Swallowed
<1>5. /\ FaultsIn(Owed) \subseteq FaultsIn(spool') /\ FaultsIn(spool) \subseteq FaultsIn(spool')
      /\ FaultsIn(spool') \subseteq FaultsIn(Owed) \cup FaultsIn(spool)
  BY <1>1, <1>2, <1>3, <1>4, ConcatFaults
<1>6. spool' \in Lines
  BY <1>1, <1>2, <1>3, Concat
<1>7. InOrder(spool', Done)
  <2>1. Done \cup FaultsIn(Request) = Done /\ Done \cup FaultsIn(inflight) = Done \cup FaultsIn(Owed)
    BY <1>3, <1>4
  <2>2. InOrder(Owed, Done) /\ InOrder(spool, Done \cup FaultsIn(Owed))
    BY <1>2, <1>3, <2>1 DEF OrderInv
  <2>3. InOrder(spool', Done \cup Swallowed(Owed, spool))
    BY <1>1, <1>2, <1>3, <2>2, ConcatOrder
  <2> QED BY <1>4, <2>3
<1>8. Once(spool', retried)
  <2>1. Once(spool, retried) /\ FaultsIn(Owed) \cap FaultsIn(spool) \subseteq retried
    BY <1>1, <1>2, <1>3 DEF OnceInv
  <2> QED BY <1>1, <1>2, <1>3, <2>1, ConcatOnce
<1>9. SpoolTypeOK'
  BY <1>1, <1>2, <1>6 DEF SpoolTypeOK
<1>10. UploadInv' /\ AnswerInv'
  BY <1>1, <1>2 DEF UploadInv, Uploading, AnswerInv
<1>11. KnownInv'
  BY <1>1, <1>2, <1>3, <1>5 DEF KnownInv
<1>12. OwedInv'
  BY <1>1, <1>3, <1>4, <1>5 DEF OwedInv
<1>13. OrderInv'
  <2>1. InOrder(spool', Done \cup FaultsIn(inflight))
    BY <1>7, OrderMono
  <2> QED BY <1>1, <1>2, <1>4, <1>7, <2>1 DEF OrderInv
<1>14. RepeatInv'
  BY <1>1, <1>2, <1>3, <1>5 DEF RepeatInv
<1>15. OnceInv'
  BY <1>1, <1>2, <1>8 DEF OnceInv
<1>16. SeenInv' /\ OldestFirst' /\ RepeatsNeedAFault'
  BY <1>1 DEF SpoolInv, SeenInv, OldestFirst, RepeatsNeedAFault
<1>17. NothingForgotten'
  BY <1>1, <1>5 DEF SpoolInv, NothingForgotten, Stored
<1> QED BY <1>9, <1>10, <1>11, <1>12, <1>13, <1>14, <1>15, <1>16, <1>17, Holds

LEMMA RestoreKeeps ==
  ASSUME SpoolInv, Restore
  PROVE  SpoolInv'
<1>1. /\ pc = "restore" /\ spool' = Join(inflight, spool)
      /\ lost' = lost \cup Swallowed(inflight, spool)
      /\ UNCHANGED <<round, late, seen, reported, overtaken, repeats, spooled, kills, retried>>
  BY DEF Restore, WriteBackAhead, Join, hubVars
<1>2. \/ pc' = "serve" /\ inflight' = <<>> /\ cut' = 0 /\ answer' = NoAnswer
      \/ pc' = "unlink" /\ UNCHANGED <<inflight, cut, answer>>
  BY DEF Restore, uploadVars
<1>3. /\ SpoolTypeOK /\ UploadInv /\ AnswerInv /\ KnownInv /\ OrderInv /\ RepeatInv /\ OnceInv
      /\ spool \in Lines /\ inflight \in Lines /\ lost \subseteq Faults
      /\ FaultsIn(inflight) \cap reported \subseteq retried
      /\ <<>> \in Lines /\ Readable(<<>>) = {} /\ FaultsIn(<<>>) = {} /\ Len(<<>>) = 0
  BY <1>1, Types, NoneAccepted, EmptyFile, Answers DEF SpoolInv, AnswerInv
<1>4. /\ FaultsIn(inflight) \subseteq FaultsIn(spool')
      /\ FaultsIn(spool') \subseteq FaultsIn(inflight) \cup FaultsIn(spool)
      /\ FaultsIn(spool) \subseteq FaultsIn(spool') \cup Swallowed(inflight, spool)
  BY <1>1, <1>3, ConcatFaults
<1>5. spool' \in Lines
  BY <1>1, <1>3, Concat
<1>6. Done' = Done \cup Swallowed(inflight, spool) /\ lost' \subseteq Faults
  BY <1>1, <1>3 DEF Done, Swallowed
<1>7. InOrder(spool', Done')
  BY <1>1, <1>3, <1>6, ConcatOrder DEF OrderInv
<1>8. Once(spool', retried)
  BY <1>1, <1>3, ConcatOnce DEF OnceInv
<1>9. inflight' \in {<<>>, inflight} /\ FaultsIn(inflight') \subseteq FaultsIn(inflight)
  BY <1>2, <1>3
<1>10. SpoolTypeOK'
  <2>1. CASE pc' = "serve" /\ inflight' = <<>> /\ cut' = 0 /\ answer' = NoAnswer
    <3>1. inflight' \in Lines /\ cut' \in 0 .. Len(inflight') /\ answer' \in {"none"}
      BY <1>3, <2>1, Answers
    <3> QED BY <1>1, <1>3, <1>5, <1>6, <2>1, <3>1 DEF SpoolTypeOK
  <2>2. CASE pc' = "unlink" /\ UNCHANGED <<inflight, cut, answer>>
    BY <1>1, <1>3, <1>5, <1>6, <2>2 DEF SpoolTypeOK
  <2> QED BY <1>2, <2>1, <2>2
<1>11. UploadInv' /\ AnswerInv'
  BY <1>1, <1>2, <1>3 DEF UploadInv, Uploading, AnswerInv
<1>12. KnownInv'
  BY <1>1, <1>3, <1>4, <1>9 DEF KnownInv
<1>13. OwedInv'
  BY <1>2, <1>4 DEF OwedInv
<1>14. OrderInv'
  <2>1. InOrder(inflight, Done') /\ InOrder(late, Done') /\ InOrder(spool', Done' \cup FaultsIn(inflight'))
    BY <1>3, <1>6, <1>7, OrderMono DEF OrderInv
  <2>2. InOrder(inflight', Done')
    BY <1>3, <1>9, <2>1 DEF InOrder
  <2> QED BY <1>1, <1>7, <2>1, <2>2 DEF OrderInv
<1>15. RepeatInv'
  <2>1. FaultsIn(spool') \cap reported \subseteq retried
    BY <1>3, <1>4 DEF RepeatInv
  <2>2. \A i \in Readable(inflight') : inflight'[i] \notin reported \ retried
    <3>1. inflight' \in Lines
      BY <1>3, <1>9
    <3>2. \A i \in Readable(inflight') : inflight'[i] \in FaultsIn(inflight')
      BY <3>1, FileParts
    <3> QED BY <1>3, <1>9, <3>2
  <2> QED BY <1>1, <1>3, <2>1, <2>2 DEF RepeatInv
<1>16. OnceInv'
  <2>1. Once(inflight', retried)
    BY <1>3, <1>9 DEF OnceInv, Once
  <2>2. pc' # "unlink" => FaultsIn(inflight') = {}
    BY <1>2, <1>3
  <2> QED BY <1>1, <1>8, <2>1, <2>2 DEF OnceInv
<1>17. SeenInv' /\ OldestFirst' /\ RepeatsNeedAFault'
  BY <1>1 DEF SpoolInv, SeenInv, OldestFirst, RepeatsNeedAFault
<1>18. NothingForgotten'
  BY <1>1, <1>4 DEF SpoolInv, NothingForgotten, Stored
<1> QED BY <1>10, <1>11, <1>12, <1>13, <1>14, <1>15, <1>16, <1>17, <1>18, Holds

LEMMA UnlinkKeeps ==
  ASSUME SpoolInv, Unlink
  PROVE  SpoolInv'
<1>1. /\ pc = "unlink" /\ inflight' = <<>> /\ cut' = 0 /\ answer' = NoAnswer /\ round' = round + 1
      /\ pc' \in {"drain", "serve"} /\ (pc' = "drain" => round' < MaxBatches)
      /\ UNCHANGED <<spool, late, seen, reported, overtaken, repeats, spooled, kills, lost, retried>>
  BY DEF Unlink, NextBatch, hubVars
<1>2. /\ SpoolTypeOK /\ UploadInv /\ KnownInv /\ OwedInv /\ OrderInv /\ RepeatInv /\ OnceInv
      /\ round \in Nat
      /\ <<>> \in Lines /\ Readable(<<>>) = {} /\ FaultsIn(<<>>) = {} /\ Len(<<>>) = 0
  BY Types, EmptyFile DEF SpoolInv
<1>3. round' \in 0 .. MaxBatches
  BY <1>1, <1>2, Bounds DEF UploadInv, Uploading
<1>4. SpoolTypeOK'
  BY <1>1, <1>2, <1>3, Answers DEF SpoolTypeOK
<1>5. UploadInv' /\ AnswerInv' /\ OwedInv'
  BY <1>1 DEF UploadInv, Uploading, AnswerInv, OwedInv
<1>6. KnownInv'
  BY <1>1, <1>2 DEF KnownInv
<1>7. OrderInv'
  <2>1. InOrder(spool, Done) /\ InOrder(late, Done) /\ Done' = Done
    BY <1>1, <1>2 DEF OrderInv, Done
  <2> QED BY <1>1, <1>2, <2>1 DEF OrderInv, InOrder
<1>8. RepeatInv' /\ OnceInv'
  BY <1>1, <1>2 DEF RepeatInv, OnceInv, Once
<1>9. SeenInv' /\ OldestFirst' /\ RepeatsNeedAFault'
  BY <1>1 DEF SpoolInv, SeenInv, OldestFirst, RepeatsNeedAFault
<1>10. NothingForgotten'
  BY <1>1, <1>2 DEF SpoolInv, NothingForgotten, Stored, OwedInv, Done
<1> QED BY <1>4, <1>5, <1>6, <1>7, <1>8, <1>9, <1>10, Holds

\* A file operation that fails is counted.
LEMMA FaultIs ==
  ASSUME SpoolInv, Fault
  PROVE  kills' \in 0 .. MaxKills
<1>1. kills \in 0 .. MaxKills
  BY DEF SpoolInv, SpoolTypeOK
<1> QED BY <1>1, Bounds DEF Fault

LEMMA DrainFailsKeeps ==
  ASSUME SpoolInv, DrainFails
  PROVE  SpoolInv'
<1>1. /\ pc = "drain" /\ pc' = "serve" /\ cut' = 0
      /\ \/ UNCHANGED <<spool, inflight>>
         \/ inflight = <<>> /\ inflight' = spool /\ spool' = <<>>
      /\ UNCHANGED <<answer, round, late, seen, reported, overtaken, repeats, spooled, lost, retried>>
  BY DEF DrainFails, ClaimsSpool, fileVars, hubVars
<1>2. /\ SpoolTypeOK /\ AnswerInv /\ UploadInv /\ KnownInv /\ OrderInv /\ RepeatInv /\ OnceInv
      /\ spool \in Lines /\ inflight \in Lines /\ kills' \in 0 .. MaxKills
      /\ answer = NoAnswer /\ answer # "accepted"
  BY <1>1, FaultIs, Types, Answers DEF SpoolInv, AnswerInv, DrainFails
<1>3. /\ inflight' \in Lines /\ spool' \in Lines
      /\ FaultsIn(inflight') \cup FaultsIn(spool') = FaultsIn(inflight) \cup FaultsIn(spool)
      /\ InOrder(inflight', Done) /\ InOrder(spool', Done \cup FaultsIn(inflight'))
      /\ Once(inflight', retried) /\ Once(spool', retried)
      /\ FaultsIn(spool') \cap FaultsIn(inflight') \subseteq retried
      /\ FaultsIn(inflight') \cap reported \subseteq retried
      /\ FaultsIn(spool') \cap reported \subseteq retried
  <2>0. /\ <<>> \in Lines /\ Readable(<<>>) = {} /\ FaultsIn(<<>>) = {}
        /\ FaultsIn(inflight) \cap reported \subseteq retried
        /\ FaultsIn(spool) \cap reported \subseteq retried
    BY <1>2, EmptyFile, NoneAccepted DEF RepeatInv
  <2>1. CASE inflight = <<>> /\ inflight' = spool /\ spool' = <<>>
    <3>1. InOrder(spool, Done)
      BY <1>2, <2>0, <2>1 DEF OrderInv
    <3> QED BY <1>2, <2>0, <2>1, <3>1 DEF OnceInv, InOrder, Once
  <2>2. CASE UNCHANGED <<spool, inflight>>
    BY <1>1, <1>2, <2>0, <2>2 DEF OrderInv, OnceInv
  <2> QED BY <1>1, <2>1, <2>2
<1>4. 0 \in 0 .. Len(inflight')
  BY <1>3, FileParts
<1>5. SpoolTypeOK'
  BY <1>1, <1>2, <1>3, <1>4 DEF SpoolTypeOK
<1>6. UploadInv' /\ AnswerInv' /\ OwedInv'
  BY <1>1, <1>2, Answers DEF UploadInv, Uploading, AnswerInv, OwedInv
<1>7. KnownInv'
  BY <1>1, <1>2, <1>3 DEF KnownInv
<1>8. Done' = Done /\ InOrder(late, Done)
  BY <1>1, <1>2 DEF Done, OrderInv
<1>9. OrderInv'
  BY <1>1, <1>3, <1>8 DEF OrderInv
<1>10. RepeatInv'
  <2>1. \A i \in Readable(inflight') : inflight'[i] \in FaultsIn(inflight')
    BY <1>3, FileParts
  <2>2. \A i \in Readable(inflight') : inflight'[i] \notin reported \ retried
    BY <1>3, <2>1
  <2> QED BY <1>1, <1>2, <1>3, <2>2 DEF RepeatInv
<1>11. OnceInv'
  BY <1>1, <1>3 DEF OnceInv
<1>12. SeenInv' /\ OldestFirst' /\ RepeatsNeedAFault'
  BY <1>1 DEF SpoolInv, SeenInv, OldestFirst, RepeatsNeedAFault
<1>13. NothingForgotten'
  BY <1>1, <1>3 DEF SpoolInv, NothingForgotten, Stored
<1> QED BY <1>5, <1>6, <1>7, <1>9, <1>10, <1>11, <1>12, <1>13, Holds

LEMMA FileFailsKeeps ==
  ASSUME SpoolInv, FileFails
  PROVE  SpoolInv'
<1>1. /\ pc \in {"commit", "restore", "unlink"}
      /\ cut' = 0 /\ answer' = NoAnswer /\ round' = round + 1
      /\ pc' \in {"drain", "serve"} /\ (pc' = "drain" => round' < MaxBatches)
      /\ retried' = retried \cup FaultsIn(inflight)
      /\ \/ UNCHANGED <<spool, lost>>
         \/ spool' = <<>> /\ lost' = lost \cup FaultsIn(spool)
      /\ UNCHANGED <<inflight, late, seen, reported, overtaken, repeats, spooled>>
  BY DEF FileFails, WriteBackIsCut, NextBatch, hubVars
<1>2. /\ SpoolTypeOK /\ UploadInv /\ KnownInv /\ OrderInv /\ RepeatInv /\ OnceInv
      /\ spool \in Lines /\ inflight \in Lines /\ round \in Nat /\ lost \subseteq Faults
      /\ kills' \in 0 .. MaxKills /\ Uploading
      /\ <<>> \in Lines /\ Readable(<<>>) = {} /\ FaultsIn(<<>>) = {}
  BY <1>1, FaultIs, Types, EmptyFile DEF SpoolInv, SpoolTypeOK, FileFails, Uploading
<1>3. /\ FaultsIn(spool) \subseteq Faults /\ FaultsIn(inflight) \subseteq Faults
      /\ 0 \in 0 .. Len(inflight)
      /\ \A i \in Readable(inflight) : inflight[i] \in FaultsIn(inflight)
  BY <1>2, FileParts
<1>4. /\ spool' \in Lines /\ FaultsIn(spool') \subseteq FaultsIn(spool)
      /\ lost \subseteq lost' /\ lost' \subseteq Faults
      /\ FaultsIn(spool) \subseteq FaultsIn(spool') \cup lost'
  BY <1>1, <1>2, <1>3
<1>5. Done \subseteq Done' /\ retried \subseteq retried'
  BY <1>1, <1>4 DEF Done
<1>6. InOrder(spool', Done' \cup FaultsIn(inflight)) /\ Once(spool', retried')
  <2>1. CASE UNCHANGED <<spool, lost>>
    <3>1. InOrder(spool, Done \cup FaultsIn(inflight)) /\ Once(spool, retried)
      BY <1>2 DEF OrderInv, OnceInv
    <3>2. InOrder(spool, Done' \cup FaultsIn(inflight)) /\ Once(spool, retried')
      BY <1>5, <3>1, OrderMono, OnceMono
    <3> QED BY <2>1, <3>2
  <2>2. CASE spool' = <<>>
    BY <1>2, <2>2 DEF InOrder, Once
  <2> QED BY <1>1, <2>1, <2>2
<1>7. round' \in 0 .. MaxBatches
  BY <1>1, <1>2, Bounds DEF UploadInv
<1>8. SpoolTypeOK'
  <2>1. retried' \subseteq Faults /\ answer' \in {"none"}
    BY <1>1, <1>2, <1>3, Answers DEF SpoolTypeOK
  <2> QED BY <1>1, <1>2, <1>3, <1>4, <1>7, <2>1 DEF SpoolTypeOK
<1>9. UploadInv' /\ AnswerInv' /\ OwedInv'
  BY <1>1, Answers DEF UploadInv, Uploading, AnswerInv, OwedInv
<1>10. KnownInv'
  BY <1>1, <1>2, <1>4 DEF KnownInv
<1>11. OrderInv'
  <2>1. InOrder(inflight, Done) /\ InOrder(late, Done)
    BY <1>2 DEF OrderInv
  <2>2. InOrder(inflight, Done') /\ InOrder(late, Done')
    BY <1>5, <2>1, OrderMono
  <2> QED BY <1>1, <1>6, <2>2 DEF OrderInv
<1>12. RepeatInv'
  BY <1>1, <1>2, <1>3, <1>4, <1>5 DEF RepeatInv
<1>13. OnceInv'
  <2>1. Once(inflight, retried)
    BY <1>2 DEF OnceInv
  <2>2. Once(inflight, retried')
    BY <1>5, <2>1, OnceMono
  <2> QED BY <1>1, <1>6, <2>2 DEF OnceInv
<1>14. SeenInv' /\ OldestFirst' /\ RepeatsNeedAFault'
  BY <1>1, <1>4, <1>5 DEF SpoolInv, SeenInv, OldestFirst, RepeatsNeedAFault
<1>15. NothingForgotten'
  BY <1>1, <1>4 DEF SpoolInv, NothingForgotten, Stored
<1> QED BY <1>8, <1>9, <1>10, <1>11, <1>12, <1>13, <1>14, <1>15, Holds

-----------------------------------------------------------------------------
(***************************************************************************)
(* The theorems                                                            *)
(***************************************************************************)

\* The invariant the others follow from: wherever an unreported fault may be, the
\* older ones come first or are dealt with before, and it is in two places only if
\* an upload of it was not seen to succeed or could not be discarded.
THEOREM SpoolInvariant == Spec => []SpoolInv
<1>1. SpoolInv /\ [Next]_vars => SpoolInv'
  <2> SUFFICES ASSUME SpoolInv, [Next]_vars PROVE SpoolInv'
    OBVIOUS
  <2>1. CASE CrashSpooled BY <2>1, CrashSpooledKeeps
  <2>2. CASE CrashTorn BY <2>2, CrashTornKeeps
  <2>3. CASE Killed BY <2>3, KilledKeeps
  <2>4. CASE KilledInWriteBack BY <2>4, KilledInWriteBackKeeps
  <2>5. CASE Restart BY <2>5, RestartKeeps
  <2>6. CASE Boot BY <2>6, BootKeeps
  <2>7. CASE Drain BY <2>7, DrainKeeps
  <2>8. CASE HubRefuses BY <2>8, HubRefusesKeeps
  <2>9. CASE Answered BY <2>9, AnsweredKeeps
  <2>10. CASE GivesUp BY <2>10, GivesUpKeeps
  <2>11. CASE Commit BY <2>11, CommitKeeps
  <2>12. CASE Restore BY <2>12, RestoreKeeps
  <2>13. CASE Unlink BY <2>13, UnlinkKeeps
  <2>14. CASE \E h \in Hubs : HubReads(h) BY <2>14, HubReadsKeeps
  <2>15. CASE \E h \in Hubs : HubReadsLate(h) BY <2>15, HubReadsLateKeeps
  <2>16. CASE DrainFails BY <2>16, DrainFailsKeeps
  <2>17. CASE FileFails BY <2>17, FileFailsKeeps
  <2>18. CASE UNCHANGED vars BY <2>18, StutterKeeps
  <2> QED BY <2>1, <2>2, <2>3, <2>4, <2>5, <2>6, <2>7, <2>8, <2>9, <2>10, <2>11, <2>12, <2>13,
             <2>14, <2>15, <2>16, <2>17, <2>18 DEF Next
<1> QED BY InitHolds, <1>1, PTL DEF Spec

\* Every variable keeps its type: in particular a batch never holds more records
\* than MAX_DRAIN_RECORDS, and never none, and a dedupe set never more than
\* SEEN_LIMIT ids.
THEOREM SpoolTypeCorrect == Spec => []SpoolTypeOK
<1>1. SpoolInv => SpoolTypeOK
  BY DEF SpoolInv
<1> QED BY SpoolInvariant, <1>1, PTL

\* No spooled fault is forgotten, wherever the process dies between the renames,
\* the write-backs and the removal of the in-flight file.
THEOREM NothingIsForgotten == Spec => []NothingForgotten
<1>1. SpoolInv => NothingForgotten
  BY DEF SpoolInv
<1> QED BY SpoolInvariant, <1>1, PTL

\* Faults are first reported in the order in which they happened, whatever was
\* written back, sent again or read late; only a dropped fault is overtaken.
THEOREM OldestComesFirst == Spec => []OldestFirst
<1>1. SpoolInv => OldestFirst
  BY DEF SpoolInv
<1> QED BY SpoolInvariant, <1>1, PTL

\* A fault is reported twice only if the worker had not seen an upload of it
\* succeed before, or could not discard what it had uploaded: commitSpool's catch
\* goes on with the in-flight file in place.
THEOREM RepeatsComeFromRetries == Spec => []RepeatsNeedAFault
<1>1. SpoolInv => RepeatsNeedAFault
  BY DEF SpoolInv
<1> QED BY SpoolInvariant, <1>1, PTL
=============================================================================
