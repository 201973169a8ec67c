------------------------------ MODULE Checkin_proofs ------------------------------
(***************************************************************************)
(* Proofs about Checkin, for any directory and any number of processes.    *)
(* The handler of an object is a flattened sequence of the steps of its    *)
(* files; what it holds is found by induction on the files. The invariant  *)
(* says of every process what its place, the rest of its handler and its   *)
(* history mean, of every process that nobody disturbed what the server    *)
(* has of its objects, and of every object what nobody may have done to    *)
(* it. A step changes one process: what is to be shown of that process is  *)
(* said for its stopping, its skipping an object, its next step of a       *)
(* handler and its next group; all others see at most another server, and  *)
(* are then disturbed.                                                     *)
(***************************************************************************)
EXTENDS Checkin, WellFoundedInduction, TLAPS

-----------------------------------------------------------------------------
(* Induction over natural numbers, and what a flattened sequence is. *)
LEMMA Least ==
    ASSUME NEW T \in SUBSET Nat, T # {}
    PROVE  \E n \in T : \A m \in T : n <= m
<1> DEFINE less == OpToRel(<, Nat)
<1>1. \E n \in T : \A m \in T : ~(<<m, n>> \in less)
  BY NatLessThanWellFounded, WFMin
<1>2. ASSUME NEW m \in Nat, NEW n \in Nat, m < n PROVE <<m, n>> \in less
  BY <1>2 DEF OpToRel
<1> HIDE DEF less
<1>3. PICK n \in T : \A m \in T : ~(<<m, n>> \in less)
  BY <1>1
<1>4. ASSUME NEW m \in T, m < n PROVE FALSE
  BY <1>2, <1>3, <1>4
<1> QED
  BY <1>4

\* Induction from 1 up to n.
LEMMA InductionTo ==
    ASSUME NEW n \in Nat \ {0}, NEW T \in SUBSET (1 .. n), 1 \in T,
           \A k \in T : k < n => k + 1 \in T
    PROVE  n \in T
<1> SUFFICES ASSUME n \notin T PROVE FALSE
  OBVIOUS
<1> DEFINE R == (1 .. n) \ T
<1>1. PICK m \in R : \A k \in R : m <= k
  <2>1. R \in SUBSET Nat /\ n \in R
    OBVIOUS
  <2> HIDE DEF R
  <2> QED
    BY <2>1, Least
<1>2. m # 1 /\ m - 1 \in 1 .. n /\ ~(m <= m - 1)
  OBVIOUS
<1>3. m - 1 \in T /\ m - 1 < n
  BY <1>1, <1>2
<1> QED
  BY <1>1, <1>3

\* A flattened sequence grows by one of its sequences after the other.
LEMMA Flattened ==
    ASSUME NEW n \in Nat \ {0}, NEW seqs, Len(seqs) = n
    PROVE  \E h : /\ h[1] = seqs[1]
                  /\ \A i \in 1 .. n : i < n => h[i + 1] = h[i] \o seqs[i + 1]
                  /\ FlattenSeq(seqs) = h[n]
<1> DEFINE Grows(k, h) == h = [i \in 1 .. k |-> IF i = 1 THEN seqs[i] ELSE h[i - 1] \o seqs[i]]
           T == {k \in 1 .. n : \E h : Grows(k, h)}
           flat == CHOOSE h : Grows(n, h)
<1>1. 1 \in T
  <2>1. Grows(1, [i \in 1 .. 1 |-> seqs[i]])
    OBVIOUS
  <2>2. \E h : Grows(1, h)
    BY <2>1
  <2> HIDE DEF Grows
  <2> QED
    BY <2>2
<1>2. ASSUME NEW k \in T, k < n PROVE k + 1 \in T
  <2>0. k \in 1 .. n
    OBVIOUS
  <2>1. PICK h : Grows(k, h)
    OBVIOUS
  <2> DEFINE hh == [i \in 1 .. k + 1 |-> IF i = k + 1 THEN h[k] \o seqs[k + 1] ELSE h[i]]
  <2>2. ASSUME NEW i \in 1 .. k + 1
        PROVE  hh[i] = IF i = 1 THEN seqs[i] ELSE hh[i - 1] \o seqs[i]
    <3>1. CASE i = k + 1
      <4>0. i # 1 /\ i - 1 = k /\ k \in 1 .. k + 1 /\ k # k + 1
        BY <2>0, <3>1
      <4>1. hh[i] = h[k] \o seqs[i]
        BY <3>1
      <4>2. hh[k] = h[k]
        BY <4>0
      <4> HIDE DEF hh
      <4> QED
        BY <4>0, <4>1, <4>2
    <3>2. CASE i # k + 1 /\ i # 1
      <4>1. i \in 1 .. k /\ i - 1 \in 1 .. k /\ i - 1 # k + 1 /\ i - 1 \in 1 .. k + 1
        BY <1>2, <3>2
      <4>2. h[i] = h[i - 1] \o seqs[i]
        BY <2>1, <3>2, <4>1
      <4>3. hh[i] = h[i] /\ hh[i - 1] = h[i - 1]
        BY <3>2, <4>1
      <4> HIDE DEF hh
      <4> QED
        BY <3>2, <4>2, <4>3
    <3>3. CASE i # k + 1 /\ i = 1
      <4>1. i \in 1 .. k
        BY <1>2, <3>3
      <4>2. h[i] = seqs[i]
        BY <2>1, <3>3, <4>1
      <4>3. hh[i] = h[i]
        BY <3>3
      <4> HIDE DEF hh
      <4> QED
        BY <3>3, <4>2, <4>3
    <3> QED
      BY <3>1, <3>2, <3>3
  <2>3. hh = [i \in 1 .. k + 1 |-> hh[i]]
    OBVIOUS
  <2> HIDE DEF hh
  <2>4. Grows(k + 1, hh)
    BY <2>2, <2>3
  <2>5. \E f : Grows(k + 1, f)
    BY <2>4
  <2> HIDE DEF Grows
  <2> QED
    BY <1>2, <2>5
<1>3. n \in T
  <2>1. T \in SUBSET (1 .. n)
    OBVIOUS
  <2> HIDE DEF T
  <2> QED
    BY <1>1, <1>2, <2>1, InductionTo
<1>4. Grows(n, flat)
  BY <1>3
<1>5. FlattenSeq(seqs) = flat[n]
  BY DEF FlattenSeq
<1> HIDE DEF flat
<1>6. ASSUME NEW i \in 1 .. n, i < n PROVE flat[i + 1] = flat[i] \o seqs[i + 1]
  <2>1. i + 1 \in 1 .. n /\ i + 1 # 1 /\ (i + 1) - 1 = i
    BY <1>6
  <2> QED
    BY <1>4, <2>1
<1>7. flat[1] = seqs[1]
  BY <1>4
<1> QED
  BY <1>5, <1>6, <1>7

-----------------------------------------------------------------------------
(* The handler of an object, and what is left of it. *)
Steps == [do: {"create", "part", "push", "write", "raise"},
          part: (UNION {Parts(o) : o \in Objects}) \cup {None}]

Fits(o, step) ==
    /\ step.do \in {"part", "push", "write"} => step.part \in Parts(o)
    /\ step.do = "raise" => disk[o] = "badpart"

\* The object is created at the beginning only.
Shape(o, s) == \A k \in DOMAIN s : Fits(o, s[k]) /\ (s[k].do = "create" => k = 1)

\* A part of a function group is created before it is edited.
Order(o, s, has) ==
    \A k \in DOMAIN s :
        s[k].do \in {"write", "push"} /\ Kind[o] = "fugr" =>
            \/ has[s[k].part] # "none"
            \/ \E j \in 1 .. (k - 1) : s[j] = [do |-> "part", part |-> s[k].part]

\* Every part is written, unless a bad file ends the handler.
Cover(s, has, parts) ==
    \/ \E k \in DOMAIN s : s[k].do = "raise"
    \/ \A p \in parts :
          has[p] = "file" \/ \E k \in DOMAIN s : s[k] = [do |-> "write", part |-> p]

\* These hold of the steps of the files whatever the object has before them.
Ordered(o, s) ==
    \A k \in DOMAIN s :
        s[k].do \in {"write", "push"} /\ Kind[o] = "fugr" =>
            \E j \in 1 .. (k - 1) : s[j] = [do |-> "part", part |-> s[k].part]
Covers(s, parts) ==
    \/ \E k \in DOMAIN s : s[k].do = "raise"
    \/ \A p \in parts : \E k \in DOMAIN s : s[k] = [do |-> "write", part |-> p]
Good(o, s, parts) ==
    /\ s \in Seq(Steps)
    /\ \A k \in DOMAIN s : Fits(o, s[k]) /\ s[k].do # "create"
    /\ Ordered(o, s)
    /\ Covers(s, parts)

LEMMA GoodJoin ==
    ASSUME NEW o, NEW s, NEW t, NEW P, NEW Q, Good(o, s, P), Good(o, t, Q)
    PROVE  Good(o, s \o t, P \cup Q)
<1> DEFINE u == s \o t
<1>1. /\ s \in Seq(Steps) /\ t \in Seq(Steps) /\ u \in Seq(Steps)
      /\ Len(s) \in Nat /\ Len(t) \in Nat /\ Len(u) = Len(s) + Len(t)
      /\ DOMAIN u = 1 .. Len(u) /\ DOMAIN s = 1 .. Len(s) /\ DOMAIN t = 1 .. Len(t)
  BY DEF Good
<1>2. /\ \A k \in DOMAIN s : k \in DOMAIN u /\ u[k] = s[k]
      /\ \A k \in DOMAIN t : k + Len(s) \in DOMAIN u /\ u[k + Len(s)] = t[k]
      /\ \A k \in DOMAIN u : k \in DOMAIN s \/ (k - Len(s) \in DOMAIN t /\ u[k] = t[k - Len(s)])
  BY <1>1
<1> HIDE DEF u
<1>3. \A k \in DOMAIN u : Fits(o, u[k]) /\ u[k].do # "create"
  BY <1>2 DEF Good
<1>4. Ordered(o, u)
  <2> SUFFICES ASSUME NEW k \in DOMAIN u, u[k].do \in {"write", "push"}, Kind[o] = "fugr"
               PROVE  \E j \in 1 .. (k - 1) : u[j] = [do |-> "part", part |-> u[k].part]
    BY DEF Ordered
  <2>1. CASE k \in DOMAIN s
    <3>1. PICK j \in 1 .. (k - 1) : s[j] = [do |-> "part", part |-> s[k].part]
      BY <1>2, <2>1 DEF Good, Ordered
    <3>2. j \in DOMAIN s
      BY <1>1, <2>1
    <3> QED
      BY <1>2, <2>1, <3>1, <3>2
  <2>2. CASE k - Len(s) \in DOMAIN t /\ u[k] = t[k - Len(s)]
    <3>1. PICK j \in 1 .. (k - Len(s) - 1) : t[j] = [do |-> "part", part |-> t[k - Len(s)].part]
      BY <2>2 DEF Good, Ordered
    <3>2. j \in DOMAIN t /\ j + Len(s) \in 1 .. (k - 1)
      BY <1>1, <2>2
    <3> QED
      BY <1>2, <2>2, <3>1, <3>2
  <2> QED
    BY <1>2, <2>1, <2>2
<1>5. Covers(u, P \cup Q)
  <2>1. (\E k \in DOMAIN s : s[k].do = "raise") \/ (\E k \in DOMAIN t : t[k].do = "raise")
        => \E k \in DOMAIN u : u[k].do = "raise"
    BY <1>2
  <2>2. ASSUME \A p \in P : \E k \in DOMAIN s : s[k] = [do |-> "write", part |-> p],
               \A p \in Q : \E k \in DOMAIN t : t[k] = [do |-> "write", part |-> p],
               NEW p \in P \cup Q
        PROVE  \E k \in DOMAIN u : u[k] = [do |-> "write", part |-> p]
    BY <1>2, <2>2
  <2> QED
    BY <2>1, <2>2 DEF Good, Covers
<1> QED
  BY <1>1, <1>3, <1>4, <1>5 DEF Good, u

LEMMA JoinTwo ==
    ASSUME NEW a, NEW b
    PROVE  <<a>> \o <<>> \o <<b>> = <<a, b>>
<1> DEFINE S == {a, b}
           u == <<a>> \o <<>> \o <<b>>
           v == <<a, b>>
<1>1. <<a>> \in Seq(S) /\ <<b>> \in Seq(S) /\ <<a>> \o <<>> = <<a>>
  OBVIOUS
<1>2. u \in Seq(S) /\ Len(u) = 2 /\ u[1] = a /\ u[2] = b
  BY <1>1
<1>3. v \in Seq(S) /\ Len(v) = 2 /\ v[1] = a /\ v[2] = b
  OBVIOUS
<1> HIDE DEF u, v
<1>4. DOMAIN u = 1 .. 2 /\ DOMAIN v = 1 .. 2 /\ \A i \in 1 .. 2 : u[i] = v[i]
  BY <1>2, <1>3
<1>5. u = [i \in 1 .. 2 |-> u[i]] /\ v = [i \in 1 .. 2 |-> v[i]]
  BY <1>2, <1>3, <1>4
<1>6. u = v
  BY <1>4, <1>5
<1> QED
  BY <1>6 DEF u, v

LEMMA JoinAt ==
    ASSUME NEW S, NEW s \in Seq(S), NEW t \in Seq(S)
    PROVE  /\ s \o t \in Seq(S) /\ Len(s \o t) = Len(s) + Len(t)
           /\ \A i \in 1 .. Len(s) + Len(t) :
                  (s \o t)[i] = IF i <= Len(s) THEN s[i] ELSE t[i - Len(s)]
OBVIOUS

LEMMA JoinThree ==
    ASSUME NEW a, NEW b, NEW c
    PROVE  <<a>> \o <<b>> \o <<c>> = <<a, b, c>>
<1> DEFINE S == {a, b, c}
           s == <<a>> \o <<b>>
           u == s \o <<c>>
           v == <<a, b, c>>
<1>1. <<a>> \in Seq(S) /\ <<b>> \in Seq(S) /\ <<c>> \in Seq(S)
  OBVIOUS
<1>2. s \in Seq(S) /\ Len(s) = 2 /\ s[1] = a /\ s[2] = b
  BY <1>1
<1> HIDE DEF s
<1>3. u \in Seq(S) /\ Len(u) = 3 /\ u[1] = a /\ u[2] = b /\ u[3] = c
  <2> DEFINE t == <<c>>
  <2>1. t \in Seq(S) /\ Len(t) = 1 /\ t[1] = c
    OBVIOUS
  <2>2. u = s \o t
    OBVIOUS
  <2> HIDE DEF t, u
  <2>3. u \in Seq(S) /\ Len(u) = Len(s) + Len(t)
    BY <1>2, <2>1, <2>2, JoinAt
  <2>4. \A i \in 1 .. 3 : u[i] = IF i <= 2 THEN s[i] ELSE t[i - 2]
    BY <1>2, <2>1, <2>2, JoinAt
  <2>5. u[1] = s[1] /\ u[2] = s[2] /\ u[3] = t[1]
    BY <2>4
  <2> QED
    BY <1>2, <2>1, <2>3, <2>5
<1>4. v \in Seq(S) /\ Len(v) = 3 /\ v[1] = a /\ v[2] = b /\ v[3] = c
  OBVIOUS
<1> HIDE DEF u, v
<1>5. DOMAIN u = 1 .. 3 /\ DOMAIN v = 1 .. 3 /\ \A i \in 1 .. 3 : u[i] = v[i]
  BY <1>3, <1>4
<1>6. u = [i \in 1 .. 3 |-> u[i]] /\ v = [i \in 1 .. 3 |-> v[i]]
  BY <1>3, <1>4, <1>5
<1>7. u = v
  BY <1>5, <1>6
<1> QED
  BY <1>7 DEF u, v, s

LEMMA FixedSteps ==
    /\ [do |-> "create", part |-> None] \in Steps
    /\ [do |-> "raise", part |-> None] \in Steps
<1> DEFINE P == (UNION {Parts(o) : o \in Objects}) \cup {None}
<1>1. None \in P
  OBVIOUS
<1>2. Steps = [do: {"create", "part", "push", "write", "raise"}, part: P]
  BY DEF Steps
<1> HIDE DEF P
<1> QED
  BY <1>1, <1>2

LEMMA GoodPart ==
    ASSUME NEW o \in Objects, NEW p \in Parts(o)
    PROVE  Good(o, PartSteps(o, p), {p} \cap Known(o))
<1>1. \A d \in {"create", "part", "push", "write", "raise"} : [do |-> d, part |-> p] \in Steps
  BY DEF Steps
<1>2. ASSUME NEW d \in {"part", "push", "write"}
      PROVE  Fits(o, [do |-> d, part |-> p]) /\ d # "create"
  BY DEF Fits
<1>0. CASE p \notin Known(o)
  <2> DEFINE s == <<>>
  <2>1. PartSteps(o, p) = s /\ {p} \cap Known(o) = {}
    BY <1>0 DEF PartSteps
  <2>2. s \in Seq(Steps) /\ DOMAIN s = {}
    OBVIOUS
  <2> HIDE DEF s
  <2> QED
    BY <2>1, <2>2 DEF Good, Ordered, Covers
<1>3. CASE p \in Known(o) /\ Kind[o] # "fugr"
  <2> DEFINE s == <<[do |-> "write", part |-> p]>>
  <2>1. PartSteps(o, p) = s
    BY <1>3 DEF PartSteps
  <2>2. s \in Seq(Steps) /\ DOMAIN s = 1 .. 1 /\ s[1] = [do |-> "write", part |-> p]
    BY <1>1
  <2> HIDE DEF s
  <2>3. \A k \in DOMAIN s : s[k] = [do |-> "write", part |-> p]
    BY <2>2
  <2> QED
    BY <1>2, <1>3, <2>1, <2>2, <2>3 DEF Good, Ordered, Covers
<1>4. CASE p \in Known(o) /\ Kind[o] = "fugr" /\ p \notin Remote
  <2> DEFINE s == <<[do |-> "part", part |-> p], [do |-> "write", part |-> p]>>
  <2>1. PartSteps(o, p) = s
    <3>1. PartSteps(o, p) = <<[do |-> "part", part |-> p]>> \o <<>> \o <<[do |-> "write", part |-> p]>>
      BY <1>4 DEF PartSteps
    <3> QED
      BY <3>1, JoinTwo
  <2>2. s \in Seq(Steps) /\ DOMAIN s = 1 .. 2 /\ s[1] = [do |-> "part", part |-> p]
        /\ s[2] = [do |-> "write", part |-> p]
    BY <1>1
  <2> HIDE DEF s
  <2>3. \A k \in DOMAIN s : k = 1 \/ k = 2
    BY <2>2
  <2>4. Ordered(o, s)
    <3> SUFFICES ASSUME NEW k \in DOMAIN s, s[k].do \in {"write", "push"}
                 PROVE  \E j \in 1 .. (k - 1) : s[j] = [do |-> "part", part |-> s[k].part]
      BY DEF Ordered
    <3>1. k = 2 /\ 1 \in 1 .. (k - 1)
      BY <2>2, <2>3
    <3> QED
      BY <2>2, <3>1
  <2>5. Covers(s, {p} \cap Known(o))
    BY <2>2 DEF Covers
  <2>6. \A k \in DOMAIN s : Fits(o, s[k]) /\ s[k].do # "create"
    BY <1>2, <2>2, <2>3
  <2> QED
    BY <2>1, <2>2, <2>4, <2>5, <2>6 DEF Good
<1>5. CASE p \in Known(o) /\ Kind[o] = "fugr" /\ p \in Remote
  <2> DEFINE s == <<[do |-> "part", part |-> p], [do |-> "push", part |-> p],
                    [do |-> "write", part |-> p]>>
  <2>1. PartSteps(o, p) = s
    <3>1. PartSteps(o, p) = <<[do |-> "part", part |-> p]>> \o <<[do |-> "push", part |-> p]>>
                            \o <<[do |-> "write", part |-> p]>>
      BY <1>5 DEF PartSteps
    <3> QED
      BY <3>1, JoinThree
  <2>2. s \in Seq(Steps) /\ DOMAIN s = 1 .. 3 /\ s[1] = [do |-> "part", part |-> p]
        /\ s[2] = [do |-> "push", part |-> p] /\ s[3] = [do |-> "write", part |-> p]
    BY <1>1
  <2> HIDE DEF s
  <2>3. \A k \in DOMAIN s : k = 1 \/ k = 2 \/ k = 3
    BY <2>2
  <2>4. Ordered(o, s)
    <3> SUFFICES ASSUME NEW k \in DOMAIN s, s[k].do \in {"write", "push"}
                 PROVE  \E j \in 1 .. (k - 1) : s[j] = [do |-> "part", part |-> s[k].part]
      BY DEF Ordered
    <3>1. (k = 2 \/ k = 3) /\ 1 \in 1 .. (k - 1)
      BY <2>2, <2>3
    <3> QED
      BY <2>2, <3>1
  <2>5. Covers(s, {p} \cap Known(o))
    BY <2>2 DEF Covers
  <2>6. \A k \in DOMAIN s : Fits(o, s[k]) /\ s[k].do # "create"
    BY <1>2, <2>2, <2>3
  <2> QED
    BY <2>1, <2>2, <2>4, <2>5, <2>6 DEF Good
<1> QED
  BY <1>0, <1>3, <1>4, <1>5

LEMMA GoodRaise ==
    ASSUME NEW o \in Objects, NEW P, disk[o] = "badpart"
    PROVE  Good(o, <<[do |-> "raise", part |-> None]>>, P)
<1> DEFINE s == <<[do |-> "raise", part |-> None]>>
<1>0. [do |-> "raise", part |-> None] \in Steps
  BY FixedSteps
<1>1. s \in Seq(Steps) /\ DOMAIN s = 1 .. 1 /\ s[1] = [do |-> "raise", part |-> None]
  BY <1>0
<1> HIDE DEF s
<1>2. \A k \in DOMAIN s : s[k] = [do |-> "raise", part |-> None]
  BY <1>1
<1> QED
  BY <1>1, <1>2 DEF Good, Ordered, Covers, Fits, s

LEMMA GoodFiles ==
    ASSUME NEW o \in Objects
    PROVE  Good(o, FileSteps(o), Known(o))
<1> DEFINE n == Len(Sources[o])
           Chunk(i) == IF i = n /\ disk[o] = "badpart" THEN <<[do |-> "raise", part |-> None]>>
                       ELSE PartSteps(o, Sources[o][i])
           seqs == [i \in DOMAIN Sources[o] |-> Chunk(i)]
           First(i) == {Sources[o][j] : j \in 1 .. i} \cap Known(o)
<1>1. n \in Nat \ {0} /\ DOMAIN Sources[o] = 1 .. n /\ \A i \in 1 .. n : Sources[o][i] \in Parts(o)
  <2>1. Sources[o] \in Seq(Parts(o)) /\ Sources[o] # <<>>
    BY DirectoryAssumption
  <2> QED
    BY <2>1
<1>2. ASSUME NEW i \in 1 .. n PROVE Good(o, Chunk(i), {Sources[o][i]} \cap Known(o))
  BY <1>1, GoodPart, GoodRaise
<1>3. Len(seqs) = n /\ \A i \in 1 .. n : seqs[i] = Chunk(i)
  BY <1>1
<1>4. FileSteps(o) = FlattenSeq(seqs)
  BY DEF FileSteps
<1>5. First(n) = Known(o) /\ First(1) = {Sources[o][1]} \cap Known(o)
  <2>1. {Sources[o][j] : j \in 1 .. n} = Parts(o) /\ Known(o) \subseteq Parts(o)
    BY <1>1 DEF Parts, ToSet, Known
  <2>2. {Sources[o][j] : j \in 1 .. 1} = {Sources[o][1]}
    OBVIOUS
  <2> QED
    BY <2>1, <2>2
<1>6. ASSUME NEW i \in 1 .. n, i < n PROVE First(i) \cup ({Sources[o][i + 1]} \cap Known(o)) = First(i + 1)
  <2>1. {Sources[o][j] : j \in 1 .. i} \cup {Sources[o][i + 1]} = {Sources[o][j] : j \in 1 .. (i + 1)}
    BY <1>6
  <2> QED
    BY <2>1
<1> HIDE DEF n, seqs, First, Chunk
<1>7. PICK h : /\ h[1] = seqs[1]
               /\ \A i \in 1 .. n : i < n => h[i + 1] = h[i] \o seqs[i + 1]
               /\ FlattenSeq(seqs) = h[n]
  <2>1. n \in Nat \ {0} /\ Len(seqs) = n
    BY <1>1, <1>3
  <2> QED
    BY <2>1, Flattened, Zenon
<1> DEFINE T == {i \in 1 .. n : Good(o, h[i], First(i))}
<1>8. 1 \in T
  <2>1. 1 \in 1 .. n
    BY <1>1
  <2> QED
    BY <1>2, <1>3, <1>5, <1>7, <2>1
<1>9. ASSUME NEW i \in T, i < n PROVE i + 1 \in T
  <2>1. i \in 1 .. n /\ i + 1 \in 1 .. n
    BY <1>1, <1>9
  <2>2. Good(o, h[i], First(i)) /\ Good(o, seqs[i + 1], {Sources[o][i + 1]} \cap Known(o))
    BY <1>2, <1>3, <2>1
  <2>3. Good(o, h[i] \o seqs[i + 1], First(i + 1))
    BY <1>6, <1>9, <2>1, <2>2, GoodJoin
  <2> QED
    BY <1>7, <1>9, <2>1, <2>3
<1>10. n \in T
  <2>1. T \in SUBSET (1 .. n)
    OBVIOUS
  <2> HIDE DEF T
  <2> QED
    BY <1>1, <1>8, <1>9, <2>1, InductionTo
<1> QED
  BY <1>4, <1>5, <1>7, <1>10

\* The whole handler: what follows the creation of the object.
LEMMA HandlerIs ==
    ASSUME NEW o \in Objects
    PROVE  /\ Handler(o) \in Seq(Steps) /\ Handler(o) # <<>>
           /\ Head(Handler(o)) = [do |-> "create", part |-> None]
           /\ Shape(o, Handler(o))
           /\ \A has : Order(o, Tail(Handler(o)), has) /\ Cover(Tail(Handler(o)), has, Known(o))
<1> DEFINE s == FileSteps(o)
           u == Handler(o)
<1>1. Good(o, s, Known(o))
  BY GoodFiles
<1>2. s \in Seq(Steps) /\ Len(s) \in Nat
  BY <1>1 DEF Good
<1>3. <<[do |-> "create", part |-> None]>> \in Seq(Steps)
  <2>1. [do |-> "create", part |-> None] \in Steps
    BY FixedSteps
  <2> QED
    BY <2>1
<1>4. u = <<[do |-> "create", part |-> None]>> \o s
  BY DEF Handler
<1> HIDE DEF s, u
<1>5. /\ u \in Seq(Steps) /\ Len(u) = Len(s) + 1 /\ Head(u) = [do |-> "create", part |-> None]
      /\ DOMAIN u = 1 .. Len(s) + 1 /\ DOMAIN s = 1 .. Len(s)
      /\ u[1] = [do |-> "create", part |-> None]
      /\ \A k \in 1 .. Len(s) : u[k + 1] = s[k]
  BY <1>2, <1>3, <1>4
<1>6. Tail(u) = s
  BY <1>2, <1>5
<1>7. \A k \in DOMAIN u : k = 1 \/ (k - 1 \in DOMAIN s /\ u[k] = s[k - 1])
  BY <1>2, <1>5
<1>8. Shape(o, u)
  BY <1>1, <1>5, <1>7 DEF Shape, Good, Fits
<1>9. ASSUME NEW has PROVE Order(o, s, has) /\ Cover(s, has, Known(o))
  BY <1>1 DEF Order, Cover, Good, Ordered, Covers
<1>10. u # <<>>
  BY <1>2, <1>5
<1> QED
  BY <1>5, <1>6, <1>8, <1>9, <1>10 DEF u

\* After the first step, which is neither a bad file nor undone by it.
LEMMA ShapeRest ==
    ASSUME NEW o, NEW s \in Seq(Steps), s # <<>>, Shape(o, s)
    PROVE  /\ Tail(s) \in Seq(Steps) /\ Shape(o, Tail(s))
           /\ \A k \in DOMAIN Tail(s) : Tail(s)[k].do # "create"
           /\ Fits(o, Head(s)) /\ Head(s) \in Steps
<1>1. /\ DOMAIN Tail(s) = 1 .. Len(s) - 1 /\ Tail(s) \in Seq(Steps)
      /\ Len(s) \in Nat /\ Len(s) > 0 /\ DOMAIN s = 1 .. Len(s)
      /\ \A k \in 1 .. Len(s) - 1 : Tail(s)[k] = s[k + 1]
  OBVIOUS
<1>2. \A k \in DOMAIN Tail(s) : Tail(s)[k] = s[k + 1] /\ k + 1 \in DOMAIN s /\ k + 1 # 1
  BY <1>1
<1>3. Head(s) = s[1] /\ 1 \in DOMAIN s /\ s[1] \in Steps
  BY <1>1
<1> QED
  BY <1>1, <1>2, <1>3 DEF Shape

LEMMA OrderRest ==
    ASSUME NEW o, NEW s \in Seq(Steps), s # <<>>, NEW has, NEW new,
           \A k \in DOMAIN s : Fits(o, s[k]),
           Order(o, s, has),
           \A p \in Parts(o) : has[p] # "none" => new[p] # "none",
           Head(s).do = "part" => new[Head(s).part] # "none"
    PROVE  Order(o, Tail(s), new)
<1> DEFINE t == Tail(s)
<1>1. /\ DOMAIN t = 1 .. Len(s) - 1 /\ Head(s) = s[1]
      /\ Len(s) \in Nat /\ Len(s) > 0 /\ DOMAIN s = 1 .. Len(s)
      /\ \A k \in 1 .. Len(s) - 1 : t[k] = s[k + 1]
  OBVIOUS
<1> HIDE DEF t
<1> SUFFICES ASSUME NEW k \in DOMAIN t, t[k].do \in {"write", "push"}, Kind[o] = "fugr"
             PROVE  \/ new[t[k].part] # "none"
                    \/ \E j \in 1 .. (k - 1) : t[j] = [do |-> "part", part |-> t[k].part]
  BY DEF Order, t
<1>2. k + 1 \in DOMAIN s /\ t[k] = s[k + 1]
  BY <1>1
<1>3. t[k].part \in Parts(o)
  BY <1>2 DEF Fits
<1>4. CASE has[t[k].part] # "none"
  BY <1>3, <1>4
<1>5. CASE \E j \in 1 .. k : s[j] = [do |-> "part", part |-> t[k].part]
  <2>1. PICK j \in 1 .. k : s[j] = [do |-> "part", part |-> t[k].part]
    BY <1>5
  <2>2. CASE j = 1
    BY <1>1, <2>1, <2>2
  <2>3. CASE j # 1
    <3>1. j - 1 \in 1 .. (k - 1) /\ j - 1 \in 1 .. Len(s) - 1 /\ (j - 1) + 1 = j
      BY <1>1, <2>3
    <3>2. t[j - 1] = s[j]
      BY <1>1, <3>1
    <3> QED
      BY <2>1, <3>1, <3>2
  <2> QED
    BY <2>2, <2>3
<1>6. (k + 1) - 1 = k
  BY <1>1
<1> QED
  BY <1>2, <1>4, <1>5, <1>6 DEF Order

LEMMA CoverRest ==
    ASSUME NEW s \in Seq(Steps), s # <<>>, NEW has, NEW new, NEW P,
           Cover(s, has, P), Head(s).do # "raise",
           \A p \in P : has[p] = "file" => new[p] = "file",
           Head(s).do = "write" => new[Head(s).part] = "file"
    PROVE  Cover(Tail(s), new, P)
<1> DEFINE t == Tail(s)
<1>1. /\ DOMAIN t = 1 .. Len(s) - 1 /\ Head(s) = s[1]
      /\ Len(s) \in Nat /\ Len(s) > 0 /\ DOMAIN s = 1 .. Len(s)
      /\ \A k \in 1 .. Len(s) - 1 : t[k] = s[k + 1]
  OBVIOUS
<1> HIDE DEF t
<1>2. \A k \in DOMAIN s : k = 1 \/ (k - 1 \in DOMAIN t /\ t[k - 1] = s[k])
  BY <1>1
<1>3. CASE \E k \in DOMAIN s : s[k].do = "raise"
  BY <1>1, <1>2, <1>3 DEF Cover, t
<1>4. CASE \A p \in P : has[p] = "file" \/ \E k \in DOMAIN s : s[k] = [do |-> "write", part |-> p]
  <2>1. ASSUME NEW p \in P
        PROVE  new[p] = "file" \/ \E k \in DOMAIN t : t[k] = [do |-> "write", part |-> p]
    <3>1. CASE has[p] = "file"
      BY <3>1
    <3>2. CASE \E k \in DOMAIN s : s[k] = [do |-> "write", part |-> p]
      <4>1. PICK k \in DOMAIN s : s[k] = [do |-> "write", part |-> p]
        BY <3>2
      <4> QED
        BY <1>1, <1>2, <4>1
    <3> QED
      BY <1>4, <3>1, <3>2
  <2> QED
    BY <2>1 DEF Cover, t
<1> QED
  BY <1>3, <1>4 DEF Cover

-----------------------------------------------------------------------------
(* The invariant. *)
ServerTypes ==
    /\ packages \subseteq Packages
    /\ where \in [Objects -> {"none", "here", "elsewhere"}]
    /\ content \in [Objects -> UNION {[Parts(o) -> {"none", "other", "file"}] : o \in Objects}]
    /\ \A o \in Objects : content[o] \in [Parts(o) -> {"none", "other", "file"}]
    /\ inactive \subseteq Objects

\* TypeOK, and the types of what it does not name.
Types ==
    /\ TypeOK
    /\ ServerTypes
    /\ left \in [Clients -> Seq(Packages)]
    /\ plan \in [Clients -> Seq(Steps)]
    /\ original \in [Objects -> {"none", "here", "elsewhere"}]

Busy == {"steps", "fetch", "delete", "recreate"}
Active == Busy \cup {"objects", "activate", "confirm"}

\* What the place of a process says about the rest of it.
PlaceInv(c) ==
    /\ pc[c] = "done" <=> result[c] # "none"
    /\ group[c] = 4 <=> result[c] = "ok"
    /\ pc[c] \in {"start", "packages"} => group[c] = 1 /\ refs[c] = {}
    /\ pc[c] \in Busy <=> cur[c] # None
    /\ pc[c] \in Busy => cur[c] \in todo[c] /\ plan[c] # <<>>
    /\ pc[c] \in Busy \ {"steps"} => Doing(c) = "create" /\ Kind[cur[c]] = "clas"
    /\ pc[c] \in Active => todo[c] \cup refs[c] \subseteq Group(group[c])
    /\ pc[c] \in Active => Group(group[c]) \subseteq todo[c] \cup refs[c] \cup skipped[c]
    /\ pc[c] \in Active => refs[c] \cap todo[c] = {}
    /\ pc[c] \in {"activate", "confirm"} => todo[c] = {}
    /\ pc[c] = "confirm" => refs[c] \subseteq ioc[c]

PlanInv(c) ==
    cur[c] # None =>
        /\ Shape(cur[c], plan[c])
        /\ Doing(c) = "create" => plan[c] = Handler(cur[c])

\* The packages are created from the first to the last.
PackInv(c) ==
    pc[c] = "packages" =>
        LET n == Len(PackageOrder) - Len(left[c])
        IN  /\ n \in Nat
            /\ \A i \in 1 .. n : PackageOrder[i] \in packages
            /\ \A k \in DOMAIN left[c] : left[c][k] = PackageOrder[n + k]

\* What a process has behind it, as long as nobody else changes the server: the
\* objects of earlier groups are active, and those of this group are referenced.
Handled(c, o) ==
    /\ o \notin skipped[c]
    /\ Rank(o) < group[c] \/ (pc[c] \in Active /\ Rank(o) = group[c] /\ o \notin todo[c])
Complete(o) == where[o] # "none" /\ \A p \in Known(o) : content[o][p] = "file"

HandledInv(c) ==
    \A o \in Objects :
        Handled(c, o) => Complete(o) /\ (o \in inactive => Rank(o) = group[c])
ListsInv(c) ==
    /\ pc[c] \in Active => Exist(refs[c])
    /\ pc[c] = "confirm" => Exist(ioc[c])
Going(o, s) == where[o] # "none" /\ Order(o, s, content[o]) /\ Cover(s, content[o], Known(o))
CurInv(c) ==
    /\ pc[c] \in {"fetch", "delete"} => where[cur[c]] # "none"
    /\ pc[c] = "recreate" => where[cur[c]] = "none"
    /\ pc[c] = "steps" /\ Doing(c) # "create" => Going(cur[c], plan[c])
CalmInv(c) == ~disturbed[c] => HandledInv(c) /\ ListsInv(c) /\ CurInv(c)

\* What is remembered of a process.
Excused(o) ==
    \/ disk[o] # "good"
    \/ Kind[o] = "clas" /\ (original[o] = "elsewhere" \/ Home[o] \notin Capitals)
PastInv(c) ==
    /\ result[c] = "failed" => faulty[c] \/ disturbed[c]
    /\ \A o \in skipped[c] : Excused(o)
    /\ \A o \in removing[c] :
          (pc[c] = "recreate" /\ cur[c] = o) \/ result[c] \in {"failed", "killed"}
    /\ \A o \in Objects : <<c, o>> \in late =>
          o \in removing[c] /\ result[c] = "failed" /\ group[c] = Rank(o)

\* A class of another package: no process goes on with it, or will delete it.
Guest(o) == Kind[o] = "clas" /\ original[o] = "elsewhere"
GuestInv(c) ==
    /\ cur[c] # None /\ Guest(cur[c]) => pc[c] \in {"steps", "fetch"} /\ Doing(c) = "create"
    /\ \A o \in Objects : <<c, o>> \in late => ~Guest(o)

ClientInv(c) ==
    PlaceInv(c) /\ PlanInv(c) /\ PackInv(c) /\ CalmInv(c) /\ PastInv(c) /\ GuestInv(c)

ObjectInv(o) ==
    /\ where[o] = "elsewhere" => original[o] = "elsewhere"
    /\ o \in inactive => where[o] # "none"
    /\ where[o] # "none" /\ Kind[o] # "fugr" => \A p \in Parts(o) : content[o][p] # "none"
    /\ original[o] # "none" /\ where[o] = "none" => \E c \in Clients : o \in removing[c]
    /\ Guest(o) => where[o] = "elsewhere" /\ \A p \in Parts(o) : content[o][p] = "other"

Inv == Types /\ (\A c \in Clients : ClientInv(c)) /\ (\A o \in Objects : ObjectInv(o))

\* The types at a process and at an object.
LEMMA TypesAt ==
    ASSUME Types
    PROVE  /\ \A c \in Clients :
                /\ pc[c] \in {"start", "packages", "objects", "steps", "fetch", "delete",
                              "recreate", "activate", "confirm", "done"}
                /\ left[c] \in Seq(Packages) /\ plan[c] \in Seq(Steps)
                /\ group[c] \in 1 .. 4 /\ group[c] \in Nat
                /\ todo[c] \subseteq Objects /\ refs[c] \subseteq Objects /\ ioc[c] \subseteq Objects
                /\ cur[c] \in Objects \cup {None} /\ skipped[c] \subseteq Objects
                /\ removing[c] \subseteq Objects
                /\ faulty[c] \in BOOLEAN /\ disturbed[c] \in BOOLEAN
                /\ result[c] \in {"none", "ok", "failed", "killed"}
           /\ \A o \in Objects :
                /\ disk[o] \in {"good", "bad", "badpart"}
                /\ where[o] \in {"none", "here", "elsewhere"}
                /\ original[o] \in {"none", "here", "elsewhere"}
                /\ content[o] \in [Parts(o) -> {"none", "other", "file"}]
BY DEF Types, TypeOK, ServerTypes

LEMMA RankIs ==
    ASSUME NEW o \in Objects
    PROVE  /\ Rank(o) \in 1 .. 3 /\ o # None /\ (Kind[o] = "clas" => Rank(o) = 1)
           /\ Kind[o] \in {"intf", "clas", "prog", "fugr"} /\ Home[o] \in Packages
           /\ \A n : o \in Group(n) <=> Rank(o) = n
BY DirectoryAssumption DEF Rank, Group

-----------------------------------------------------------------------------
(* What the server does to one object, and who is disturbed by it. *)
Only(o) ==
    /\ packages' = packages
    /\ \A x \in Objects : x # o =>
          where'[x] = where[x] /\ content'[x] = content[x] /\ (x \in inactive' <=> x \in inactive)

Noticed(c) ==
    /\ disturbed' \in [Clients -> BOOLEAN] /\ disturbed'[c] = disturbed[c]
    /\ \A d \in Clients : disturbed[d] => disturbed'[d]
    /\ \A d \in Clients : d # c =>
          (server' = server /\ disturbed'[d] = disturbed[d]) \/ disturbed'[d] \/ pc[d] = "start"

Served(c) == ServerTypes' /\ Noticed(c) /\ packages \subseteq packages'

LEMMA Disturbs ==
    ASSUME Types, NEW c \in Clients, Disturb(c)
    PROVE  Noticed(c)
<1>1. disturbed \in [Clients -> BOOLEAN]
  BY DEF Types, TypeOK
<1> DEFINE D(d) == disturbed[d] \/ (d # c /\ pc[d] # "start" /\ server' # server)
<1>2. disturbed' = [d \in Clients |-> D(d)]
  BY DEF Disturb
<1>3. \A d \in Clients : D(d) \in BOOLEAN /\ disturbed'[d] = D(d)
  BY <1>1, <1>2
<1>4. disturbed' \in [Clients -> BOOLEAN]
  BY <1>2, <1>3
<1>5. disturbed'[c] = disturbed[c]
  BY <1>1, <1>3
<1>6. ASSUME NEW d \in Clients, d # c
      PROVE  (server' = server /\ disturbed'[d] = disturbed[d]) \/ disturbed'[d] \/ pc[d] = "start"
  BY <1>1, <1>3, <1>6
<1>7. \A d \in Clients : disturbed[d] => disturbed'[d]
  BY <1>3
<1> QED
  BY <1>4, <1>5, <1>6, <1>7 DEF Noticed

LEMMA IdleServes ==
    ASSUME Types, NEW c \in Clients, Idle
    PROVE  Served(c) /\ (\A o : Only(o)) /\ server' = server
BY DEF Idle, server, Served, Noticed, Only, Types, TypeOK, ServerTypes

LEMMA CreateServes ==
    ASSUME Types, NEW c \in Clients, NEW o \in Objects, ServeCreate(c, o)
    PROVE  /\ Served(c) /\ Only(o) /\ where[o] = "none" /\ where'[o] = "here"
           /\ \A p \in Parts(o) : content'[o][p] = IF Kind[o] = "fugr" THEN "none" ELSE "other"
<1> DEFINE new == [p \in Parts(o) |-> IF Kind[o] = "fugr" THEN "none" ELSE "other"]
<1>1. new \in [Parts(o) -> {"none", "other", "file"}]
  OBVIOUS
<1>2. content' = [content EXCEPT ![o] = new] /\ where' = [where EXCEPT ![o] = "here"]
      /\ inactive' = inactive \cup {o} /\ packages' = packages /\ where[o] = "none"
  BY DEF ServeCreate
<1>3. \A p \in Parts(o) : new[p] = IF Kind[o] = "fugr" THEN "none" ELSE "other"
  OBVIOUS
<1> HIDE DEF new
<1>4. ServerTypes'
  BY <1>1, <1>2 DEF Types, ServerTypes
<1>5. Only(o) /\ where'[o] = "here" /\ content'[o] = new
  BY <1>2 DEF Types, ServerTypes, Only
<1>6. Noticed(c)
  BY Disturbs DEF ServeCreate
<1> QED
  BY <1>2, <1>3, <1>4, <1>5, <1>6 DEF Served

LEMMA DeleteServes ==
    ASSUME Types, NEW c \in Clients, NEW o \in Objects, ServeDelete(c, o)
    PROVE  /\ Served(c) /\ Only(o) /\ where[o] # "none" /\ where'[o] = "none"
           /\ o \notin inactive'
<1> DEFINE new == [p \in Parts(o) |-> "none"]
<1>1. new \in [Parts(o) -> {"none", "other", "file"}]
  OBVIOUS
<1>2. content' = [content EXCEPT ![o] = new] /\ where' = [where EXCEPT ![o] = "none"]
      /\ inactive' = inactive \ {o} /\ packages' = packages /\ where[o] # "none"
  BY DEF ServeDelete
<1> HIDE DEF new
<1>4. ServerTypes'
  BY <1>1, <1>2 DEF Types, ServerTypes
<1>5. Only(o) /\ where'[o] = "none"
  BY <1>2 DEF Types, ServerTypes, Only
<1>6. Noticed(c)
  BY Disturbs DEF ServeDelete
<1> QED
  BY <1>2, <1>4, <1>5, <1>6 DEF Served

LEMMA PartServes ==
    ASSUME Types, NEW c \in Clients, NEW o \in Objects, NEW p \in Parts(o),
           NEW text \in {"none", "other", "file"}, ServePart(c, o, p, text)
    PROVE  /\ Served(c) /\ Only(o) /\ where[o] # "none" /\ where' = where
           /\ content'[o][p] = text /\ (text = "file" => content[o][p] # "none")
           /\ \A q \in Parts(o) : q # p => content'[o][q] = content[o][q]
<1> DEFINE new == [content[o] EXCEPT ![p] = text]
<1>0. content[o] \in [Parts(o) -> {"none", "other", "file"}]
  BY DEF Types, ServerTypes
<1>1. /\ new \in [Parts(o) -> {"none", "other", "file"}] /\ new[p] = text
      /\ \A q \in Parts(o) : q # p => new[q] = content[o][q]
  BY <1>0
<1>2. content' = [content EXCEPT ![o] = new] /\ where' = where
      /\ inactive' = inactive \cup {o} /\ packages' = packages /\ where[o] # "none"
      /\ (text = "file" => content[o][p] # "none")
  BY DEF ServePart
<1> HIDE DEF new
<1>4. ServerTypes'
  BY <1>1, <1>2 DEF Types, ServerTypes
<1>5. Only(o) /\ content'[o] = new
  BY <1>2 DEF Types, ServerTypes, Only
<1>6. Noticed(c)
  BY Disturbs DEF ServePart
<1> QED
  BY <1>1, <1>2, <1>4, <1>5, <1>6 DEF Served

LEMMA ActivationServes ==
    ASSUME Types, NEW c \in Clients, NEW done \in SUBSET Objects, Activated(c, done)
    PROVE  /\ Served(c) /\ UNCHANGED <<packages, where, content>> /\ inactive' = inactive \ done
<1>1. inactive' = inactive \ done /\ packages' = packages /\ where' = where /\ content' = content
  BY DEF Activated
<1>2. ServerTypes'
  BY <1>1 DEF Types, ServerTypes
<1>3. Noticed(c)
  BY Disturbs DEF Activated
<1> QED
  BY <1>1, <1>2, <1>3 DEF Served

-----------------------------------------------------------------------------
(* What a process does to itself, pointwise. *)
Places == {"start", "packages", "objects", "steps", "fetch", "delete", "recreate", "activate",
           "confirm", "done"}

\* All but removing and disturbed.
ClientTypes ==
    /\ pc \in [Clients -> Places]
    /\ left \in [Clients -> Seq(Packages)] /\ plan \in [Clients -> Seq(Steps)]
    /\ group \in [Clients -> 1 .. 4] /\ todo \in [Clients -> SUBSET Objects]
    /\ cur \in [Clients -> Objects \cup {None}]
    /\ refs \in [Clients -> SUBSET Objects] /\ ioc \in [Clients -> SUBSET Objects]
    /\ skipped \in [Clients -> SUBSET Objects]
    /\ faulty \in [Clients -> BOOLEAN]
    /\ result \in [Clients -> {"none", "ok", "failed", "killed"}]

Same(d) ==
    /\ pc'[d] = pc[d] /\ left'[d] = left[d] /\ plan'[d] = plan[d] /\ group'[d] = group[d]
    /\ todo'[d] = todo[d] /\ cur'[d] = cur[d] /\ refs'[d] = refs[d] /\ ioc'[d] = ioc[d]
    /\ skipped'[d] = skipped[d] /\ faulty'[d] = faulty[d] /\ result'[d] = result[d]

Moves(c) == ClientTypes' /\ \A d \in Clients : d # c => Same(d)

Stopped(c, r) ==
    /\ pc'[c] = "done" /\ result'[c] = r /\ left'[c] = <<>> /\ plan'[c] = <<>>
    /\ todo'[c] = {} /\ cur'[c] = None /\ refs'[c] = {} /\ ioc'[c] = {}

LEMMA TypesOfClients == Types => ClientTypes
BY DEF Types, TypeOK, ClientTypes, Places

LEMMA ExitIs ==
    ASSUME ClientTypes, NEW c \in Clients, NEW r \in {"ok", "failed", "killed"}, Exit(c, r),
           group' \in [Clients -> 1 .. 4], skipped' = skipped, faulty' \in [Clients -> BOOLEAN],
           \A d \in Clients : d # c => group'[d] = group[d] /\ faulty'[d] = faulty[d]
    PROVE  Moves(c) /\ Stopped(c, r)
<1>1. pc' \in [Clients -> Places] /\ pc'[c] = "done" /\ \A d \in Clients : d # c => pc'[d] = pc[d]
  BY DEF ClientTypes, Exit, Goto, Places
<1>2. /\ result' \in [Clients -> {"none", "ok", "failed", "killed"}] /\ result'[c] = r
      /\ \A d \in Clients : d # c => result'[d] = result[d]
  BY DEF ClientTypes, Exit
<1>3. /\ left' \in [Clients -> Seq(Packages)] /\ left'[c] = <<>>
      /\ \A d \in Clients : d # c => left'[d] = left[d]
  BY DEF ClientTypes, Exit
<1>4. /\ plan' \in [Clients -> Seq(Steps)] /\ plan'[c] = <<>>
      /\ \A d \in Clients : d # c => plan'[d] = plan[d]
  BY DEF ClientTypes, Exit
<1>5. /\ todo' \in [Clients -> SUBSET Objects] /\ todo'[c] = {}
      /\ refs' \in [Clients -> SUBSET Objects] /\ refs'[c] = {}
      /\ ioc' \in [Clients -> SUBSET Objects] /\ ioc'[c] = {}
      /\ cur' \in [Clients -> Objects \cup {None}] /\ cur'[c] = None
      /\ \A d \in Clients : d # c =>
             todo'[d] = todo[d] /\ refs'[d] = refs[d] /\ ioc'[d] = ioc[d] /\ cur'[d] = cur[d]
  BY DEF ClientTypes, Exit
<1>6. skipped' \in [Clients -> SUBSET Objects]
  BY DEF ClientTypes
<1> QED
  BY <1>1, <1>2, <1>3, <1>4, <1>5, <1>6 DEF Moves, Stopped, ClientTypes, Same

LEMMA FailIs ==
    ASSUME ClientTypes, NEW c \in Clients, NEW fault \in BOOLEAN, Fail(c, fault)
    PROVE  /\ Moves(c) /\ Stopped(c, "failed") /\ group' = group /\ skipped' = skipped
           /\ faulty'[c] = (faulty[c] \/ fault)
<1>1. faulty' = [faulty EXCEPT ![c] = faulty[c] \/ fault] /\ faulty[c] \in BOOLEAN
  BY DEF Fail, ClientTypes
<1>2. (faulty[c] \/ fault) \in BOOLEAN
  OBVIOUS
<1>3. /\ faulty' \in [Clients -> BOOLEAN] /\ faulty'[c] = (faulty[c] \/ fault)
      /\ \A d \in Clients : d # c => faulty'[d] = faulty[d]
  <2> DEFINE b == faulty[c] \/ fault
  <2>1. b \in BOOLEAN /\ faulty' = [faulty EXCEPT ![c] = b] /\ faulty \in [Clients -> BOOLEAN]
    BY <1>1 DEF ClientTypes
  <2> HIDE DEF b
  <2>2. /\ faulty' \in [Clients -> BOOLEAN] /\ faulty'[c] = b
        /\ \A d \in Clients : d # c => faulty'[d] = faulty[d]
    BY <2>1
  <2> QED
    BY <2>2 DEF b
<1>4. group' = group /\ skipped' = skipped /\ Exit(c, "failed")
  BY DEF Fail
<1>5. group' \in [Clients -> 1 .. 4]
  BY <1>4 DEF ClientTypes
<1>6. Moves(c) /\ Stopped(c, "failed")
  BY <1>3, <1>4, <1>5, ExitIs
<1> QED
  BY <1>3, <1>4, <1>6

LEMMA SkipIs ==
    ASSUME ClientTypes, NEW c \in Clients, NEW o \in Objects, Skip(c, o)
    PROVE  /\ Moves(c)
           /\ pc'[c] = "objects" /\ todo'[c] = todo[c] \ {o} /\ skipped'[c] = skipped[c] \cup {o}
           /\ cur'[c] = None /\ group' = group /\ refs' = refs /\ ioc' = ioc /\ left' = left
           /\ result' = result /\ faulty' = faulty
<1>1. pc' \in [Clients -> Places] /\ pc'[c] = "objects" /\ \A d \in Clients : d # c => pc'[d] = pc[d]
  BY DEF ClientTypes, Skip, Goto, Places
<1>2. /\ plan' \in [Clients -> Seq(Steps)]
      /\ \A d \in Clients : d # c => plan'[d] = plan[d]
  BY DEF ClientTypes, Skip
<1>3. /\ todo' \in [Clients -> SUBSET Objects] /\ todo'[c] = todo[c] \ {o}
      /\ skipped' \in [Clients -> SUBSET Objects] /\ skipped'[c] = skipped[c] \cup {o}
      /\ cur' \in [Clients -> Objects \cup {None}] /\ cur'[c] = None
      /\ \A d \in Clients : d # c =>
             todo'[d] = todo[d] /\ skipped'[d] = skipped[d] /\ cur'[d] = cur[d]
  BY DEF ClientTypes, Skip
<1>4. group' = group /\ refs' = refs /\ ioc' = ioc /\ left' = left /\ result' = result
      /\ faulty' = faulty
  BY DEF Skip
<1> QED
  BY <1>1, <1>2, <1>3, <1>4 DEF Moves, ClientTypes, Same

LEMMA GotoIs ==
    ASSUME ClientTypes, NEW c \in Clients, NEW p \in Places, Goto(c, p),
           UNCHANGED <<working, skipped, faulty, result>>
    PROVE  /\ Moves(c) /\ pc'[c] = p
           /\ UNCHANGED <<left, group, todo, cur, plan, refs, ioc, skipped, faulty, result>>
<1>1. pc' \in [Clients -> Places] /\ pc'[c] = p /\ \A d \in Clients : d # c => pc'[d] = pc[d]
  BY DEF ClientTypes, Goto
<1>2. UNCHANGED <<left, group, todo, cur, plan, refs, ioc, skipped, faulty, result>>
  BY DEF working
<1> QED
  BY <1>1, <1>2 DEF Moves, ClientTypes, Same

\* The next step of a handler, or the end of it.
Continues(c) ==
    /\ plan'[c] = Tail(plan[c])
    /\ \/ pc'[c] = "steps" /\ todo'[c] = todo[c] /\ cur'[c] = cur[c] /\ refs'[c] = refs[c]
          /\ plan'[c] # <<>>
       \/ pc'[c] = "objects" /\ todo'[c] = todo[c] \ {cur[c]} /\ cur'[c] = None
          /\ refs'[c] = refs[c] \cup {cur[c]} /\ plan'[c] = <<>>

LEMMA TailIs ==
    ASSUME NEW s \in Seq(Steps), s # <<>>
    PROVE  /\ Tail(s) \in Seq(Steps)
           /\ Len(s) > 1 => Tail(s) # <<>>
           /\ ~(Len(s) > 1) => Tail(s) = <<>>
<1> DEFINE t == Tail(s)
<1>1. t \in Seq(Steps) /\ Len(t) = Len(s) - 1 /\ Len(s) \in Nat /\ Len(s) > 0
  OBVIOUS
<1> HIDE DEF t
<1>2. Len(t) = 0 => t = <<>>
  BY <1>1
<1>3. t = <<>> => Len(t) = 0
  OBVIOUS
<1>4. Len(s) > 1 => t # <<>>
  BY <1>1, <1>3
<1>5. ~(Len(s) > 1) => t = <<>>
  <2>1. ~(Len(s) > 1) => Len(t) = 0
    BY <1>1
  <2> QED
    BY <1>2, <2>1
<1> QED
  BY <1>1, <1>4, <1>5 DEF t

LEMMA AdvanceIs ==
    ASSUME ClientTypes, NEW c \in Clients, Advance(c), plan[c] # <<>>, cur[c] \in Objects
    PROVE  /\ Moves(c) /\ Continues(c)
           /\ UNCHANGED <<left, group, ioc, skipped, faulty, result>>
<1>1. /\ Tail(plan[c]) \in Seq(Steps)
      /\ Len(plan[c]) > 1 => Tail(plan[c]) # <<>>
      /\ ~(Len(plan[c]) > 1) => Tail(plan[c]) = <<>>
  <2>1. plan[c] \in Seq(Steps)
    BY DEF ClientTypes
  <2> QED
    BY <2>1, TailIs
<1>2. /\ plan' \in [Clients -> Seq(Steps)] /\ plan'[c] = Tail(plan[c])
      /\ \A d \in Clients : d # c => plan'[d] = plan[d]
  BY <1>1 DEF ClientTypes, Advance
<1>3. UNCHANGED <<left, group, ioc, skipped, faulty, result>>
  BY DEF Advance
<1>4. CASE Len(plan[c]) > 1
  <2>1. /\ pc' \in [Clients -> Places] /\ pc'[c] = "steps" /\ \A d \in Clients : d # c => pc'[d] = pc[d]
        /\ todo' = todo /\ cur' = cur /\ refs' = refs
    BY <1>4 DEF ClientTypes, Advance, Goto, Places
  <2> QED
    BY <1>1, <1>2, <1>3, <1>4, <2>1 DEF Moves, Continues, ClientTypes, Same
<1>5. CASE ~(Len(plan[c]) > 1)
  <2>1. pc' \in [Clients -> Places] /\ pc'[c] = "objects" /\ \A d \in Clients : d # c => pc'[d] = pc[d]
    BY <1>5 DEF ClientTypes, Advance, Goto, Places
  <2>2. /\ todo' \in [Clients -> SUBSET Objects] /\ todo'[c] = todo[c] \ {cur[c]}
        /\ refs' \in [Clients -> SUBSET Objects] /\ refs'[c] = refs[c] \cup {cur[c]}
        /\ cur' \in [Clients -> Objects \cup {None}] /\ cur'[c] = None
        /\ \A d \in Clients : d # c =>
               todo'[d] = todo[d] /\ refs'[d] = refs[d] /\ cur'[d] = cur[d]
    <3>1. /\ todo' = [todo EXCEPT ![c] = todo[c] \ {cur[c]}]
          /\ refs' = [refs EXCEPT ![c] = refs[c] \cup {cur[c]}]
          /\ cur' = [cur EXCEPT ![c] = None]
      BY <1>5 DEF Advance
    <3> QED
      BY <3>1 DEF ClientTypes
  <2> QED
    BY <1>1, <1>2, <1>3, <1>5, <2>1, <2>2 DEF Moves, Continues, ClientTypes, Same
<1> QED
  BY <1>4, <1>5

LEMMA NextGroupIs ==
    ASSUME ClientTypes, NEW c \in Clients, NextGroup(c), group[c] \in 1 .. 3
    PROVE  /\ Moves(c) /\ group'[c] = group[c] + 1 /\ UNCHANGED <<skipped, faulty>>
           /\ \/ group[c] = 3 /\ Stopped(c, "ok")
              \/ /\ group[c] # 3
                 /\ pc'[c] = "objects" /\ todo'[c] = Group(group[c] + 1)
                 /\ refs'[c] = {} /\ ioc'[c] = {} /\ UNCHANGED <<left, cur, plan, result>>
<1>1. /\ group' \in [Clients -> 1 .. 4] /\ group'[c] = group[c] + 1
      /\ \A d \in Clients : d # c => group'[d] = group[d]
  BY DEF ClientTypes, NextGroup
<1>2. UNCHANGED <<skipped, faulty>>
  BY DEF NextGroup
<1>3. CASE group[c] = 3
  <2>1. Exit(c, "ok") /\ faulty' \in [Clients -> BOOLEAN]
    BY <1>2, <1>3 DEF NextGroup, ClientTypes
  <2> QED
    BY <1>1, <1>2, <1>3, <2>1, ExitIs
<1>4. CASE group[c] # 3
  <2>1. pc' \in [Clients -> Places] /\ pc'[c] = "objects" /\ \A d \in Clients : d # c => pc'[d] = pc[d]
    <3>1. Goto(c, "objects")
      BY <1>4 DEF NextGroup
    <3> QED
      BY <3>1 DEF ClientTypes, Goto, Places
  <2>2. Group(group[c] + 1) \in SUBSET Objects
    BY DEF Group
  <2>3. todo' = [todo EXCEPT ![c] = Group(group[c] + 1)]
    BY <1>1, <1>4 DEF NextGroup
  <2>4. /\ todo' \in [Clients -> SUBSET Objects] /\ todo'[c] = Group(group[c] + 1)
        /\ refs' \in [Clients -> SUBSET Objects] /\ refs'[c] = {}
        /\ ioc' \in [Clients -> SUBSET Objects] /\ ioc'[c] = {}
        /\ \A d \in Clients : d # c =>
               todo'[d] = todo[d] /\ refs'[d] = refs[d] /\ ioc'[d] = ioc[d]
    BY <1>4, <2>2, <2>3 DEF ClientTypes, NextGroup
  <2>5. UNCHANGED <<left, cur, plan, result>>
    BY <1>4 DEF NextGroup
  <2> QED
    BY <1>1, <1>2, <1>4, <2>1, <2>4, <2>5 DEF Moves, ClientTypes, Same
<1> QED
  BY <1>3, <1>4

-----------------------------------------------------------------------------
(* What is to be shown of the process that makes a step. *)
LEMMA DirectoryKept ==
    ASSUME disk' = disk, original' = original
    PROVE  /\ \A o : Handler(o)' = Handler(o)
           /\ \A o, s : Shape(o, s) => Shape(o, s)'
           /\ \A o : (Excused(o) => Excused(o)') /\ (Guest(o)' <=> Guest(o))
<1>1. ASSUME NEW o PROVE Handler(o)' = Handler(o)
  BY DEF Handler, FileSteps
<1>2. ASSUME NEW o, NEW s, Shape(o, s) PROVE Shape(o, s)'
  BY <1>2 DEF Shape, Fits
<1>3. ASSUME NEW o PROVE (Excused(o) => Excused(o)') /\ (Guest(o)' <=> Guest(o))
  BY DEF Excused, Guest
<1> QED
  BY <1>1, <1>2, <1>3

LEMMA StopKeeps ==
    ASSUME Types, Types', disk' = disk, original' = original,
           NEW c \in Clients, ClientInv(c), pc[c] # "done",
           NEW r \in {"failed", "killed"}, Stopped(c, r),
           group'[c] = group[c], skipped'[c] = skipped[c], disturbed'[c] = disturbed[c],
           r = "failed" => faulty'[c] \/ disturbed[c],
           \A o \in Objects : Rank(o) < group[c] =>
               where'[o] = where[o] /\ content'[o] = content[o] /\ (o \in inactive' => o \in inactive),
           \A o \in Objects : <<c, o>> \in late' =>
               \/ <<c, o>> \in late
               \/ r = "failed" /\ o \in removing'[c] /\ Rank(o) = group[c] /\ ~Guest(o)
    PROVE  ClientInv(c)'
<1>1. result[c] = "none" /\ group[c] # 4 /\ group[c] \in 1 .. 4
  BY TypesAt DEF ClientInv, PlaceInv
<1>2. PlaceInv(c)'
  BY <1>1 DEF PlaceInv, Stopped, Busy, Active
<1>3. PlanInv(c)' /\ PackInv(c)'
  BY DEF PlanInv, PackInv, Stopped
<1>4. CalmInv(c)'
  <2> SUFFICES ASSUME ~disturbed[c] PROVE HandledInv(c)' /\ ListsInv(c)' /\ CurInv(c)'
    BY DEF CalmInv
  <2>1. HandledInv(c)
    BY DEF ClientInv, CalmInv
  <2>2. ASSUME NEW o \in Objects, Handled(c, o)'
        PROVE  Complete(o)' /\ (o \in inactive' => Rank(o) = group'[c])
    <3>1. o \notin skipped[c] /\ Rank(o) < group[c]
      BY <2>2 DEF Handled, Stopped, Active, Busy
    <3>2. Complete(o) /\ (o \in inactive => Rank(o) = group[c])
      BY <2>1, <3>1 DEF HandledInv, Handled
    <3> QED
      BY <3>1, <3>2 DEF Complete
  <2>3. HandledInv(c)'
    BY <2>2 DEF HandledInv
  <2> QED
    BY <2>3 DEF ListsInv, CurInv, Stopped, Active, Busy
<1>5. ASSUME NEW o \in Objects, <<c, o>> \in late'
      PROVE  r = "failed" /\ o \in removing'[c] /\ Rank(o) = group[c] /\ ~Guest(o)
  BY <1>1, <1>5 DEF ClientInv, PastInv
<1>6. PastInv(c)'
  <2>1. \A o \in skipped'[c] : Excused(o)'
    BY DirectoryKept DEF ClientInv, PastInv
  <2> QED
    BY <1>5, <2>1 DEF PastInv, Stopped
<1>7. GuestInv(c)'
  BY <1>5, DirectoryKept DEF GuestInv, Stopped
<1> QED
  BY <1>2, <1>3, <1>4, <1>6, <1>7 DEF ClientInv

\* Nothing is on the server any different for c.
SameServer == where' = where /\ content' = content /\ inactive' = inactive

LEMMA SkipKeeps ==
    ASSUME Types, Types', disk' = disk, original' = original,
           NEW c \in Clients, ClientInv(c), pc[c] \in {"objects", "steps", "fetch"},
           NEW o \in todo[c], Excused(o),
           pc'[c] = "objects", todo'[c] = todo[c] \ {o}, skipped'[c] = skipped[c] \cup {o},
           cur'[c] = None, group'[c] = group[c], refs'[c] = refs[c], result'[c] = result[c],
           removing'[c] = removing[c], disturbed'[c] = disturbed[c], late' = late, SameServer
    PROVE  ClientInv(c)'
<1>1. result[c] = "none" /\ group[c] # 4 /\ group[c] \in 1 .. 4 /\ removing[c] = {}
  BY TypesAt DEF ClientInv, PlaceInv, PastInv
<1>2. PlaceInv(c)'
  BY <1>1 DEF ClientInv, PlaceInv, Busy, Active
<1>3. PlanInv(c)' /\ PackInv(c)'
  BY DEF PlanInv, PackInv
<1>4. CalmInv(c)'
  <2> SUFFICES ASSUME ~disturbed[c] PROVE HandledInv(c)' /\ ListsInv(c)' /\ CurInv(c)'
    BY DEF CalmInv
  <2>1. HandledInv(c) /\ ListsInv(c)
    BY DEF ClientInv, CalmInv
  <2>2. ASSUME NEW x \in Objects, Handled(c, x)' PROVE Handled(c, x)
    BY <2>2 DEF Handled, Active, Busy
  <2>3. HandledInv(c)'
    BY <2>1, <2>2 DEF HandledInv, Complete, SameServer
  <2>4. ListsInv(c)'
    BY <2>1 DEF ListsInv, Exist, SameServer, Active, Busy
  <2> QED
    BY <2>3, <2>4 DEF CurInv
<1>5. PastInv(c)'
  <2>1. \A x \in skipped'[c] : Excused(x)'
    BY DirectoryKept DEF ClientInv, PastInv
  <2> QED
    BY <1>1, <2>1 DEF PastInv, ClientInv
<1>6. GuestInv(c)'
  BY DirectoryKept DEF GuestInv, ClientInv
<1> QED
  BY <1>2, <1>3, <1>4, <1>5, <1>6 DEF ClientInv

LEMMA ContinueKeeps ==
    ASSUME Types, Types', disk' = disk, original' = original,
           NEW c \in Clients, ClientInv(c), pc[c] \in {"steps", "recreate"}, Continues(c),
           group'[c] = group[c], skipped'[c] = skipped[c], result'[c] = result[c],
           removing'[c] = {}, disturbed'[c] = disturbed[c], late' = late, Only(cur[c]),
           ~Guest(cur[c]),
           ~disturbed[c] =>
               /\ where'[cur[c]] # "none"
               /\ Order(cur[c], Tail(plan[c]), content'[cur[c]])
               /\ Cover(Tail(plan[c]), content'[cur[c]], Known(cur[c]))
    PROVE  ClientInv(c)'
<1>0. PICK o, s : o = cur[c] /\ s = plan[c]
  OBVIOUS
<1>1. /\ result[c] = "none" /\ group[c] # 4 /\ group[c] \in 1 .. 4 /\ o # None /\ o \in Objects
      /\ o \in todo[c] /\ s \in Seq(Steps) /\ s # <<>> /\ Shape(o, s) /\ Rank(o) = group[c]
      /\ todo[c] \cup refs[c] \subseteq Group(group[c])
      /\ Group(group[c]) \subseteq todo[c] \cup refs[c] \cup skipped[c]
      /\ todo[c] \subseteq Objects /\ refs[c] \subseteq Objects /\ refs[c] \cap todo[c] = {}
  <2>1. pc[c] \in Busy /\ pc[c] \in Active
    BY DEF Busy, Active
  <2>2. o # None /\ o \in todo[c] /\ s # <<>> /\ todo[c] \cup refs[c] \subseteq Group(group[c])
        /\ Group(group[c]) \subseteq todo[c] \cup refs[c] \cup skipped[c] /\ result[c] = "none"
        /\ group[c] # 4 /\ refs[c] \cap todo[c] = {}
    BY <1>0, <2>1 DEF ClientInv, PlaceInv
  <2>3. o \in Objects /\ s \in Seq(Steps) /\ group[c] \in 1 .. 4
        /\ todo[c] \subseteq Objects /\ refs[c] \subseteq Objects
    BY <1>0, <2>2, TypesAt
  <2>4. Rank(o) = group[c]
    BY <2>2, <2>3 DEF Group
  <2>5. Shape(o, s)
    BY <1>0, <2>2 DEF ClientInv, PlanInv
  <2> QED
    BY <2>2, <2>3, <2>4, <2>5
<1>2. /\ Tail(s) \in Seq(Steps) /\ Shape(o, Tail(s))
      /\ \A k \in DOMAIN Tail(s) : Tail(s)[k].do # "create"
      /\ Tail(s) # <<>> => Head(Tail(s)).do # "create"
  <2>1. /\ Tail(s) \in Seq(Steps) /\ Shape(o, Tail(s))
        /\ \A k \in DOMAIN Tail(s) : Tail(s)[k].do # "create"
    BY <1>1, ShapeRest
  <2>2. ASSUME Tail(s) # <<>> PROVE Head(Tail(s)).do # "create"
    <3>1. Head(Tail(s)) = Tail(s)[1] /\ 1 \in DOMAIN Tail(s)
      BY <2>1, <2>2
    <3> QED
      BY <2>1, <3>1
  <2> QED
    BY <2>1, <2>2
<1>3. /\ pc'[c] \in {"steps", "objects"} /\ plan'[c] = Tail(s)
      /\ pc'[c] = "steps" => todo'[c] = todo[c] /\ cur'[c] = o /\ refs'[c] = refs[c] /\ Tail(s) # <<>>
      /\ pc'[c] = "objects" => todo'[c] = todo[c] \ {o} /\ cur'[c] = None
                               /\ refs'[c] = refs[c] \cup {o} /\ Tail(s) = <<>>
  BY <1>0 DEF Continues
<1>4. PlaceInv(c)'
  <2>1. CASE pc'[c] = "steps"
    BY <1>1, <1>3, <2>1 DEF PlaceInv, Busy, Active
  <2>2. CASE pc'[c] = "objects"
    <3>1. /\ todo'[c] \cup refs'[c] = todo[c] \cup refs[c] /\ refs'[c] \cap todo'[c] = {}
      BY <1>1, <1>3, <2>2
    <3> QED
      BY <1>1, <1>3, <2>2, <3>1 DEF PlaceInv, Busy, Active
  <2> QED
    BY <1>3, <2>1, <2>2
<1>5. PlanInv(c)' /\ PackInv(c)'
  <2>1. Shape(o, Tail(s))'
    BY <1>2, DirectoryKept
  <2>2. Doing(c)' = Head(Tail(s)).do
    BY <1>3 DEF Doing
  <2> QED
    BY <1>2, <1>3, <2>1, <2>2 DEF PlanInv, PackInv
<1>6. CalmInv(c)'
  <2> SUFFICES ASSUME ~disturbed[c] PROVE HandledInv(c)' /\ ListsInv(c)' /\ CurInv(c)'
    BY DEF CalmInv
  <2>1. HandledInv(c) /\ ListsInv(c)
    BY DEF ClientInv, CalmInv
  <2>2. /\ where'[o] # "none" /\ Order(o, Tail(s), content'[o])
        /\ Cover(Tail(s), content'[o], Known(o))
    BY <1>0
  <2>3. \A x \in Objects : x # o => where'[x] = where[x] /\ content'[x] = content[x]
                                    /\ (x \in inactive' <=> x \in inactive)
    BY <1>0 DEF Only
  <2>4. ASSUME NEW x \in Objects, Handled(c, x)', x # o
        PROVE  Complete(x)' /\ (x \in inactive' => Rank(x) = group'[c])
    <3>1. Handled(c, x)
      BY <1>3, <2>4 DEF Handled, Active, Busy
    <3>2. Complete(x) /\ (x \in inactive => Rank(x) = group[c])
      BY <2>1, <3>1 DEF HandledInv
    <3> QED
      BY <2>3, <2>4, <3>2 DEF Complete
  <2>5. ASSUME Handled(c, o)'
        PROVE  Complete(o)' /\ (o \in inactive' => Rank(o) = group'[c])
    <3>1. pc'[c] = "objects"
      BY <1>1, <1>3, <2>5 DEF Handled, Active, Busy
    <3>2. Tail(s) = <<>> /\ DOMAIN Tail(s) = {}
      BY <1>3, <3>1
    <3>3. \A p \in Known(o) : content'[o][p] = "file"
      BY <2>2, <3>2 DEF Cover
    <3> QED
      BY <1>1, <2>2, <3>3 DEF Complete
  <2>6. HandledInv(c)'
    BY <2>4, <2>5 DEF HandledInv
  <2>7. ListsInv(c)'
    <3>1. \A x \in refs[c] : where[x] # "none" /\ x \in Objects
      BY <1>1, <2>1 DEF ListsInv, Exist, Active, Busy
    <3>2. \A x \in refs'[c] : where'[x] # "none"
      BY <1>3, <2>2, <2>3, <3>1
    <3> QED
      BY <1>3, <3>2 DEF ListsInv, Exist
  <2>8. CurInv(c)'
    BY <1>3, <2>2 DEF CurInv, Going, Order
  <2> QED
    BY <2>6, <2>7, <2>8
<1>7. PastInv(c)'
  <2>1. \A x \in skipped'[c] : Excused(x)'
    BY DirectoryKept DEF ClientInv, PastInv
  <2> QED
    BY <1>1, <2>1 DEF PastInv, ClientInv
<1>8. GuestInv(c)'
  <2>1. cur'[c] # None => ~Guest(cur'[c])
    BY <1>0, <1>3
  <2> QED
    BY <2>1, DirectoryKept DEF GuestInv, ClientInv
<1> QED
  BY <1>4, <1>5, <1>6, <1>7, <1>8 DEF ClientInv

LEMMA GroupKeeps ==
    ASSUME Types, Types', disk' = disk, original' = original,
           NEW c \in Clients, ClientInv(c), pc[c] \in {"objects", "activate", "confirm"},
           todo[c] = {}, group'[c] = group[c] + 1, skipped'[c] = skipped[c],
           \/ group[c] = 3 /\ Stopped(c, "ok")
           \/ /\ group[c] # 3
              /\ pc'[c] = "objects" /\ todo'[c] = Group(group[c] + 1) /\ refs'[c] = {}
              /\ cur'[c] = cur[c] /\ result'[c] = result[c],
           removing'[c] = removing[c], disturbed'[c] = disturbed[c], late' = late,
           where' = where, content' = content,
           \A o \in Objects : o \in inactive' => o \in inactive /\ o \notin refs[c]
    PROVE  ClientInv(c)'
<1>1. /\ result[c] = "none" /\ group[c] # 4 /\ group[c] \in 1 .. 4 /\ removing[c] = {}
      /\ cur[c] = None /\ Group(group[c]) \subseteq refs[c] \cup skipped[c]
      /\ \A o \in Objects : <<c, o>> \notin late
  BY TypesAt DEF ClientInv, PlaceInv, PastInv, Busy, Active
<1>2. PlaceInv(c)'
  <2>1. CASE group[c] = 3 /\ Stopped(c, "ok")
    BY <1>1, <2>1 DEF PlaceInv, Stopped, Busy, Active
  <2>2. CASE group[c] # 3
    BY <1>1, <2>2 DEF PlaceInv, Busy, Active
  <2> QED
    BY <2>1, <2>2
<1>3. cur'[c] = None /\ pc'[c] \in {"objects", "done"} /\ refs'[c] = {}
  BY <1>1 DEF Stopped
<1>4. PlanInv(c)' /\ PackInv(c)'
  BY <1>3 DEF PlanInv, PackInv
<1>5. CalmInv(c)'
  <2> SUFFICES ASSUME ~disturbed[c] PROVE HandledInv(c)' /\ ListsInv(c)' /\ CurInv(c)'
    BY DEF CalmInv
  <2>1. HandledInv(c)
    BY DEF ClientInv, CalmInv
  <2>2. ASSUME NEW o \in Objects, Handled(c, o)'
        PROVE  Complete(o)' /\ (o \in inactive' => Rank(o) = group'[c])
    <3>1. o \notin skipped[c]
      BY <2>2 DEF Handled
    <3>2. Rank(o) < group[c] + 1
      <4>1. CASE pc'[c] = "objects"
        <5>1. \A x \in Group(group[c] + 1) : x \in todo'[c]
          BY <4>1 DEF Stopped
        <5>2. Rank(o) # group[c] + 1
          BY <1>1, <2>2, <4>1, <5>1, RankIs DEF Handled
        <5> QED
          BY <2>2, <5>2 DEF Handled
      <4>2. CASE pc'[c] = "done"
        BY <2>2, <4>2 DEF Handled, Active, Busy
      <4> QED
        BY <1>3, <4>1, <4>2
    <3>3. Rank(o) < group[c] \/ Rank(o) = group[c]
      BY <1>1, <3>2, RankIs
    <3>4. Handled(c, o)
      BY <3>1, <3>3 DEF Handled, Active
    <3>5. Complete(o) /\ (o \in inactive => Rank(o) = group[c])
      BY <2>1, <3>4 DEF HandledInv
    <3>6. o \notin inactive'
      <4>1. Rank(o) = group[c] => o \in refs[c]
        BY <1>1, <3>1 DEF Group
      <4> QED
        BY <3>5, <4>1
    <3> QED
      BY <3>5, <3>6 DEF Complete
  <2>3. HandledInv(c)'
    BY <2>2 DEF HandledInv
  <2> QED
    BY <1>3, <2>3 DEF ListsInv, CurInv, Exist
<1>6. PastInv(c)'
  <2>1. \A x \in skipped'[c] : Excused(x)'
    BY DirectoryKept DEF ClientInv, PastInv
  <2>2. result'[c] # "failed"
    BY <1>1 DEF Stopped
  <2> QED
    BY <1>1, <2>1, <2>2 DEF PastInv
<1>7. GuestInv(c)'
  BY <1>1, <1>3 DEF GuestInv
<1> QED
  BY <1>2, <1>4, <1>5, <1>6, <1>7 DEF ClientInv

-----------------------------------------------------------------------------
(* The others, and the objects. *)
LEMMA OthersKeep ==
    ASSUME Types, Types', disk' = disk, original' = original,
           NEW d \in Clients, ClientInv(d), Same(d), removing'[d] = removing[d],
           packages \subseteq packages', disturbed[d] => disturbed'[d],
           (server' = server /\ disturbed'[d] = disturbed[d]) \/ disturbed'[d] \/ pc[d] = "start",
           \A o \in Objects : <<d, o>> \in late' => <<d, o>> \in late
    PROVE  ClientInv(d)'
<1>1. PlaceInv(d)'
  BY DEF ClientInv, PlaceInv, Same, Doing
<1>2. PlanInv(d)'
  <2>1. CASE cur[d] = None
    BY <2>1 DEF PlanInv, Same
  <2>2. CASE cur[d] # None
    <3>1. PICK o, s : o = cur[d] /\ s = plan[d]
      OBVIOUS
    <3>2. Shape(o, s) /\ (Doing(d) = "create" => s = Handler(o))
      BY <2>2, <3>1 DEF ClientInv, PlanInv
    <3>3. Shape(o, s)' /\ Handler(o)' = Handler(o)
      BY <3>2, DirectoryKept
    <3>4. cur'[d] = o /\ plan'[d] = s /\ Doing(d)' = Doing(d)
      BY <3>1 DEF Same, Doing
    <3> QED
      BY <3>2, <3>3, <3>4 DEF PlanInv
  <2> QED
    BY <2>1, <2>2
<1>3. PackInv(d)'
  BY DEF ClientInv, PackInv, Same
<1>4. CalmInv(d)'
  <2> SUFFICES ASSUME ~disturbed'[d] PROVE HandledInv(d)' /\ ListsInv(d)' /\ CurInv(d)'
    BY DEF CalmInv
  <2>1. CASE pc[d] = "start"
    <3>1. pc'[d] = "start" /\ group'[d] = 1
      BY <2>1 DEF Same, ClientInv, PlaceInv
    <3>2. HandledInv(d)'
      BY <3>1, RankIs DEF HandledInv, Handled, Active, Busy
    <3> QED
      BY <3>1, <3>2 DEF ListsInv, CurInv, Active, Busy
  <2>2. CASE server' = server /\ ~disturbed[d]
    <3>1. HandledInv(d) /\ ListsInv(d) /\ CurInv(d)
      BY <2>2 DEF ClientInv, CalmInv
    <3>2. where' = where /\ content' = content /\ inactive' = inactive
      BY <2>2 DEF server
    <3>3. HandledInv(d)'
      BY <3>1, <3>2 DEF HandledInv, Handled, Complete, Same
    <3>4. ListsInv(d)'
      BY <3>1, <3>2 DEF ListsInv, Exist, Same
    <3>5. CurInv(d)'
      <4>1. PICK o, s : o = cur[d] /\ s = plan[d]
        OBVIOUS
      <4>2. cur'[d] = o /\ plan'[d] = s /\ pc'[d] = pc[d] /\ Doing(d)' = Doing(d)
        BY <4>1 DEF Same, Doing
      <4>3. Going(o, s) => Going(o, s)'
        BY <3>2 DEF Going, Order
      <4> QED
        BY <3>1, <3>2, <4>1, <4>2, <4>3 DEF CurInv
    <3> QED
      BY <3>3, <3>4, <3>5
  <2> QED
    BY <2>1, <2>2
<1>5. PastInv(d)'
  <2>1. \A x \in skipped'[d] : Excused(x)'
    BY DirectoryKept DEF ClientInv, PastInv, Same
  <2> QED
    BY <2>1 DEF PastInv, ClientInv, Same
<1>6. GuestInv(d)'
  BY DirectoryKept DEF GuestInv, ClientInv, Same, Doing
<1> QED
  BY <1>1, <1>2, <1>3, <1>4, <1>5, <1>6 DEF ClientInv

\* What a step of c may not do to others, and what it leaves alone.
Surround(c) ==
    /\ Moves(c) /\ Served(c) /\ disk' = disk /\ original' = original
    /\ removing' \in [Clients -> SUBSET Objects]
    /\ \A d \in Clients : d # c => removing'[d] = removing[d]
    /\ late' \subseteq Clients \X Objects
    /\ \A d \in Clients : d # c => \A o \in Objects : <<d, o>> \in late' => <<d, o>> \in late

LEMMA SurroundTypes ==
    ASSUME Types, NEW c \in Clients, Surround(c)
    PROVE  Types'
BY DEF Types, TypeOK, Surround, Moves, ClientTypes, Places, Served, ServerTypes, Noticed

LEMMA Surrounded ==
    ASSUME Inv, NEW c \in Clients, Surround(c), ClientInv(c)',
           \A o \in Objects : ObjectInv(o)'
    PROVE  Inv'
<1>1. Types /\ Types'
  BY SurroundTypes DEF Inv
<1>2. ASSUME NEW d \in Clients, d # c PROVE ClientInv(d)'
  <2>1. ClientInv(d) /\ Same(d) /\ removing'[d] = removing[d]
    BY <1>2 DEF Inv, Surround, Moves
  <2>2. /\ packages \subseteq packages' /\ (disturbed[d] => disturbed'[d])
        /\ (server' = server /\ disturbed'[d] = disturbed[d]) \/ disturbed'[d] \/ pc[d] = "start"
    BY <1>2 DEF Surround, Served, Noticed
  <2>3. /\ \A o \in Objects : <<d, o>> \in late' => <<d, o>> \in late
        /\ disk' = disk /\ original' = original
    BY <1>2 DEF Surround
  <2> QED
    BY <1>1, <2>1, <2>2, <2>3, OthersKeep
<1>3. \A d \in Clients : ClientInv(d)'
  BY <1>2
<1> QED
  BY <1>1, <1>3 DEF Inv

LEMMA QuietSurround ==
    ASSUME Types, NEW c \in Clients, Moves(c), Served(c), UNCHANGED <<disk, late, removing, original>>
    PROVE  Surround(c)
BY DEF Types, TypeOK, Surround

\* Nothing new of any object.
LEMMA ObjectsStay ==
    ASSUME Inv, where' = where, content' = content, inactive' \subseteq inactive,
           original' = original, \A c \in Clients : removing[c] \subseteq removing'[c]
    PROVE  \A o \in Objects : ObjectInv(o)'
<1> SUFFICES ASSUME NEW o \in Objects PROVE ObjectInv(o)'
  OBVIOUS
<1>1. ObjectInv(o)
  BY DEF Inv
<1> QED
  BY <1>1 DEF ObjectInv, Guest

\* One object is changed.
LEMMA ObjectsTouched ==
    ASSUME Inv, NEW o \in Objects, Only(o), original' = original,
           \A c \in Clients : \A x \in removing[c] : x # o => x \in removing'[c],
           ~Guest(o), where'[o] \in {"none", "here", where[o]},
           o \in inactive' => where'[o] # "none",
           where'[o] # "none" /\ Kind[o] # "fugr" => \A p \in Parts(o) : content'[o][p] # "none",
           original[o] # "none" /\ where'[o] = "none" => \E c \in Clients : o \in removing'[c]
    PROVE  \A x \in Objects : ObjectInv(x)'
<1> SUFFICES ASSUME NEW x \in Objects PROVE ObjectInv(x)'
  OBVIOUS
<1>1. ObjectInv(x)
  BY DEF Inv
<1>2. CASE x = o
  BY <1>1, <1>2 DEF ObjectInv, Guest
<1>3. CASE x # o
  BY <1>1, <1>3 DEF ObjectInv, Guest, Only
<1> QED
  BY <1>2, <1>3

\* A deletion that arrives late: its process has failed in the group of the class.
LEMMA LateKeeps ==
    ASSUME Inv, NEW l \in late, LateDelete(l)
    PROVE  Inv'
<1>1. PICK c \in Clients, o \in Objects : l = <<c, o>>
  BY DEF Inv, Types, TypeOK
<1>2. ClientInv(c) /\ <<c, o>> \in late /\ Types
  BY <1>1 DEF Inv
<1>3. /\ Served(c) /\ Only(o) /\ where'[o] = "none" /\ o \notin inactive'
      /\ late' = late \ {l} /\ disk' = disk /\ original' = original /\ removing' = removing
      /\ UNCHANGED <<pc, working, skipped, faulty, result>>
  BY <1>1, <1>2, DeleteServes DEF LateDelete
<1>4. UNCHANGED <<left, group, todo, cur, plan, refs, ioc>>
  BY <1>3 DEF working
<1>5. Moves(c) /\ \A d \in Clients : Same(d)
  BY <1>2, <1>3, <1>4, TypesOfClients DEF Moves, ClientTypes, Same
<1>6. Surround(c)
  BY <1>2, <1>3, <1>5 DEF Surround, Types, TypeOK
<1>7. Types'
  BY <1>2, <1>6, SurroundTypes
<1>8. o \in removing[c] /\ result[c] = "failed" /\ group[c] = Rank(o) /\ ~Guest(o) /\ pc[c] = "done"
  BY <1>2 DEF ClientInv, PastInv, GuestInv, PlaceInv
<1>9. \A x \in Objects : ObjectInv(x)'
  BY <1>3, <1>8, ObjectsTouched
<1>10. ClientInv(c)'
  <2>0. Same(c) /\ disturbed'[c] = disturbed[c] /\ packages' = packages
    BY <1>3, <1>5 DEF Served, Noticed, Only
  <2>1. PlaceInv(c)' /\ PackInv(c)'
    BY <1>2, <1>8, <2>0 DEF ClientInv, PlaceInv, PackInv, Same, Doing
  <2>2. PlanInv(c)' /\ GuestInv(c)'
    <3>1. cur'[c] = None
      BY <1>2, <1>8, <2>0 DEF ClientInv, PlaceInv, Busy, Same
    <3> QED
      BY <1>2, <1>3, <3>1, DirectoryKept DEF PlanInv, GuestInv, ClientInv
  <2>3. CalmInv(c)'
    <3> SUFFICES ASSUME ~disturbed[c] PROVE HandledInv(c)' /\ ListsInv(c)' /\ CurInv(c)'
      BY <2>0 DEF CalmInv
    <3>1. HandledInv(c)
      BY <1>2 DEF ClientInv, CalmInv
    <3>2. ASSUME NEW x \in Objects, Handled(c, x)'
          PROVE  Complete(x)' /\ (x \in inactive' => Rank(x) = group'[c])
      <4>1. Handled(c, x) /\ x # o
        BY <1>8, <2>0, <3>2, RankIs DEF Handled, Same, Active, Busy
      <4>2. Complete(x) /\ (x \in inactive => Rank(x) = group[c])
        BY <3>1, <4>1 DEF HandledInv
      <4> QED
        BY <1>3, <2>0, <4>1, <4>2 DEF Complete, Only, Same
    <3>3. HandledInv(c)'
      BY <3>2 DEF HandledInv
    <3> QED
      BY <1>8, <2>0, <3>3 DEF ListsInv, CurInv, Same, Active, Busy
  <2>4. PastInv(c)'
    <3>1. \A x \in skipped'[c] : Excused(x)'
      BY <1>2, <1>3, DirectoryKept DEF ClientInv, PastInv
    <3> QED
      BY <1>2, <1>3, <2>0, <3>1 DEF PastInv, ClientInv, Same
  <2> QED
    BY <2>1, <2>2, <2>3, <2>4 DEF ClientInv
<1> QED
  BY <1>6, <1>9, <1>10, Surrounded

-----------------------------------------------------------------------------
(* The actions. *)
Keeps(c) ==
    /\ Types /\ ClientTypes /\ ClientInv(c)
    /\ \A o \in Objects : ObjectInv(o)

LEMMA InvAt ==
    ASSUME Inv, NEW c \in Clients
    PROVE  Keeps(c)
BY TypesOfClients DEF Inv, Keeps

\* A step that ends in failure.
LEMMA FailKeeps ==
    ASSUME Inv, NEW c \in Clients, pc[c] # "done", NEW fault \in BOOLEAN, Fail(c, fault),
           fault \/ disturbed[c], Served(c), disk' = disk, original' = original,
           removing' \in [Clients -> SUBSET Objects],
           \A d \in Clients : d # c => removing'[d] = removing[d],
           late' \subseteq late \cup {<<c, o>> : o \in Objects},
           \A o \in Objects : Rank(o) < group[c] =>
               where'[o] = where[o] /\ content'[o] = content[o] /\ (o \in inactive' => o \in inactive),
           \A o \in Objects : <<c, o>> \in late' =>
               <<c, o>> \in late \/ (o \in removing'[c] /\ Rank(o) = group[c] /\ ~Guest(o)),
           \A o \in Objects : ObjectInv(o)'
    PROVE  Inv'
<1>1. Types /\ ClientTypes /\ ClientInv(c)
  BY InvAt DEF Keeps
<1>2. /\ Moves(c) /\ Stopped(c, "failed") /\ group' = group /\ skipped' = skipped
      /\ faulty'[c] = (faulty[c] \/ fault)
  BY <1>1, FailIs
<1>3. late' \subseteq Clients \X Objects
  BY <1>1 DEF Types, TypeOK
<1>4. \A d \in Clients : d # c => \A o \in Objects : <<d, o>> \in late' => <<d, o>> \in late
  OBVIOUS
<1>5. Surround(c)
  BY <1>2, <1>3, <1>4 DEF Surround
<1>6. Types'
  BY <1>1, <1>5, SurroundTypes
<1>7. disturbed'[c] = disturbed[c]
  BY DEF Served, Noticed
<1>8. faulty'[c] \/ disturbed[c]
  BY <1>2
<1>9. ClientInv(c)'
  <2>1. "failed" \in {"failed", "killed"}
    OBVIOUS
  <2> QED
    BY <1>1, <1>2, <1>6, <1>7, <1>8, <2>1, StopKeeps
<1> QED
  BY <1>5, <1>9, Surrounded

\* A failure that leaves the server alone.
LEMMA FailIdle ==
    ASSUME Inv, NEW c \in Clients, pc[c] # "done", NEW fault \in BOOLEAN, Fail(c, fault),
           fault \/ disturbed[c], Idle, UNCHANGED <<disk, late, removing, original>>
    PROVE  Inv'
<1>1. Types
  BY DEF Inv
<1>2. Served(c) /\ server' = server
  BY <1>1, IdleServes
<1>3. where' = where /\ content' = content /\ inactive' = inactive
  BY <1>2 DEF server
<1>4. \A o \in Objects : ObjectInv(o)'
  BY <1>3, ObjectsStay
<1>5. removing' \in [Clients -> SUBSET Objects]
  BY <1>1 DEF Types, TypeOK
<1> QED
  BY <1>2, <1>3, <1>4, <1>5, FailKeeps

\* A step that leaves the server alone, with what it keeps of its process.
LEMMA IdleStep ==
    ASSUME Inv, NEW c \in Clients, Moves(c), Idle, UNCHANGED <<disk, late, removing, original>>
    PROVE  /\ Types' /\ SameServer /\ packages' = packages /\ disturbed'[c] = disturbed[c]
           /\ ClientInv(c)' => Inv'
<1>1. Types
  BY DEF Inv
<1>2. Served(c) /\ server' = server
  BY <1>1, IdleServes
<1>3. where' = where /\ content' = content /\ inactive' = inactive /\ packages' = packages
  BY <1>2 DEF server
<1>4. \A o \in Objects : ObjectInv(o)'
  BY <1>3, ObjectsStay
<1>5. Surround(c)
  BY <1>1, <1>2, QuietSurround
<1>6. Types' /\ disturbed'[c] = disturbed[c]
  BY <1>1, <1>2, <1>5, SurroundTypes DEF Served, Noticed
<1> QED
  BY <1>3, <1>4, <1>5, <1>6, Surrounded DEF SameServer

LEMMA PackagesKeep ==
    ASSUME Types, disk' = disk, original' = original,
           NEW c \in Clients, ClientInv(c), pc[c] \in {"start", "packages"}, pc'[c] = "packages",
           group'[c] = group[c], refs'[c] = refs[c], result'[c] = result[c], cur'[c] = cur[c],
           skipped'[c] = skipped[c], removing'[c] = removing[c], late' = late, PackInv(c)'
    PROVE  ClientInv(c)'
<1>1. /\ result[c] = "none" /\ group[c] = 1 /\ removing[c] = {} /\ cur[c] = None /\ refs[c] = {}
      /\ \A o \in Objects : <<c, o>> \notin late
  BY TypesAt DEF ClientInv, PlaceInv, PastInv, Busy
<1>2. PlaceInv(c)' /\ PlanInv(c)' /\ GuestInv(c)'
  BY <1>1 DEF PlaceInv, PlanInv, GuestInv, Busy, Active
<1>3. CalmInv(c)'
  <2>1. \A o \in Objects : ~Handled(c, o)'
    BY <1>1, RankIs DEF Handled, Active, Busy
  <2> QED
    BY <2>1 DEF CalmInv, HandledInv, ListsInv, CurInv, Active, Busy
<1>4. PastInv(c)'
  <2>1. \A x \in skipped'[c] : Excused(x)'
    BY DirectoryKept DEF ClientInv, PastInv
  <2> QED
    BY <1>1, <2>1 DEF PastInv
<1> QED
  BY <1>2, <1>3, <1>4 DEF ClientInv

LEMMA StartKeeps ==
    ASSUME Inv, NEW c \in Clients, Start(c)
    PROVE  Inv'
<1>1. Types /\ ClientTypes /\ ClientInv(c) /\ pc[c] = "start" /\ Idle
      /\ UNCHANGED <<disk, late, removing, original>>
  BY InvAt DEF Keeps, Start
<1>2. CASE Fail(c, TRUE)
  BY <1>1, <1>2, FailIdle
<1>3. CASE /\ Goto(c, "packages")
           /\ left' = [left EXCEPT ![c] = PackageOrder]
           /\ UNCHANGED <<group, todo, cur, plan, refs, ioc, skipped, faulty, result>>
  <2>1. PackageOrder \in Seq(Packages)
    BY DirectoryAssumption
  <2>2. pc' \in [Clients -> Places] /\ pc'[c] = "packages" /\ \A d \in Clients : d # c => pc'[d] = pc[d]
    BY <1>1, <1>3 DEF ClientTypes, Goto, Places
  <2>3. /\ left' \in [Clients -> Seq(Packages)] /\ left'[c] = PackageOrder
        /\ \A d \in Clients : d # c => left'[d] = left[d]
    BY <1>1, <1>3, <2>1 DEF ClientTypes
  <2>4. Moves(c)
    BY <1>1, <1>3, <2>2, <2>3 DEF Moves, ClientTypes, Same
  <2>5. PackInv(c)'
    <3>1. Len(PackageOrder) - Len(PackageOrder) = 0 /\ \A k \in DOMAIN PackageOrder : 0 + k = k
      BY <2>1
    <3> QED
      BY <2>3, <3>1 DEF PackInv
  <2>6. ClientInv(c)'
    BY <1>1, <1>3, <2>2, <2>5, PackagesKeep
  <2> QED
    BY <1>1, <2>4, <2>6, IdleStep
<1> QED
  BY <1>2, <1>3 DEF Start

LEMMA CreatePackageKeeps ==
    ASSUME Inv, NEW c \in Clients, CreatePackage(c)
    PROVE  Inv'
<1> DEFINE p == Head(left[c])
           accepted == Parent[p] \in packages \cup {None}
           n == Len(PackageOrder) - Len(left[c])
<1>1. Types /\ ClientTypes /\ ClientInv(c) /\ pc[c] = "packages" /\ left[c] # <<>>
      /\ UNCHANGED <<disk, late, removing, original>>
  BY InvAt DEF Keeps, CreatePackage
<1>2. /\ left[c] \in Seq(Packages) /\ PackageOrder \in Seq(Packages) /\ p \in Packages
      /\ Tail(left[c]) \in Seq(Packages) /\ Len(left[c]) \in Nat /\ Len(left[c]) > 0
      /\ Len(PackageOrder) \in Nat /\ p = left[c][1]
      /\ Len(Tail(left[c])) = Len(left[c]) - 1
      /\ \A k \in DOMAIN Tail(left[c]) : k + 1 \in DOMAIN left[c] /\ Tail(left[c])[k] = left[c][k + 1]
  <2>1. left[c] \in Seq(Packages) /\ PackageOrder \in Seq(Packages)
    BY <1>1, TypesAt, DirectoryAssumption
  <2> QED
    BY <1>1, <2>1
<1>3. /\ n \in Nat /\ \A i \in 1 .. n : PackageOrder[i] \in packages
      /\ \A k \in DOMAIN left[c] : left[c][k] = PackageOrder[n + k]
  BY <1>1 DEF ClientInv, PackInv
<1>4. p = PackageOrder[n + 1] /\ n + 1 \in DOMAIN PackageOrder
  <2>1. 1 \in DOMAIN left[c] /\ DOMAIN PackageOrder = 1 .. Len(PackageOrder)
    BY <1>2
  <2>2. p = PackageOrder[n + 1]
    BY <1>2, <1>3, <2>1
  <2>3. n + 1 \in 1 .. Len(PackageOrder)
    BY <1>2, <1>3
  <2> QED
    BY <2>1, <2>2, <2>3
<1>5. accepted
  <2>1. Parent[p] \in {PackageOrder[j] : j \in 1 .. ((n + 1) - 1)} \cup {None}
    BY <1>4, DirectoryAssumption
  <2>2. (n + 1) - 1 = n
    BY <1>3
  <2> QED
    BY <1>3, <2>1, <2>2
<1> HIDE DEF accepted, n, p
<1>6. ASSUME packages' = packages \cup {p}, UNCHANGED <<where, content, inactive>>, Disturb(c)
      PROVE  Served(c) /\ \A o \in Objects : ObjectInv(o)'
  <2>1. Noticed(c)
    BY <1>1, <1>6, Disturbs
  <2>2. ServerTypes'
    BY <1>1, <1>2, <1>6 DEF Types, ServerTypes
  <2>3. \A o \in Objects : ObjectInv(o)'
    BY <1>1, <1>6, ObjectsStay
  <2> QED
    BY <1>6, <2>1, <2>2, <2>3 DEF Served
<1>7. CASE /\ packages' = packages \cup {p} /\ UNCHANGED <<where, content, inactive>>
           /\ Disturb(c)
           /\ left' = [left EXCEPT ![c] = Tail(@)]
           /\ UNCHANGED <<pc, group, todo, cur, plan, refs, ioc, skipped, faulty, result>>
  <2>1. /\ left' \in [Clients -> Seq(Packages)] /\ left'[c] = Tail(left[c])
        /\ \A d \in Clients : d # c => left'[d] = left[d]
    BY <1>1, <1>2, <1>7 DEF ClientTypes
  <2>2. Moves(c)
    BY <1>1, <1>7, <2>1 DEF Moves, ClientTypes, Same
  <2>3. Surround(c)
    BY <1>1, <1>6, <1>7, <2>2, QuietSurround
  <2>4. PackInv(c)'
    <3>1. Len(PackageOrder) - Len(left'[c]) = n + 1
      <4>1. Len(left'[c]) = Len(left[c]) - 1
        BY <1>2, <2>1
      <4> QED
        BY <1>2, <4>1 DEF n
    <3>2. \A i \in 1 .. n + 1 : PackageOrder[i] \in packages'
      BY <1>3, <1>4, <1>7
    <3>3. \A k \in DOMAIN left'[c] : left'[c][k] = PackageOrder[(n + 1) + k]
      <4> SUFFICES ASSUME NEW k \in DOMAIN Tail(left[c])
                   PROVE  Tail(left[c])[k] = PackageOrder[(n + 1) + k]
        BY <2>1
      <4>1. k \in Nat
        BY <1>2
      <4>2. n + (k + 1) = (n + 1) + k
        BY <1>3, <4>1
      <4> QED
        BY <1>2, <1>3, <4>2
    <3>4. n + 1 \in Nat
      BY <1>3
    <3> QED
      BY <3>1, <3>2, <3>3, <3>4 DEF PackInv
  <2>5. ClientInv(c)'
    BY <1>1, <1>7, <2>4, PackagesKeep
  <2> QED
    BY <1>6, <1>7, <2>3, <2>5, Surrounded
<1>8. CASE /\ packages' = packages \cup {p} /\ UNCHANGED <<where, content, inactive>>
           /\ Disturb(c) /\ Fail(c, TRUE)
  <2>1. removing' \in [Clients -> SUBSET Objects]
    BY <1>1 DEF Types, TypeOK
  <2> QED
    BY <1>1, <1>6, <1>8, <2>1, FailKeeps
<1>9. CASE Idle /\ Fail(c, TRUE)
  BY <1>1, <1>9, FailIdle
<1>10. accepted = TRUE
  BY <1>5 DEF accepted
<1> QED
  BY <1>7, <1>8, <1>9, <1>10 DEF CreatePackage, p, accepted

LEMMA BeginObjectsKeeps ==
    ASSUME Inv, NEW c \in Clients, BeginObjects(c)
    PROVE  Inv'
<1>1. Types /\ ClientTypes /\ ClientInv(c) /\ pc[c] = "packages" /\ Idle
      /\ UNCHANGED <<disk, late, removing, original>>
      /\ UNCHANGED <<left, group, cur, plan, refs, ioc, skipped, faulty, result>>
  BY InvAt DEF Keeps, BeginObjects
<1>2. pc' \in [Clients -> Places] /\ pc'[c] = "objects" /\ \A d \in Clients : d # c => pc'[d] = pc[d]
  BY <1>1 DEF ClientTypes, BeginObjects, Goto, Places
<1>3. /\ todo' \in [Clients -> SUBSET Objects] /\ todo'[c] = Group(1)
      /\ \A d \in Clients : d # c => todo'[d] = todo[d]
  BY <1>1 DEF ClientTypes, BeginObjects, Group
<1>4. Moves(c)
  BY <1>1, <1>2, <1>3 DEF Moves, ClientTypes, Same
<1>5. Types' /\ SameServer /\ disturbed'[c] = disturbed[c] /\ (ClientInv(c)' => Inv')
  BY <1>1, <1>4, IdleStep
<1>6. /\ result[c] = "none" /\ group[c] = 1 /\ removing[c] = {} /\ cur[c] = None /\ refs[c] = {}
      /\ \A o \in Objects : <<c, o>> \notin late
  BY <1>1, TypesAt DEF ClientInv, PlaceInv, PastInv, Busy
<1>7. PlaceInv(c)' /\ PlanInv(c)' /\ PackInv(c)' /\ GuestInv(c)'
  BY <1>1, <1>2, <1>3, <1>6 DEF PlaceInv, PlanInv, PackInv, GuestInv, Busy, Active
<1>8. CalmInv(c)'
  <2>1. \A o \in Objects : ~Handled(c, o)'
    BY <1>1, <1>2, <1>3, <1>6, RankIs DEF Handled, Active, Busy
  <2> QED
    BY <1>1, <1>2, <1>6, <2>1 DEF CalmInv, HandledInv, ListsInv, CurInv, Exist
<1>9. PastInv(c)'
  <2>1. \A x \in skipped'[c] : Excused(x)'
    BY <1>1, DirectoryKept DEF ClientInv, PastInv
  <2> QED
    BY <1>1, <1>6, <2>1 DEF PastInv
<1> QED
  BY <1>5, <1>7, <1>8, <1>9 DEF ClientInv

-----------------------------------------------------------------------------
(* The handler of an object. *)
LEMMA CurAt ==
    ASSUME Inv, NEW c \in Clients, pc[c] \in Busy
    PROVE  /\ cur[c] \in Objects /\ cur[c] # None /\ cur[c] \in todo[c] /\ Rank(cur[c]) = group[c]
           /\ plan[c] \in Seq(Steps) /\ plan[c] # <<>> /\ Shape(cur[c], plan[c])
           /\ (Doing(c) = "create" => plan[c] = Handler(cur[c]))
           /\ result[c] = "none" /\ pc[c] # "done" /\ group[c] \in 1 .. 3
           /\ \A o \in Objects : <<c, o>> \notin late
           /\ Head(plan[c]) \in Steps /\ Fits(cur[c], Head(plan[c]))
           /\ todo[c] \subseteq Objects
           /\ pc[c] # "recreate" => removing[c] = {}
           /\ \A o \in removing[c] : o = cur[c]
           /\ ObjectInv(cur[c])
<1>1. Types /\ ClientInv(c)
  BY InvAt DEF Keeps
<1>2. /\ cur[c] # None /\ cur[c] \in todo[c] /\ plan[c] # <<>> /\ result[c] = "none"
      /\ pc[c] # "done" /\ group[c] # 4 /\ todo[c] \subseteq Group(group[c])
  BY <1>1 DEF ClientInv, PlaceInv, Active, Busy
<1>3. cur[c] \in Objects /\ plan[c] \in Seq(Steps) /\ group[c] \in 1 .. 4 /\ todo[c] \subseteq Objects
      /\ removing[c] \subseteq Objects
  BY <1>1, <1>2, TypesAt
<1>4. Shape(cur[c], plan[c]) /\ (Doing(c) = "create" => plan[c] = Handler(cur[c]))
  BY <1>1, <1>2 DEF ClientInv, PlanInv
<1>5. Head(plan[c]) \in Steps /\ Fits(cur[c], Head(plan[c]))
  BY <1>2, <1>3, <1>4, ShapeRest
<1>6. Rank(cur[c]) = group[c]
  BY <1>2, <1>3 DEF Group
<1>7. /\ \A o \in Objects : <<c, o>> \notin late
      /\ \A o \in removing[c] : pc[c] = "recreate" /\ o = cur[c]
  BY <1>1, <1>2, <1>3 DEF ClientInv, PastInv
<1>8. ObjectInv(cur[c])
  BY <1>3 DEF Inv
<1> QED
  BY <1>2, <1>3, <1>4, <1>5, <1>6, <1>7, <1>8

LEMMA AdvanceKeeps ==
    ASSUME Inv, NEW c \in Clients, pc[c] \in {"steps", "recreate"}, Advance(c), Served(c),
           Only(cur[c]), disk' = disk, original' = original, late' = late,
           removing' \in [Clients -> SUBSET Objects], removing'[c] = {},
           \A d \in Clients : d # c => removing'[d] = removing[d],
           ~Guest(cur[c]),
           ~disturbed[c] =>
               /\ where'[cur[c]] # "none"
               /\ Order(cur[c], Tail(plan[c]), content'[cur[c]])
               /\ Cover(Tail(plan[c]), content'[cur[c]], Known(cur[c])),
           \A o \in Objects : ObjectInv(o)'
    PROVE  Inv'
<1>1. Types /\ ClientTypes /\ ClientInv(c)
  BY InvAt DEF Keeps
<1>2. cur[c] \in Objects /\ plan[c] # <<>>
  BY CurAt DEF Busy
<1>3. Moves(c) /\ Continues(c) /\ UNCHANGED <<left, group, ioc, skipped, faulty, result>>
  BY <1>1, <1>2, AdvanceIs
<1>4. Surround(c)
  BY <1>1, <1>3 DEF Surround, Types, TypeOK
<1>5. Types' /\ disturbed'[c] = disturbed[c]
  BY <1>1, <1>4, SurroundTypes DEF Served, Noticed
<1>6. ClientInv(c)'
  BY <1>1, <1>3, <1>5, ContinueKeeps
<1> QED
  BY <1>4, <1>6, Surrounded

\* From one request of the handler of a class to the next.
LEMMA ClassGoes ==
    ASSUME Inv, NEW c \in Clients, pc[c] \in Busy, Doing(c) = "create", Kind[cur[c]] = "clas",
           NEW p \in {"fetch", "delete", "recreate"}, Goto(c, p),
           UNCHANGED <<working, skipped, faulty, result>>,
           Served(c), Only(cur[c]), UNCHANGED <<disk, late, original>>,
           removing' \in [Clients -> SUBSET Objects],
           \A d \in Clients : d # c => removing'[d] = removing[d],
           \A o \in removing'[c] : p = "recreate" /\ o = cur[c],
           p = "fetch" \/ ~Guest(cur[c]),
           ~disturbed[c] => (where'[cur[c]] = "none" <=> p = "recreate"),
           \A o \in Objects : ObjectInv(o)'
    PROVE  Inv'
<1>1. Types /\ ClientTypes /\ ClientInv(c)
  BY InvAt DEF Keeps
<1>2. /\ Moves(c) /\ pc'[c] = p
      /\ UNCHANGED <<left, group, todo, cur, plan, refs, ioc, skipped, faulty, result>>
  BY <1>1, GotoIs DEF Places
<1>3. Surround(c)
  BY <1>1, <1>2 DEF Surround, Types, TypeOK
<1>4. Types' /\ disturbed'[c] = disturbed[c]
  BY <1>1, <1>3, SurroundTypes DEF Served, Noticed
<1>5. PICK o \in Objects : o = cur[c]
  BY CurAt
<1>6. /\ o \in todo[c] /\ Rank(o) = group[c] /\ plan[c] # <<>> /\ Shape(o, plan[c]) /\ o # None
      /\ plan[c] = Handler(o) /\ result[c] = "none" /\ group[c] \in 1 .. 3
  BY <1>5, CurAt
<1>7. PlaceInv(c)' /\ PackInv(c)'
  BY <1>1, <1>2, <1>5, <1>6 DEF ClientInv, PlaceInv, PackInv, Busy, Active, Doing
<1>8. PlanInv(c)'
  <2>1. PICK s : s = plan[c]
    OBVIOUS
  <2>2. Shape(o, s)' /\ Handler(o)' = Handler(o)
    BY <1>6, <2>1, DirectoryKept
  <2> QED
    BY <1>2, <1>5, <1>6, <2>1, <2>2 DEF PlanInv
<1>9. CalmInv(c)'
  <2> SUFFICES ASSUME ~disturbed[c] PROVE HandledInv(c)' /\ ListsInv(c)' /\ CurInv(c)'
    BY <1>4 DEF CalmInv
  <2>1. HandledInv(c) /\ ListsInv(c)
    BY <1>1 DEF ClientInv, CalmInv
  <2>2. ASSUME NEW x \in Objects, Handled(c, x)'
        PROVE  Complete(x)' /\ (x \in inactive' => Rank(x) = group'[c])
    <3>1. Handled(c, x) /\ x # o
      BY <1>2, <1>6, <2>2 DEF Handled, Active
    <3>2. Complete(x) /\ (x \in inactive => Rank(x) = group[c])
      BY <2>1, <3>1 DEF HandledInv
    <3> QED
      BY <1>2, <1>5, <3>1, <3>2 DEF Complete, Only
  <2>3. HandledInv(c)'
    BY <2>2 DEF HandledInv
  <2>4. ListsInv(c)'
    <3>1. o \notin refs[c] /\ refs[c] \subseteq Objects
      BY <1>1, <1>6, TypesAt DEF ClientInv, PlaceInv, Active
    <3>2. \A x \in refs[c] : where[x] # "none"
      BY <2>1 DEF ListsInv, Exist, Active
    <3>3. \A x \in refs[c] : where'[x] # "none"
      BY <1>5, <3>1, <3>2 DEF Only
    <3> QED
      BY <1>2, <3>3 DEF ListsInv, Exist
  <2>5. CurInv(c)'
    BY <1>2, <1>5 DEF CurInv
  <2> QED
    BY <2>3, <2>4, <2>5
<1>10. PastInv(c)'
  <2>1. \A x \in skipped'[c] : Excused(x)'
    BY <1>1, <1>2, DirectoryKept DEF ClientInv, PastInv
  <2>2. \A x \in Objects : <<c, x>> \notin late'
    BY CurAt
  <2> QED
    BY <1>2, <1>5, <1>6, <2>1, <2>2 DEF PastInv
<1>11. GuestInv(c)'
  <2>1. \A x \in Objects : <<c, x>> \notin late'
    BY CurAt
  <2>2. Doing(c)' = Doing(c)
    BY <1>2 DEF Doing
  <2> QED
    BY <1>2, <1>5, <2>1, <2>2, DirectoryKept DEF GuestInv
<1>12. ClientInv(c)'
  BY <1>7, <1>8, <1>9, <1>10, <1>11 DEF ClientInv
<1> QED
  BY <1>3, <1>12, Surrounded

LEMMA PickKeeps ==
    ASSUME Inv, NEW c \in Clients, Pick(c)
    PROVE  Inv'
<1>1. Types /\ ClientTypes /\ ClientInv(c) /\ pc[c] = "objects" /\ Idle
      /\ UNCHANGED <<disk, late, removing, original>>
  BY InvAt DEF Keeps, Pick
<1>2. PICK o \in todo[c] :
          \/ disk[o] = "bad" /\ Skip(c, o)
          \/ /\ disk[o] # "bad"
             /\ cur' = [cur EXCEPT ![c] = o]
             /\ plan' = [plan EXCEPT ![c] = Handler(o)]
             /\ Goto(c, "steps")
             /\ UNCHANGED <<left, group, todo, refs, ioc, skipped, faulty, result>>
  BY DEF Pick
<1>3. o \in Objects
  BY <1>1, TypesAt
<1>4. CASE disk[o] = "bad" /\ Skip(c, o)
  <2>1. /\ Moves(c) /\ pc'[c] = "objects" /\ todo'[c] = todo[c] \ {o}
        /\ skipped'[c] = skipped[c] \cup {o} /\ cur'[c] = None /\ group' = group /\ refs' = refs
        /\ result' = result
    BY <1>1, <1>3, <1>4, SkipIs
  <2>2. Types' /\ SameServer /\ disturbed'[c] = disturbed[c] /\ (ClientInv(c)' => Inv')
    BY <1>1, <2>1, IdleStep
  <2>3. Excused(o)
    BY <1>4 DEF Excused
  <2>4. ClientInv(c)'
    BY <1>1, <2>1, <2>2, <2>3, SkipKeeps
  <2> QED
    BY <2>2, <2>4
<1>5. CASE /\ cur' = [cur EXCEPT ![c] = o]
           /\ plan' = [plan EXCEPT ![c] = Handler(o)]
           /\ Goto(c, "steps")
           /\ UNCHANGED <<left, group, todo, refs, ioc, skipped, faulty, result>>
  <2>1. pc' \in [Clients -> Places] /\ pc'[c] = "steps" /\ \A d \in Clients : d # c => pc'[d] = pc[d]
    BY <1>1, <1>5 DEF ClientTypes, Goto, Places
  <2>2. /\ Handler(o) \in Seq(Steps) /\ Handler(o) # <<>> /\ Head(Handler(o)).do = "create"
        /\ Shape(o, Handler(o))
    BY <1>3, HandlerIs
  <2>3. PICK s : s = Handler(o)
    OBVIOUS
  <2>4. /\ plan' \in [Clients -> Seq(Steps)] /\ plan'[c] = s
        /\ \A d \in Clients : d # c => plan'[d] = plan[d]
    BY <1>1, <1>5, <2>2, <2>3 DEF ClientTypes
  <2>5. /\ cur' \in [Clients -> Objects \cup {None}] /\ cur'[c] = o
        /\ \A d \in Clients : d # c => cur'[d] = cur[d]
    BY <1>1, <1>3, <1>5 DEF ClientTypes
  <2>6. Moves(c)
    BY <1>1, <1>5, <2>1, <2>4, <2>5 DEF Moves, ClientTypes, Same
  <2>7. Types' /\ SameServer /\ disturbed'[c] = disturbed[c] /\ (ClientInv(c)' => Inv')
    BY <1>1, <2>6, IdleStep
  <2>8. Doing(c)' = "create" /\ o # None
    BY <1>3, <2>2, <2>3, <2>4, RankIs DEF Doing
  <2>9. PlaceInv(c)' /\ PackInv(c)'
    BY <1>1, <1>5, <2>1, <2>2, <2>3, <2>4, <2>5, <2>8 DEF ClientInv, PlaceInv, PackInv, Busy, Active
  <2>10. PlanInv(c)'
    <3>1. Shape(o, s)' /\ Handler(o)' = Handler(o)
      BY <1>1, <2>2, <2>3, DirectoryKept
    <3> QED
      BY <2>3, <2>4, <2>5, <3>1 DEF PlanInv
  <2>11. CalmInv(c)'
    <3> SUFFICES ASSUME ~disturbed[c] PROVE HandledInv(c)' /\ ListsInv(c)' /\ CurInv(c)'
      BY <2>7 DEF CalmInv
    <3>1. HandledInv(c) /\ ListsInv(c)
      BY <1>1 DEF ClientInv, CalmInv
    <3>2. ASSUME NEW x \in Objects, Handled(c, x)' PROVE Handled(c, x)
      BY <1>1, <1>5, <2>1, <3>2 DEF Handled, Active, Busy
    <3>3. HandledInv(c)'
      BY <1>5, <2>7, <3>1, <3>2 DEF HandledInv, Complete, SameServer
    <3>4. ListsInv(c)'
      BY <1>1, <1>5, <2>1, <2>7, <3>1 DEF ListsInv, Exist, SameServer, Active, Busy
    <3> QED
      BY <2>1, <2>8, <3>3, <3>4 DEF CurInv
  <2>12. PastInv(c)'
    <3>1. \A x \in skipped'[c] : Excused(x)'
      BY <1>1, <1>5, DirectoryKept DEF ClientInv, PastInv
    <3> QED
      BY <1>1, <1>5, <3>1 DEF PastInv, ClientInv, PlaceInv
  <2>13. GuestInv(c)'
    BY <1>1, <2>1, <2>8, DirectoryKept DEF GuestInv, ClientInv
  <2> QED
    BY <2>7, <2>9, <2>10, <2>11, <2>12, <2>13 DEF ClientInv
<1> QED
  BY <1>2, <1>4, <1>5

\* After its creation an object is ready for the steps of its files.
LEMMA AfterCreate ==
    ASSUME Inv, NEW c \in Clients, pc[c] \in Busy, Doing(c) = "create"
    PROVE  \A has : /\ Order(cur[c], Tail(plan[c]), has)
                    /\ Cover(Tail(plan[c]), has, Known(cur[c]))
<1>1. cur[c] \in Objects /\ plan[c] = Handler(cur[c])
  BY CurAt
<1> QED
  BY <1>1, HandlerIs

\* A created object is nobody else's, and has what it needs.
LEMMA CreatedObjects ==
    ASSUME Inv, NEW c \in Clients, NEW o \in Objects, ServeCreate(c, o), original' = original,
           \A d \in Clients : \A x \in removing[d] : x # o => x \in removing'[d]
    PROVE  ~Guest(o) /\ \A x \in Objects : ObjectInv(x)'
<1>1. Types /\ ObjectInv(o)
  BY DEF Inv
<1>2. /\ Served(c) /\ Only(o) /\ where[o] = "none" /\ where'[o] = "here"
      /\ \A p \in Parts(o) : content'[o][p] = IF Kind[o] = "fugr" THEN "none" ELSE "other"
  BY <1>1, CreateServes
<1>3. ~Guest(o)
  BY <1>1, <1>2 DEF ObjectInv
<1>4. \A x \in Objects : ObjectInv(x)'
  BY <1>2, <1>3, ObjectsTouched
<1> QED
  BY <1>3, <1>4

LEMMA CreateKeeps ==
    ASSUME Inv, NEW c \in Clients, Create(c)
    PROVE  Inv'
<1>1. /\ pc[c] = "steps" /\ pc[c] \in Busy /\ Doing(c) = "create"
      /\ UNCHANGED <<disk, late, removing, original>>
  BY DEF Create, Busy
<1>2. PICK o \in Objects : o = cur[c]
  BY <1>1, CurAt
<1>3. /\ ObjectInv(o) /\ removing[c] = {} /\ pc[c] # "done" /\ Rank(o) = group[c]
      /\ Types /\ removing' \in [Clients -> SUBSET Objects] /\ group[c] \in 1 .. 3
  BY <1>1, <1>2, CurAt DEF Inv, Types, TypeOK
<1>4. ASSUME ServeCreate(c, o)
      PROVE  /\ Served(c) /\ Only(o) /\ where'[o] = "here" /\ ~Guest(o)
             /\ \A x \in Objects : ObjectInv(x)'
  BY <1>1, <1>2, <1>3, <1>4, CreateServes, CreatedObjects
<1>5. ASSUME Idle
      PROVE  /\ Served(c) /\ Only(o) /\ where' = where
             /\ \A x \in Objects : ObjectInv(x)'
  <2>1. Served(c) /\ Only(o) /\ server' = server
    BY <1>3, <1>5, IdleServes
  <2>2. where' = where /\ content' = content /\ inactive' = inactive
    BY <2>1 DEF server
  <2> QED
    BY <1>1, <2>1, <2>2, ObjectsStay
<1>6. CASE ServeCreate(c, o) /\ Advance(c)
  BY <1>1, <1>2, <1>3, <1>4, <1>6, AfterCreate, AdvanceKeeps
<1>7. CASE where[o] # "none" /\ Kind[o] # "clas" /\ Idle /\ Advance(c)
  <2>1. ~Guest(o)
    BY <1>7 DEF Guest
  <2> QED
    BY <1>1, <1>2, <1>3, <1>5, <1>7, <2>1, AfterCreate, AdvanceKeeps
<1>8. CASE /\ where[o] # "none" /\ Kind[o] = "clas" /\ Idle
           /\ Goto(c, "fetch")
           /\ UNCHANGED <<working, skipped, faulty, result>>
  BY <1>1, <1>2, <1>3, <1>5, <1>8, ClassGoes
<1>9. CASE ServeCreate(c, o) /\ Fail(c, TRUE)
  <2>1. \A x \in Objects : Rank(x) < group[c] => x # o
    BY <1>3
  <2> QED
    BY <1>1, <1>3, <1>4, <1>9, <2>1, FailKeeps DEF Only
<1>10. CASE Idle /\ Fail(c, TRUE)
  BY <1>1, <1>3, <1>10, FailIdle
<1> QED
  BY <1>2, <1>6, <1>7, <1>8, <1>9, <1>10 DEF Create

LEMMA FetchClassKeeps ==
    ASSUME Inv, NEW c \in Clients, FetchClass(c)
    PROVE  Inv'
<1>1. /\ pc[c] = "fetch" /\ pc[c] \in Busy /\ Idle
      /\ UNCHANGED <<disk, late, removing, original>>
  BY DEF FetchClass, Busy
<1>2. PICK o \in Objects : o = cur[c]
  BY <1>1, CurAt
<1>3. /\ ObjectInv(o) /\ removing[c] = {} /\ pc[c] # "done" /\ o \in todo[c]
      /\ Types /\ ClientTypes /\ ClientInv(c) /\ removing' \in [Clients -> SUBSET Objects]
      /\ Doing(c) = "create" /\ Kind[o] = "clas"
  BY <1>1, <1>2, CurAt, InvAt DEF Keeps, Types, TypeOK, ClientInv, PlaceInv
<1>4. Served(c) /\ Only(o) /\ where' = where /\ content' = content /\ inactive' = inactive
  BY <1>1, <1>3, IdleServes DEF server
<1>5. \A x \in Objects : ObjectInv(x)'
  BY <1>1, <1>4, ObjectsStay
<1>6. CASE /\ where[o] = "here" /\ Home[o] \in Capitals /\ Goto(c, "delete")
           /\ UNCHANGED <<working, skipped, faulty, result>>
  <2>1. ~Guest(o)
    BY <1>3, <1>6 DEF ObjectInv
  <2> QED
    BY <1>1, <1>2, <1>3, <1>4, <1>5, <1>6, <2>1, ClassGoes
<1>7. CASE where[o] # "none" /\ ~(where[o] = "here" /\ Home[o] \in Capitals) /\ Skip(c, o)
  <2>1. /\ Moves(c) /\ pc'[c] = "objects" /\ todo'[c] = todo[c] \ {o}
        /\ skipped'[c] = skipped[c] \cup {o} /\ cur'[c] = None /\ group' = group /\ refs' = refs
        /\ result' = result
    BY <1>3, <1>7, SkipIs
  <2>2. Types' /\ SameServer /\ disturbed'[c] = disturbed[c] /\ (ClientInv(c)' => Inv')
    BY <1>1, <2>1, IdleStep
  <2>3. Excused(o)
    <3>1. where[o] = "elsewhere" \/ Home[o] \notin Capitals
      BY <1>3, <1>7, TypesAt
    <3> QED
      BY <1>3, <3>1 DEF Excused, ObjectInv
  <2>4. ClientInv(c)'
    BY <1>1, <1>3, <2>1, <2>2, <2>3, SkipKeeps
  <2> QED
    BY <2>2, <2>4
<1>8. CASE Fail(c, where[o] # "none")
  <2>1. (where[o] # "none") \/ disturbed[c]
    BY <1>1, <1>2, <1>3 DEF ClientInv, CalmInv, CurInv
  <2> QED
    BY <1>1, <1>3, <1>8, <2>1, FailIdle
<1> QED
  BY <1>2, <1>6, <1>7, <1>8 DEF FetchClass

LEMMA DeleteClassKeeps ==
    ASSUME Inv, NEW c \in Clients, DeleteClass(c)
    PROVE  Inv'
<1>1. /\ pc[c] = "delete" /\ pc[c] \in Busy /\ disk' = disk /\ original' = original
  BY DEF DeleteClass, Busy
<1>2. PICK o \in Objects : o = cur[c]
  BY <1>1, CurAt
<1>3. /\ ObjectInv(o) /\ removing[c] = {} /\ pc[c] # "done" /\ o \in todo[c]
      /\ Types /\ ClientInv(c) /\ Doing(c) = "create" /\ Kind[o] = "clas" /\ ~Guest(o)
      /\ Rank(o) = group[c] /\ \A x \in Objects : <<c, x>> \notin late
  BY <1>1, <1>2, CurAt, InvAt DEF Keeps, ClientInv, PlaceInv, GuestInv
<1>4. /\ removing' \in [Clients -> SUBSET Objects] /\ removing'[c] = {o}
      /\ \A d \in Clients : d # c => removing'[d] = removing[d]
  <2>1. removing' = [removing EXCEPT ![c] = removing[c] \cup {o}]
    BY <1>2 DEF DeleteClass
  <2> QED
    BY <1>3, <2>1 DEF Types, TypeOK
<1>5. ASSUME ServeDelete(c, o)
      PROVE  /\ Served(c) /\ Only(o) /\ where'[o] = "none"
             /\ \A x \in Objects : ObjectInv(x)'
  <2>1. Served(c) /\ Only(o) /\ where[o] # "none" /\ where'[o] = "none" /\ o \notin inactive'
    BY <1>3, <1>5, DeleteServes
  <2>2. o \in removing'[c]
    BY <1>4
  <2>3. \A d \in Clients : \A x \in removing[d] : x # o => x \in removing'[d]
    BY <1>3, <1>4
  <2>4. \A x \in Objects : ObjectInv(x)'
    BY <1>1, <1>3, <2>1, <2>2, <2>3, ObjectsTouched
  <2> QED
    BY <2>1, <2>4
<1>6. \A x \in Objects : Rank(x) < group[c] => x # o
  BY <1>3, RankIs
<1>7. CASE /\ ServeDelete(c, o) /\ Goto(c, "recreate")
           /\ UNCHANGED <<late, working, skipped, faulty, result>>
  <2>1. UNCHANGED <<working, skipped, faulty, result>> /\ UNCHANGED <<disk, late, original>>
    BY <1>1, <1>7
  <2> QED
    BY <1>1, <1>2, <1>3, <1>4, <1>5, <1>7, <2>1, ClassGoes
<1>8. CASE ServeDelete(c, o) /\ UNCHANGED late /\ Fail(c, TRUE)
  BY <1>1, <1>3, <1>4, <1>5, <1>6, <1>8, FailKeeps DEF Only
<1>9. CASE /\ Idle /\ late' \in {late, late \cup {<<c, o>>}}
           /\ Fail(c, where[o] # "none" \/ late' # late)
  <2>1. Served(c) /\ server' = server
    BY <1>3, <1>9, IdleServes
  <2>2. where' = where /\ content' = content /\ inactive' = inactive
    BY <2>1 DEF server
  <2>3. \A d \in Clients : removing[d] \subseteq removing'[d]
    BY <1>3, <1>4
  <2>4. \A x \in Objects : ObjectInv(x)'
    BY <1>1, <2>2, <2>3, ObjectsStay
  <2>5. (where[o] # "none" \/ late' # late) \/ disturbed[c]
    BY <1>1, <1>2, <1>3 DEF ClientInv, CalmInv, CurInv
  <2>6. /\ late' \subseteq late \cup {<<c, x>> : x \in Objects}
        /\ \A x \in Objects : <<c, x>> \in late' => x = o
    BY <1>3, <1>9
  <2> QED
    BY <1>1, <1>3, <1>4, <1>9, <2>1, <2>2, <2>4, <2>5, <2>6, FailKeeps
<1> QED
  BY <1>2, <1>7, <1>8, <1>9 DEF DeleteClass

LEMMA RecreateKeeps ==
    ASSUME Inv, NEW c \in Clients, Recreate(c)
    PROVE  Inv'
<1>1. pc[c] = "recreate" /\ pc[c] \in Busy /\ UNCHANGED <<disk, late, original>>
  BY DEF Recreate, Busy
<1>2. PICK o \in Objects : o = cur[c]
  BY <1>1, CurAt
<1>3. /\ pc[c] # "done" /\ Types /\ ClientInv(c) /\ Doing(c) = "create" /\ ~Guest(o)
      /\ Rank(o) = group[c] /\ \A x \in removing[c] : x = o
      /\ removing \in [Clients -> SUBSET Objects]
  BY <1>1, <1>2, CurAt, InvAt DEF Keeps, ClientInv, PlaceInv, GuestInv, Types, TypeOK
<1>4. CASE ServeCreate(c, o) /\ Advance(c) /\ removing' = [removing EXCEPT ![c] = @ \ {o}]
  <2>1. /\ removing' \in [Clients -> SUBSET Objects] /\ removing'[c] = {}
        /\ \A d \in Clients : d # c => removing'[d] = removing[d]
    BY <1>3, <1>4
  <2>2. \A d \in Clients : \A x \in removing[d] : x # o => x \in removing'[d]
    BY <1>3, <2>1
  <2>3. \A x \in Objects : ObjectInv(x)'
    BY <1>1, <1>4, <2>2, CreatedObjects
  <2>4. Served(c) /\ Only(o) /\ where'[o] = "here"
    BY <1>3, <1>4, CreateServes
  <2> QED
    BY <1>1, <1>2, <1>3, <1>4, <2>1, <2>3, <2>4, AfterCreate, AdvanceKeeps
<1>5. CASE ServeCreate(c, o) /\ Fail(c, TRUE) /\ UNCHANGED removing
  <2>1. \A x \in Objects : ObjectInv(x)'
    BY <1>1, <1>5, CreatedObjects
  <2>2. Served(c) /\ Only(o)
    BY <1>3, <1>5, CreateServes
  <2>3. \A x \in Objects : Rank(x) < group[c] => x # o
    BY <1>3, RankIs
  <2> QED
    BY <1>1, <1>3, <1>5, <2>1, <2>2, <2>3, FailKeeps DEF Only
<1>6. CASE Idle /\ Fail(c, where[o] = "none") /\ UNCHANGED removing
  <2>1. (where[o] = "none") \/ disturbed[c]
    BY <1>1, <1>2, <1>3 DEF ClientInv, CalmInv, CurInv
  <2> QED
    BY <1>1, <1>3, <1>6, <2>1, FailIdle
<1> QED
  BY <1>2, <1>4, <1>5, <1>6 DEF Recreate

LEMMA BadPartKeeps ==
    ASSUME Inv, NEW c \in Clients, BadPart(c)
    PROVE  Inv'
<1>1. /\ pc[c] = "steps" /\ pc[c] \in Busy /\ Doing(c) = "raise" /\ Skip(c, cur[c]) /\ Idle
      /\ UNCHANGED <<disk, late, removing, original>>
  BY DEF BadPart, Busy
<1>2. PICK o \in Objects : o = cur[c]
  BY <1>1, CurAt
<1>3. o \in todo[c] /\ Types /\ ClientTypes /\ ClientInv(c) /\ disk[o] = "badpart"
  BY <1>1, <1>2, CurAt, InvAt DEF Keeps, Fits, Doing
<1>4. /\ Moves(c) /\ pc'[c] = "objects" /\ todo'[c] = todo[c] \ {o}
      /\ skipped'[c] = skipped[c] \cup {o} /\ cur'[c] = None /\ group' = group /\ refs' = refs
      /\ result' = result
  BY <1>1, <1>2, <1>3, SkipIs
<1>5. Types' /\ SameServer /\ disturbed'[c] = disturbed[c] /\ (ClientInv(c)' => Inv')
  BY <1>1, <1>4, IdleStep
<1>6. Excused(o)
  BY <1>3 DEF Excused
<1>7. ClientInv(c)'
  BY <1>1, <1>3, <1>4, <1>5, <1>6, SkipKeeps
<1> QED
  BY <1>5, <1>7

\* At a step of the handler after the creation.
LEMMA PartAt ==
    ASSUME Inv, NEW c \in Clients, pc[c] = "steps", Doing(c) \in {"part", "write", "push"},
           NEW o \in Objects, o = cur[c]
    PROVE  /\ Part(c) \in Parts(o) /\ ~Guest(o) /\ ObjectInv(o) /\ removing[c] = {}
           /\ Rank(o) = group[c]
           /\ Head(plan[c]).do = Doing(c) /\ Head(plan[c]).part = Part(c)
           /\ plan[c] \in Seq(Steps) /\ plan[c] # <<>> /\ \A k \in DOMAIN plan[c] : Fits(o, plan[c][k])
           /\ content[o] \in [Parts(o) -> {"none", "other", "file"}]
           /\ ~disturbed[c] => Going(o, plan[c])
           /\ ~disturbed[c] /\ Doing(c) # "part" => content[o][Part(c)] # "none"
<1>1. pc[c] \in Busy
  BY DEF Busy
<1>2. /\ Types /\ ClientInv(c) /\ ObjectInv(o) /\ removing[c] = {} /\ Shape(o, plan[c])
      /\ Fits(o, Head(plan[c])) /\ plan[c] \in Seq(Steps) /\ plan[c] # <<>> /\ o # None
      /\ Rank(o) = group[c]
  BY <1>1, CurAt, InvAt DEF Keeps
<1>3. Part(c) \in Parts(o) /\ Head(plan[c]).do = Doing(c) /\ Head(plan[c]).part = Part(c)
  BY <1>2 DEF Fits, Doing, Part
<1>4. ~Guest(o)
  BY <1>2 DEF ClientInv, GuestInv
<1>5. ~disturbed[c] => Going(o, plan[c])
  BY <1>2 DEF ClientInv, CalmInv, CurInv
<1>6. ASSUME ~disturbed[c], Doing(c) # "part" PROVE content[o][Part(c)] # "none"
  <2>1. CASE Kind[o] = "fugr"
    <3>1. 1 \in DOMAIN plan[c] /\ plan[c][1] = Head(plan[c])
      BY <1>2
    <3>2. Order(o, plan[c], content[o])
      BY <1>5, <1>6 DEF Going
    <3>3. ~\E j \in 1 .. (1 - 1) : TRUE
      OBVIOUS
    <3> QED
      BY <1>3, <1>6, <2>1, <3>1, <3>2, <3>3 DEF Order
  <2>2. CASE Kind[o] # "fugr"
    BY <1>2, <1>3, <1>5, <1>6, <2>2 DEF ObjectInv, Going
  <2> QED
    BY <2>1, <2>2
<1>7. content[o] \in [Parts(o) -> {"none", "other", "file"}]
  BY <1>2, TypesAt
<1> QED
  BY <1>2, <1>3, <1>4, <1>5, <1>6, <1>7 DEF Shape

\* A part is changed on the server.
LEMMA PartChanges ==
    ASSUME Inv, NEW c \in Clients, pc[c] = "steps", Doing(c) \in {"part", "write", "push"},
           NEW o \in Objects, o = cur[c], NEW text \in {"none", "other", "file"},
           ServePart(c, o, Part(c), text), original' = original, removing' = removing,
           text = "none" => content[o][Part(c)] = "none"
    PROVE  /\ Served(c) /\ Only(o) /\ where' = where /\ where[o] # "none"
           /\ content'[o][Part(c)] = text
           /\ \A q \in Parts(o) : q # Part(c) => content'[o][q] = content[o][q]
           /\ \A x \in Objects : ObjectInv(x)'
<1>1. /\ Types /\ Part(c) \in Parts(o) /\ ~Guest(o) /\ ObjectInv(o)
      /\ content[o] \in [Parts(o) -> {"none", "other", "file"}]
  BY PartAt DEF Inv
<1>2. /\ Served(c) /\ Only(o) /\ where[o] # "none" /\ where' = where
      /\ content'[o][Part(c)] = text
      /\ \A q \in Parts(o) : q # Part(c) => content'[o][q] = content[o][q]
  BY <1>1, PartServes
<1>3. Kind[o] # "fugr" => \A p \in Parts(o) : content'[o][p] # "none"
  BY <1>1, <1>2 DEF ObjectInv
<1>4. \A x \in Objects : ObjectInv(x)'
  BY <1>1, <1>2, <1>3, ObjectsTouched
<1> QED
  BY <1>2, <1>4

LEMMA CreatePartKeeps ==
    ASSUME Inv, NEW c \in Clients, CreatePart(c)
    PROVE  Inv'
<1>1. /\ pc[c] = "steps" /\ pc[c] \in Busy /\ Doing(c) = "part"
      /\ UNCHANGED <<disk, late, removing, original>>
  BY DEF CreatePart, Busy
<1>2. PICK o \in Objects : o = cur[c]
  BY <1>1, CurAt
<1>3. PICK p : p = Part(c)
  OBVIOUS
<1>4. /\ p \in Parts(o) /\ ~Guest(o) /\ removing[c] = {} /\ Rank(o) = group[c]
      /\ Head(plan[c]).do = "part" /\ Head(plan[c]).part = p
      /\ plan[c] \in Seq(Steps) /\ plan[c] # <<>> /\ \A k \in DOMAIN plan[c] : Fits(o, plan[c][k])
      /\ ~disturbed[c] => Going(o, plan[c])
  BY <1>1, <1>2, <1>3, PartAt
<1>5. pc[c] # "done" /\ Types /\ removing' \in [Clients -> SUBSET Objects]
  BY <1>1 DEF Inv, Types, TypeOK
<1>6. ASSUME ServePart(c, o, p, "other")
      PROVE  /\ Served(c) /\ Only(o) /\ where' = where /\ where[o] # "none"
             /\ content'[o][p] = "other"
             /\ \A q \in Parts(o) : q # p => content'[o][q] = content[o][q]
             /\ \A x \in Objects : ObjectInv(x)'
  BY <1>1, <1>2, <1>3, <1>6, PartChanges
<1>7. CASE content[o][p] = "none" /\ ServePart(c, o, p, "other") /\ Advance(c)
  <2>1. ASSUME ~disturbed[c]
        PROVE  /\ where'[o] # "none" /\ Order(o, Tail(plan[c]), content'[o])
               /\ Cover(Tail(plan[c]), content'[o], Known(o))
    <3>1. /\ Order(o, plan[c], content[o]) /\ Cover(plan[c], content[o], Known(o))
          /\ \A q \in Parts(o) : content[o][q] # "none" => content'[o][q] # "none"
          /\ \A q \in Known(o) : content[o][q] = "file" => content'[o][q] = "file"
          /\ content'[o][p] # "none"
      BY <1>4, <1>6, <1>7, <2>1 DEF Going, Known
    <3> QED
      BY <1>4, <1>6, <1>7, <3>1, OrderRest, CoverRest
  <2> QED
    BY <1>1, <1>2, <1>4, <1>5, <1>6, <1>7, <2>1, AdvanceKeeps
<1>8. CASE content[o][p] # "none" /\ Idle /\ Advance(c)
  <2>1. Served(c) /\ Only(o) /\ server' = server
    BY <1>5, <1>8, IdleServes
  <2>2. where' = where /\ content' = content /\ inactive' = inactive
    BY <2>1 DEF server
  <2>3. \A x \in Objects : ObjectInv(x)'
    BY <1>1, <2>2, ObjectsStay
  <2>4. ASSUME ~disturbed[c]
        PROVE  /\ where'[o] # "none" /\ Order(o, Tail(plan[c]), content'[o])
               /\ Cover(Tail(plan[c]), content'[o], Known(o))
    <3>1. where[o] # "none" /\ Order(o, plan[c], content[o]) /\ Cover(plan[c], content[o], Known(o))
      BY <1>4, <2>4 DEF Going
    <3> QED
      BY <1>4, <1>8, <2>2, <3>1, OrderRest, CoverRest
  <2> QED
    BY <1>1, <1>2, <1>4, <1>5, <2>1, <2>3, <2>4, <1>8, AdvanceKeeps
<1>9. (where[o] # "none") \/ disturbed[c]
  BY <1>4 DEF Going
<1>10. CASE ServePart(c, o, p, "other") /\ Fail(c, where[o] # "none")
  <2>1. \A x \in Objects : Rank(x) < group[c] => x # o
    BY <1>4, RankIs
  <2> QED
    BY <1>1, <1>5, <1>6, <1>9, <1>10, <2>1, FailKeeps DEF Only
<1>11. CASE Idle /\ Fail(c, where[o] # "none")
  BY <1>1, <1>5, <1>9, <1>11, FailIdle
<1> QED
  BY <1>2, <1>3, <1>7, <1>8, <1>10, <1>11 DEF CreatePart

LEMMA EditKeeps ==
    ASSUME Inv, NEW c \in Clients, Edit(c)
    PROVE  Inv'
<1>1. /\ pc[c] = "steps" /\ pc[c] \in Busy /\ Doing(c) \in {"write", "push"}
      /\ UNCHANGED <<disk, late, removing, original>>
  BY DEF Edit, Busy
<1>2. PICK o \in Objects : o = cur[c]
  BY <1>1, CurAt
<1>3. PICK p, text : p = Part(c) /\ text = IF Doing(c) = "write" THEN "file" ELSE content[o][p]
  OBVIOUS
<1>4. /\ p \in Parts(o) /\ ~Guest(o) /\ removing[c] = {} /\ Rank(o) = group[c]
      /\ Head(plan[c]).do = Doing(c) /\ Head(plan[c]).part = p
      /\ plan[c] \in Seq(Steps) /\ plan[c] # <<>> /\ \A k \in DOMAIN plan[c] : Fits(o, plan[c][k])
      /\ ~disturbed[c] => Going(o, plan[c])
      /\ ~disturbed[c] => content[o][p] # "none"
      /\ content[o] \in [Parts(o) -> {"none", "other", "file"}]
  BY <1>1, <1>2, <1>3, PartAt
<1>5. pc[c] # "done" /\ Types /\ removing' \in [Clients -> SUBSET Objects]
  BY <1>1 DEF Inv, Types, TypeOK
<1>6. ASSUME ServePart(c, o, p, text)
      PROVE  /\ Served(c) /\ Only(o) /\ where' = where /\ where[o] # "none"
             /\ content'[o][p] = text
             /\ \A q \in Parts(o) : q # p => content'[o][q] = content[o][q]
             /\ \A x \in Objects : ObjectInv(x)'
  <2>1. text \in {"none", "other", "file"} /\ (text = "none" => content[o][p] = "none")
    BY <1>3, <1>4
  <2> QED
    BY <1>1, <1>2, <1>3, <1>6, <2>1, PartChanges
<1>7. CASE ServePart(c, o, p, text) /\ Advance(c)
  <2>1. ASSUME ~disturbed[c]
        PROVE  /\ where'[o] # "none" /\ Order(o, Tail(plan[c]), content'[o])
               /\ Cover(Tail(plan[c]), content'[o], Known(o))
    <3>1. /\ Order(o, plan[c], content[o]) /\ Cover(plan[c], content[o], Known(o))
          /\ \A q \in Parts(o) : content[o][q] # "none" => content'[o][q] # "none"
          /\ \A q \in Known(o) : content[o][q] = "file" => content'[o][q] = "file"
          /\ Doing(c) = "write" => content'[o][p] = "file"
      BY <1>3, <1>4, <1>6, <1>7, <2>1 DEF Going, Known
    <3> QED
      BY <1>1, <1>4, <1>6, <1>7, <3>1, OrderRest, CoverRest
  <2> QED
    BY <1>1, <1>2, <1>4, <1>5, <1>6, <1>7, <2>1, AdvanceKeeps
<1>8. (where[o] # "none" /\ content[o][p] # "none") \/ disturbed[c]
  BY <1>4 DEF Going
<1>9. CASE ServePart(c, o, p, text) /\ Fail(c, where[o] # "none" /\ content[o][p] # "none")
  <2>1. \A x \in Objects : Rank(x) < group[c] => x # o
    BY <1>4, RankIs
  <2> QED
    BY <1>1, <1>5, <1>6, <1>8, <1>9, <2>1, FailKeeps DEF Only
<1>10. CASE Idle /\ Fail(c, where[o] # "none" /\ content[o][p] # "none")
  BY <1>1, <1>5, <1>8, <1>10, FailIdle
<1> QED
  BY <1>2, <1>3, <1>7, <1>9, <1>10 DEF Edit

-----------------------------------------------------------------------------
(* The end of a group. *)

\* Every object of the group was handled, and what is activated is not more.
LEMMA NextGroupKeeps ==
    ASSUME Inv, NEW c \in Clients, pc[c] \in {"objects", "activate", "confirm"}, todo[c] = {},
           NextGroup(c), Served(c), packages' = packages, where' = where, content' = content,
           inactive' \subseteq inactive, inactive' \cap refs[c] = {},
           UNCHANGED <<disk, late, removing, original>>
    PROVE  Inv'
<1>1. Types /\ ClientTypes /\ ClientInv(c)
  BY InvAt DEF Keeps
<1>2. group[c] \in 1 .. 3
  BY <1>1, TypesAt DEF ClientInv, PlaceInv
<1>3. /\ Moves(c) /\ group'[c] = group[c] + 1 /\ UNCHANGED <<skipped, faulty>>
      /\ \/ group[c] = 3 /\ Stopped(c, "ok")
         \/ /\ group[c] # 3
            /\ pc'[c] = "objects" /\ todo'[c] = Group(group[c] + 1)
            /\ refs'[c] = {} /\ ioc'[c] = {} /\ UNCHANGED <<left, cur, plan, result>>
  BY <1>1, <1>2, NextGroupIs
<1>4. Surround(c)
  BY <1>1, <1>3, QuietSurround
<1>5. Types' /\ disturbed'[c] = disturbed[c]
  BY <1>1, <1>4, SurroundTypes DEF Served, Noticed
<1>6. \A o \in Objects : o \in inactive' => o \in inactive /\ o \notin refs[c]
  OBVIOUS
<1>7. ClientInv(c)'
  BY <1>1, <1>3, <1>5, <1>6, GroupKeeps
<1>8. \A o \in Objects : ObjectInv(o)'
  BY ObjectsStay
<1> QED
  BY <1>4, <1>7, <1>8, Surrounded

\* Nothing happens but that the activation is asked for, or is to be confirmed.
LEMMA ActivationGoes ==
    ASSUME Inv, NEW c \in Clients, pc[c] \in {"objects", "activate"}, todo[c] = {},
           NEW p \in {"activate", "confirm"}, pc'[c] = p, Moves(c), Idle,
           UNCHANGED <<disk, late, removing, original>>,
           UNCHANGED <<left, group, todo, cur, plan, refs, skipped, faulty, result>>,
           p = "confirm" => refs[c] \subseteq ioc'[c] /\ \A o \in ioc'[c] : o \in refs[c] \/ o \in inactive
    PROVE  Inv'
<1>1. Types /\ ClientInv(c) /\ \A o \in Objects : ObjectInv(o)
  BY InvAt DEF Keeps
<1>2. Types' /\ SameServer /\ disturbed'[c] = disturbed[c] /\ (ClientInv(c)' => Inv')
  BY IdleStep
<1>3. /\ result[c] = "none" /\ cur[c] = None /\ removing[c] = {}
      /\ \A o \in Objects : <<c, o>> \notin late
  BY <1>1, TypesAt DEF ClientInv, PlaceInv, PastInv, Busy
<1>4. PlaceInv(c)' /\ PlanInv(c)' /\ PackInv(c)' /\ GuestInv(c)'
  BY <1>1, <1>3 DEF ClientInv, PlaceInv, PlanInv, PackInv, GuestInv, Busy, Active
<1>5. CalmInv(c)'
  <2> SUFFICES ASSUME ~disturbed[c] PROVE HandledInv(c)' /\ ListsInv(c)' /\ CurInv(c)'
    BY <1>2 DEF CalmInv
  <2>1. HandledInv(c) /\ ListsInv(c)
    BY <1>1 DEF ClientInv, CalmInv
  <2>2. \A x \in Objects : Handled(c, x)' => Handled(c, x)
    BY DEF Handled, Active, Busy
  <2>3. HandledInv(c)'
    BY <1>2, <2>1, <2>2 DEF HandledInv, Complete, SameServer
  <2>4. \A x \in refs[c] : where[x] # "none"
    BY <2>1 DEF ListsInv, Exist, Active, Busy
  <2>5. \A x \in inactive : where[x] # "none"
    BY <1>1 DEF ObjectInv, Types, TypeOK
  <2>6. ListsInv(c)'
    BY <1>2, <2>4, <2>5 DEF ListsInv, Exist, SameServer
  <2> QED
    BY <2>3, <2>6 DEF CurInv
<1>6. PastInv(c)'
  <2>1. \A x \in skipped'[c] : Excused(x)'
    BY <1>1, DirectoryKept DEF ClientInv, PastInv
  <2> QED
    BY <1>3, <2>1 DEF PastInv
<1> QED
  BY <1>2, <1>4, <1>5, <1>6 DEF ClientInv

LEMMA EndGroupKeeps ==
    ASSUME Inv, NEW c \in Clients, EndGroup(c)
    PROVE  Inv'
<1>1. /\ pc[c] = "objects" /\ todo[c] = {} /\ Idle /\ UNCHANGED <<disk, late, removing, original>>
      /\ Types /\ ClientTypes
  BY InvAt DEF EndGroup, Keeps
<1>2. CASE refs[c] = {} /\ NextGroup(c)
  <2>1. Served(c) /\ server' = server
    BY <1>1, IdleServes
  <2>2. packages' = packages /\ where' = where /\ content' = content /\ inactive' = inactive
    BY <2>1 DEF server
  <2> QED
    BY <1>1, <1>2, <2>1, <2>2, NextGroupKeeps
<1>3. CASE Goto(c, "activate") /\ UNCHANGED <<working, skipped, faulty, result>>
  <2>1. /\ Moves(c) /\ pc'[c] = "activate"
        /\ UNCHANGED <<left, group, todo, cur, plan, refs, ioc, skipped, faulty, result>>
    BY <1>1, <1>3, GotoIs DEF Places
  <2> QED
    BY <1>1, <2>1, ActivationGoes
<1> QED
  BY <1>2, <1>3 DEF EndGroup

LEMMA OutcomeKeeps ==
    ASSUME Inv, NEW c \in Clients, pc[c] \in {"activate", "confirm"},
           NEW asked \in SUBSET Objects, refs[c] \subseteq asked, Outcome(c, asked),
           ~disturbed[c] => Exist(asked),
           UNCHANGED <<disk, late, removing, original>>
    PROVE  Inv'
<1>1. Types /\ ClientInv(c) /\ todo[c] = {}
  BY InvAt DEF Keeps, ClientInv, PlaceInv
<1>2. CASE Activated(c, asked) /\ NextGroup(c)
  <2>1. Served(c) /\ UNCHANGED <<packages, where, content>> /\ inactive' = inactive \ asked
    BY <1>1, <1>2, ActivationServes
  <2> QED
    BY <1>1, <1>2, <2>1, NextGroupKeeps
<1>3. ASSUME NEW done \in SUBSET asked, Activated(c, done), Fail(c, Exist(asked))
      PROVE  Inv'
  <2>1. Served(c) /\ UNCHANGED <<packages, where, content>> /\ inactive' = inactive \ done
    BY <1>1, <1>3, ActivationServes
  <2>2. \A o \in Objects : ObjectInv(o)'
    BY <2>1, ObjectsStay
  <2>3. Exist(asked) \in BOOLEAN /\ (Exist(asked) \/ disturbed[c])
    BY DEF Exist
  <2>4. removing' \in [Clients -> SUBSET Objects] /\ pc[c] # "done"
    BY <1>1 DEF Types, TypeOK
  <2> QED
    BY <1>3, <2>1, <2>2, <2>3, <2>4, FailKeeps
<1> QED
  BY <1>2, <1>3 DEF Outcome

LEMMA ActivateKeeps ==
    ASSUME Inv, NEW c \in Clients, Activate(c)
    PROVE  Inv'
<1>1. /\ pc[c] = "activate" /\ UNCHANGED <<disk, late, removing, original>>
      /\ Types /\ ClientTypes /\ ClientInv(c) /\ todo[c] = {} /\ refs[c] \in SUBSET Objects
  BY InvAt, TypesAt DEF Activate, Keeps, ClientInv, PlaceInv
<1>2. ~disturbed[c] => Exist(refs[c])
  BY <1>1 DEF ClientInv, CalmInv, ListsInv, Active
<1>3. CASE Outcome(c, refs[c])
  BY <1>1, <1>2, <1>3, OutcomeKeeps
<1>4. ASSUME NEW more \in SUBSET inactive, ioc' = [ioc EXCEPT ![c] = refs[c] \cup more],
             Goto(c, "confirm"), Idle,
             UNCHANGED <<left, group, todo, cur, plan, refs, skipped, faulty, result>>
      PROVE  Inv'
  <2>1. pc' \in [Clients -> Places] /\ pc'[c] = "confirm" /\ \A d \in Clients : d # c => pc'[d] = pc[d]
    BY <1>1, <1>4 DEF ClientTypes, Goto, Places
  <2>2. refs[c] \cup more \in SUBSET Objects
    BY <1>1 DEF Types, TypeOK
  <2>3. /\ ioc' \in [Clients -> SUBSET Objects] /\ ioc'[c] = refs[c] \cup more
        /\ \A d \in Clients : d # c => ioc'[d] = ioc[d]
    BY <1>1, <1>4, <2>2 DEF ClientTypes
  <2>4. Moves(c)
    BY <1>1, <1>4, <2>1, <2>3 DEF Moves, ClientTypes, Same
  <2> QED
    BY <1>1, <1>4, <2>1, <2>3, <2>4, ActivationGoes
<1> QED
  BY <1>3, <1>4 DEF Activate

LEMMA ConfirmKeeps ==
    ASSUME Inv, NEW c \in Clients, Confirm(c)
    PROVE  Inv'
<1>1. /\ pc[c] = "confirm" /\ UNCHANGED <<disk, late, removing, original>> /\ Outcome(c, ioc[c])
      /\ Types /\ ClientInv(c) /\ refs[c] \subseteq ioc[c] /\ ioc[c] \in SUBSET Objects
  BY InvAt, TypesAt DEF Confirm, Keeps, ClientInv, PlaceInv
<1>2. ~disturbed[c] => Exist(ioc[c])
  BY <1>1 DEF ClientInv, CalmInv, ListsInv
<1> QED
  BY <1>1, <1>2, OutcomeKeeps

LEMMA KillKeeps ==
    ASSUME Inv, NEW c \in Clients, Kill(c)
    PROVE  Inv'
<1>1. /\ pc[c] # "done" /\ Exit(c, "killed") /\ Idle
      /\ UNCHANGED <<disk, late, group, skipped, removing, faulty, original>>
      /\ Types /\ ClientTypes /\ ClientInv(c)
  BY InvAt DEF Kill, Keeps
<1>2. Moves(c) /\ Stopped(c, "killed")
  <2>1. group' \in [Clients -> 1 .. 4] /\ faulty' \in [Clients -> BOOLEAN]
    BY <1>1 DEF ClientTypes
  <2> QED
    BY <1>1, <2>1, ExitIs
<1>3. Types' /\ SameServer /\ disturbed'[c] = disturbed[c] /\ (ClientInv(c)' => Inv')
  BY <1>1, <1>2, IdleStep
<1>4. ClientInv(c)'
  <2>1. "killed" \in {"failed", "killed"} /\ "killed" # "failed"
    OBVIOUS
  <2> QED
    BY <1>1, <1>2, <1>3, <2>1, StopKeeps DEF SameServer
<1> QED
  BY <1>3, <1>4

-----------------------------------------------------------------------------
(* The theorems. *)
LEMMA InitInv ==
    ASSUME Init
    PROVE  Inv
<1>1. \A o \in Objects : content[o] \in Contents(o, where[o])
  BY DEF Init
<1>2. \A o \in Objects : content[o] \in [Parts(o) -> {"none", "other", "file"}]
  BY <1>1 DEF Contents
<1>3. content \in [Objects -> UNION {[Parts(o) -> {"none", "other", "file"}] : o \in Objects}]
  <2>1. content = [o \in Objects |-> content[o]]
    BY DEF Init
  <2> QED
    BY <1>2, <2>1
<1>4. Types
  <2>1. ServerTypes
    BY <1>2, <1>3 DEF Init, ServerTypes
  <2>2. TypeOK
    BY <1>2 DEF Init, TypeOK
  <2> QED
    BY <2>1, <2>2 DEF Init, Types
<1>5. ASSUME NEW c \in Clients PROVE ClientInv(c)
  <2>1. \A o \in Objects : ~Handled(c, o)
    BY RankIs DEF Init, Handled, Active, Busy
  <2>2. PlaceInv(c) /\ PlanInv(c) /\ PackInv(c) /\ PastInv(c) /\ GuestInv(c)
    BY DEF Init, PlaceInv, PlanInv, PackInv, PastInv, GuestInv, Active, Busy
  <2>3. CalmInv(c)
    BY <2>1 DEF Init, CalmInv, HandledInv, ListsInv, CurInv, Active, Busy
  <2> QED
    BY <2>2, <2>3 DEF ClientInv
<1>6. ASSUME NEW o \in Objects PROVE ObjectInv(o)
  <2>1. original[o] = where[o] /\ o \notin inactive /\ content[o] \in Contents(o, where[o])
    BY <1>1 DEF Init
  <2>2. where[o] # "none" /\ Kind[o] # "fugr" => \A p \in Parts(o) : content[o][p] = "other"
    BY <2>1 DEF Contents
  <2> QED
    BY <2>1, <2>2 DEF ObjectInv, Guest
<1> QED
  BY <1>4, <1>5, <1>6 DEF Inv

LEMMA NextInv ==
    ASSUME Inv, [Next]_vars
    PROVE  Inv'
<1>1. ASSUME NEW c \in Clients, Step(c) PROVE Inv'
  BY <1>1, StartKeeps, CreatePackageKeeps, BeginObjectsKeeps, PickKeeps, CreateKeeps,
     FetchClassKeeps, DeleteClassKeeps, RecreateKeeps, CreatePartKeeps, EditKeeps, BadPartKeeps,
     EndGroupKeeps, ActivateKeeps, ConfirmKeeps, KillKeeps DEF Step
<1>2. ASSUME NEW l \in late, LateDelete(l) PROVE Inv'
  BY <1>2, LateKeeps
<1>3. CASE UNCHANGED vars
  <2>1. /\ UNCHANGED <<disk, late, pc, skipped, removing, faulty, disturbed, result, original>>
        /\ UNCHANGED server /\ UNCHANGED working
    BY <1>3 DEF vars
  <2>2. /\ UNCHANGED <<packages, where, content, inactive>>
        /\ UNCHANGED <<left, group, todo, cur, plan, refs, ioc>>
    BY <2>1 DEF server, working
  <2>3. Types'
    BY <2>1, <2>2 DEF Inv, Types, TypeOK, ServerTypes
  <2>4. \A o \in Objects : ObjectInv(o)'
    BY <2>1, <2>2, ObjectsStay
  <2>5. ASSUME NEW c \in Clients PROVE ClientInv(c)'
    <3>1. Same(c) /\ Types /\ ClientInv(c)
      BY <2>1, <2>2 DEF Same, Inv
    <3> QED
      BY <2>1, <2>2, <2>3, <3>1, OthersKeep
  <2> QED
    BY <2>3, <2>4, <2>5 DEF Inv
<1> QED
  BY <1>1, <1>2, <1>3 DEF Next

LEMMA Invariant == Spec => []Inv
<1>1. Init => Inv
  BY InitInv
<1>2. Inv /\ [Next]_vars => Inv'
  BY NextInv
<1> QED
  BY <1>1, <1>2, PTL DEF Spec

\* Every variable of Checkin keeps its type.
THEOREM TypeCorrect == Spec => []TypeOK
<1>1. Inv => TypeOK
  BY DEF Inv, Types
<1> QED
  BY <1>1, Invariant, PTL

\* A check-in that nobody disturbs has the objects of every group on the server,
\* active and with the files of the directory that checkin knows how to write,
\* before it begins the next group, and exit code 0 comes after the last
\* (do_checkin_directory()).
THEOREM GroupsAreComplete == Spec => []GroupsComplete
<1>1. Inv => GroupsComplete
  <2> SUFFICES ASSUME Inv PROVE GroupsComplete
    OBVIOUS
  <2>1. ASSUME NEW c \in Clients
        PROVE  /\ result[c] = "ok" => group[c] = 4
               /\ \A o \in skipped[c] :
                     \/ disk[o] # "good"
                     \/ /\ Kind[o] = "clas"
                        /\ original[o] = "elsewhere" \/ Home[o] \notin Capitals
    BY DEF Inv, ClientInv, PlaceInv, PastInv, Excused
  <2>2. ASSUME NEW c \in Clients, ~disturbed[c], NEW o \in Objects, Rank(o) < group[c], o \notin skipped[c]
        PROVE  CheckedIn(o)
    <3>1. Handled(c, o) /\ HandledInv(c)
      BY <2>2 DEF Handled, Inv, ClientInv, CalmInv
    <3>2. Complete(o) /\ (o \in inactive => Rank(o) = group[c])
      BY <3>1 DEF HandledInv
    <3>3. Rank(o) # group[c]
      <4>1. Rank(o) \in Nat /\ group[c] \in Nat
        BY RankIs, TypesAt DEF Inv
      <4> QED
        BY <2>2, <4>1
    <3> QED
      BY <3>2, <3>3 DEF CheckedIn, Complete
  <2> QED
    BY <2>1, <2>2 DEF GroupsComplete
<1> QED
  BY <1>1, Invariant, PTL

\* A class of another package stays as it is, whoever checks in, and one of this
\* package is missing only where a check-in recreates it or was stopped
\* (checkin_clas()).
THEOREM ClassesAreKept == Spec => []ClassesSurvive
<1>1. Inv => ClassesSurvive
  <2> SUFFICES ASSUME Inv, NEW o \in Objects
               PROVE  /\ Kind[o] = "clas" /\ original[o] = "elsewhere" =>
                             where[o] = "elsewhere" /\ \A p \in Parts(o) : content[o][p] = "other"
                      /\ original[o] # "none" /\ where[o] = "none" =>
                             \E c \in Clients : o \in removing[c] /\ result[c] # "ok"
    BY DEF ClassesSurvive
  <2>1. ObjectInv(o)
    BY DEF Inv
  <2>2. ASSUME NEW c \in Clients, o \in removing[c] PROVE result[c] # "ok"
    <3>1. PlaceInv(c) /\ PastInv(c)
      BY DEF Inv, ClientInv
    <3> QED
      BY <2>2, <3>1 DEF PlaceInv, PastInv
  <2> QED
    BY <2>1, <2>2 DEF ObjectInv, Guest
<1> QED
  BY <1>1, Invariant, PTL

\* Whatever earlier check-ins have left, one that meets no fault and that nobody
\* disturbs does not fail (checkin_package(), and create() of objects that exist).
THEOREM RerunsSucceed == Spec => []RerunSucceeds
<1>1. Inv => RerunSucceeds
  BY DEF Inv, ClientInv, PastInv, RerunSucceeds
<1> QED
  BY <1>1, Invariant, PTL
====
