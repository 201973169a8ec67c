---------------------------- MODULE Commands_proofs ----------------------------
(***************************************************************************)
(* Proofs about six parts of Commands: Activation, CtsRequests, GctsRepo,  *)
(* AtcReport, AunitReport and PackageTree. A section gives the types of    *)
(* its part and the invariant that makes its properties inductive, shows   *)
(* that every action keeps them, and ends with the theorems of             *)
(* CommandsSpec. Two lemmas begin: a step of the whole is a step of the    *)
(* part that was chosen. Then come the facts about folds, by induction on  *)
(* the positions of a sequence, that several parts rest on.                *)
(***************************************************************************)
EXTENDS Commands, FiniteSetTheorems, WellFoundedInduction, TLAPS

\* A step of the whole is a step of the part that was chosen.
LEMMA PartStep ==
    ASSUME [CommandsNext]_all
    PROVE  /\ part' = part
           /\ part = "cts" => Cts!Next \/ UNCHANGED cts
           /\ part = "activation" => Act!Next \/ UNCHANGED activation
           /\ part = "repo" => Repo!Next \/ UNCHANGED small
           /\ part = "aunit" => Aunit!Next \/ UNCHANGED small
           /\ part = "atc" => Atc!Next \/ UNCHANGED small
           /\ part = "tree" => Tree!Next \/ UNCHANGED small
           /\ part # "cts" => UNCHANGED cts
           /\ part # "activation" => UNCHANGED activation
BY DEF CommandsNext, all

LEMMA PartInit ==
    ASSUME CommandsInit
    PROVE  /\ part = "cts" => Cts!Init
           /\ part = "activation" => Act!Init
           /\ part = "repo" => Repo!Init
           /\ part = "aunit" => Aunit!Init
           /\ part = "atc" => Atc!Init
           /\ part = "tree" => Tree!Init
           /\ part # "cts" => NoCts
           /\ part # "activation" => NoActivation
BY DEF CommandsInit

-----------------------------------------------------------------------------
(***************************************************************************)
(* Induction over natural numbers, and with it over what a fold does. The  *)
(* least number of a set is a consequence of the order being well founded. *)
(***************************************************************************)
LEMMA Least ==
    ASSUME NEW T \in SUBSET Nat, T # {}
    PROVE  \E n \in T : \A m \in T : n <= m
<1> DEFINE less == OpToRel(<, Nat)
<1>1. \E n \in T : \A m \in T : ~(<<m, n>> \in less)
  BY NatLessThanWellFounded, WFMin
<1>2. ASSUME NEW m \in Nat, NEW n \in Nat, m < n PROVE <<m, n>> \in less
  BY <1>2 DEF OpToRel
<1> HIDE DEF less
<1>3. PICK n \in T : \A m \in T : ~(<<m, n>> \in less)
  BY <1>1
<1>4. ASSUME NEW m \in T, m < n PROVE FALSE
  BY <1>2, <1>3, <1>4
<1> QED
  BY <1>4

\* A set of numbers that is closed under the successor.
LEMMA Induction ==
    ASSUME NEW T \in SUBSET Nat, 0 \in T, \A n \in T : n + 1 \in T
    PROVE  T = Nat
<1> SUFFICES ASSUME Nat \ T # {} PROVE FALSE
  OBVIOUS
<1>1. PICK n \in Nat \ T : \A m \in Nat \ T : n <= m
  BY Least
<1>2. n # 0 /\ n - 1 \in Nat /\ ~(n <= n - 1)
  BY <1>1
<1>3. n - 1 \in T
  BY <1>1, <1>2
<1> QED
  BY <1>1, <1>2, <1>3

\* The maximum of a set, by which a fold over a sequence chooses its next element.
Top(S) == CHOOSE x \in S : \A y \in S : x >= y

LEMMA TopOf ==
    ASSUME NEW n \in Nat, NEW s \in SUBSET (1 .. n + 1), n + 1 \in s
    PROVE  Top(s) = n + 1
<1> DEFINE top == Top(s)
<1>1. \A y \in s : n + 1 >= y
  OBVIOUS
<1>2. top \in s /\ \A y \in s : top >= y
  BY <1>1, Zenon DEF Top
<1> HIDE DEF top
<1>3. top \in Int /\ top <= n + 1 /\ top >= n + 1
  BY <1>2
<1>4. top = n + 1
  BY <1>3
<1> QED
  BY <1>4 DEF top

LEMMA TopIn ==
    ASSUME NEW n \in Nat, NEW s \in SUBSET (1 .. n), s # {}
    PROVE  Top(s) \in s
<1> DEFINE T == {n - x : x \in s}
<1>1. PICK m \in T : \A k \in T : m <= k
  <2>1. \A x \in s : n - x \in Nat
    OBVIOUS
  <2>2. T \in SUBSET Nat /\ T # {}
    BY <2>1
  <2> HIDE DEF T
  <2> QED
    BY <2>2, Least
<1>2. PICK x \in s : m = n - x
  BY <1>1
<1>3. \A y \in s : x >= y
  <2> SUFFICES ASSUME NEW y \in s PROVE x >= y
    OBVIOUS
  <2>1. n - y \in T
    OBVIOUS
  <2>2. n - x <= n - y
    BY <1>1, <1>2, <2>1
  <2> QED
    BY <2>2
<1> QED
  BY <1>3, Zenon DEF Top

Folded(A, base, n, step, g) ==
    /\ g \in [SUBSET (1 .. n) -> A]
    /\ \A s \in SUBSET (1 .. n) :
           g[s] = IF s = {} THEN base ELSE step[g[s \ {Top(s)}]][Top(s)]

\* A fold is defined: there is a function of the sets of positions that takes away
\* the last position and applies the step to the rest.
LEMMA FoldExists ==
    ASSUME NEW A, NEW base \in A, NEW n \in Nat, NEW step \in [A -> [1 .. n -> A]]
    PROVE  \E g : Folded(A, base, n, step, g)
<1> DEFINE Folds(k, g) ==
               \A s \in SUBSET (1 .. k) :
                   g[s] = IF s = {} THEN base ELSE step[g[s \ {Top(s)}]][Top(s)]
           Exists(k) == \E g \in [SUBSET (1 .. k) -> A] : Folds(k, g)
           T == {k \in Nat : k <= n => Exists(k)}
<1>1. 0 \in T
  <2> DEFINE g == [s \in SUBSET (1 .. 0) |-> base]
  <2>1. g \in [SUBSET (1 .. 0) -> A] /\ Folds(0, g)
    BY 1 .. 0 = {}
  <2> HIDE DEF g, Folds
  <2> QED
    BY <2>1
<1>2. ASSUME NEW k \in Nat, k + 1 <= n, Exists(k)
      PROVE  Exists(k + 1)
  <2>1. PICK g \in [SUBSET (1 .. k) -> A] : Folds(k, g)
    BY <1>2
  <2> DEFINE gg == [s \in SUBSET (1 .. k + 1) |->
                       IF k + 1 \in s THEN step[g[s \ {k + 1}]][k + 1] ELSE g[s]]
  <2>2. ASSUME NEW s \in SUBSET (1 .. k + 1)
        PROVE  /\ k + 1 \in s => s \ {k + 1} \in SUBSET (1 .. k) /\ Top(s) = k + 1
               /\ k + 1 \notin s => s \in SUBSET (1 .. k)
    <3>1. \A x \in s : x = k + 1 \/ x \in 1 .. k
      OBVIOUS
    <3>2. k + 1 \in s => Top(s) = k + 1
      BY TopOf
    <3> QED
      BY <3>1, <3>2
  <2>3. gg \in [SUBSET (1 .. k + 1) -> A]
    <3>1. k + 1 \in 1 .. n
      BY <1>2
    <3>2. ASSUME NEW s \in SUBSET (1 .. k + 1)
          PROVE  (IF k + 1 \in s THEN step[g[s \ {k + 1}]][k + 1] ELSE g[s]) \in A
      <4>1. CASE k + 1 \in s
        <5>1. g[s \ {k + 1}] \in A
          BY <2>2, <4>1
        <5>2. step[g[s \ {k + 1}]][k + 1] \in A
          BY <3>1, <5>1
        <5> QED
          BY <4>1, <5>2
      <4>2. CASE k + 1 \notin s
        BY <2>2, <4>2
      <4> QED
        BY <4>1, <4>2
    <3> QED
      BY <3>2
  <2>4. ASSUME NEW s \in SUBSET (1 .. k + 1)
        PROVE  gg[s] = IF s = {} THEN base ELSE step[gg[s \ {Top(s)}]][Top(s)]
    <3>1. CASE k + 1 \in s
      <4>1. Top(s) = k + 1 /\ s # {} /\ s \ {k + 1} \in SUBSET (1 .. k)
        BY <2>2, <3>1
      <4>2. s \ {k + 1} \in SUBSET (1 .. k + 1) /\ k + 1 \notin s \ {k + 1}
        OBVIOUS
      <4>3. gg[s \ {k + 1}] = g[s \ {k + 1}]
        BY <4>2
      <4>4. gg[s] = step[g[s \ {k + 1}]][k + 1]
        BY <3>1
      <4> HIDE DEF gg
      <4> QED
        BY <4>1, <4>3, <4>4
    <3>2. CASE k + 1 \notin s /\ s # {}
      <4>1. s \in SUBSET (1 .. k) /\ s \ {Top(s)} \in SUBSET (1 .. k)
        BY <2>2, <3>2
      <4>2. g[s] = step[g[s \ {Top(s)}]][Top(s)]
        BY <2>1, <3>2, <4>1
      <4>3. gg[s] = g[s] /\ gg[s \ {Top(s)}] = g[s \ {Top(s)}]
        BY <3>2, <4>1
      <4> HIDE DEF gg
      <4> QED
        BY <3>2, <4>2, <4>3
    <3>3. CASE s = {}
      <4>1. gg[s] = g[s] /\ g[s] = base
        BY <2>1, <3>3
      <4> QED
        BY <3>3, <4>1
    <3> QED
      BY <3>1, <3>2, <3>3
  <2> HIDE DEF gg
  <2> QED
    BY <2>3, <2>4
<1> HIDE DEF Exists
<1>3. ASSUME NEW k \in T PROVE k + 1 \in T
  BY <1>2
<1>4. T = Nat
  <2>1. T \in SUBSET Nat
    OBVIOUS
  <2> HIDE DEF T
  <2> QED
    BY <1>1, <1>3, <2>1, Induction
<1>5. Exists(n)
  <2>1. n \in T
    BY <1>4
  <2> QED
    BY <2>1
<1> QED
  BY <1>5 DEF Exists, Folded

\* The positions of a fold, from left to right.
LEMMA FoldPositions ==
    ASSUME NEW n \in Nat, NEW i \in 0 .. n - 1
    PROVE  /\ 1 .. i + 1 \in SUBSET (1 .. n) /\ 1 .. i + 1 # {}
           /\ Top(1 .. i + 1) = i + 1 /\ (1 .. i + 1) \ {i + 1} = 1 .. i
BY TopOf

-----------------------------------------------------------------------------
(***************************************************************************)
(* Activation.                                                             *)
(***************************************************************************)

\* The fold over the messages goes from one message to the next.
Tallied(base, seq) ==
    Act!MapThenFoldSet(LAMBDA m, acc : Act!Tally(acc, m), base, LAMBDA n : seq[n], Act!Latest,
                       DOMAIN seq)

LEMMA TallyFold ==
    ASSUME NEW base, NEW n \in Nat, NEW seq, DOMAIN seq = 1 .. n
    PROVE  \E h : /\ h[0] = base
                  /\ \A i \in 0 .. n - 1 : h[i + 1] = Act!Tally(h[i], seq[i + 1])
                  /\ Tallied(base, seq) = h[n]
<1> DEFINE Folds(k, g) == g = [s \in SUBSET (1 .. k) |->
                IF s = {} THEN base ELSE Act!Tally(g[s \ {Top(s)}], seq[Top(s)])]
           T == {k \in Nat : \E g : Folds(k, g)}
           iter == CHOOSE g : Folds(n, g)
           h == [i \in 0 .. n |-> iter[1 .. i]]
<1>1. 0 \in T
  <2>1. Folds(0, [s \in SUBSET (1 .. 0) |-> base])
    BY 1 .. 0 = {}
  <2> QED
    BY <2>1
<1>2. ASSUME NEW k \in T PROVE k + 1 \in T
  <2>1. PICK g : Folds(k, g)
    OBVIOUS
  <2> DEFINE gg == [s \in SUBSET (1 .. k + 1) |->
                       IF k + 1 \in s THEN Act!Tally(g[s \ {k + 1}], seq[k + 1]) ELSE g[s]]
  <2>2. ASSUME NEW s \in SUBSET (1 .. k + 1)
        PROVE  gg[s] = IF s = {} THEN base ELSE Act!Tally(gg[s \ {Top(s)}], seq[Top(s)])
    <3>1. CASE k + 1 \in s
      <4>1. Top(s) = k + 1 /\ s # {}
        BY <3>1, TopOf
      <4>2. s \ {k + 1} \in SUBSET (1 .. k + 1) /\ k + 1 \notin s \ {k + 1}
        OBVIOUS
      <4>3. gg[s \ {k + 1}] = g[s \ {k + 1}]
        BY <4>2
      <4>4. gg[s] = Act!Tally(g[s \ {k + 1}], seq[k + 1])
        BY <3>1
      <4> HIDE DEF gg
      <4> QED
        BY <4>1, <4>3, <4>4
    <3>2. CASE k + 1 \notin s /\ s # {}
      <4>0. \A x \in s : x \in 1 .. k
        BY <3>2
      <4>1. s \in SUBSET (1 .. k) /\ s \ {Top(s)} \in SUBSET (1 .. k)
        BY <4>0
      <4>2. g[s] = Act!Tally(g[s \ {Top(s)}], seq[Top(s)])
        BY <2>1, <3>2, <4>1
      <4>3. gg[s] = g[s] /\ gg[s \ {Top(s)}] = g[s \ {Top(s)}]
        BY <3>2, <4>1
      <4> HIDE DEF gg
      <4> QED
        BY <3>2, <4>2, <4>3
    <3>3. CASE s = {}
      <4>1. gg[s] = g[s] /\ g[s] = base
        BY <2>1, <3>3
      <4> QED
        BY <3>3, <4>1
    <3> QED
      BY <3>1, <3>2, <3>3
  <2>3. gg = [s \in SUBSET (1 .. k + 1) |-> gg[s]]
    OBVIOUS
  <2> HIDE DEF gg
  <2>4. Folds(k + 1, gg)
    BY <2>2, <2>3
  <2>5. \E f : Folds(k + 1, f)
    BY <2>4
  <2> HIDE DEF Folds
  <2> QED
    BY <2>5
<1>3. Folds(n, iter)
  <2>1. T = Nat
    <3> HIDE DEF T
    <3> QED
      BY <1>1, <1>2, Induction DEF T
  <2> QED
    BY <2>1
<1>4. Tallied(base, seq) = iter[1 .. n]
  BY DEF Tallied, Act!MapThenFoldSet, Act!Latest, Top
<1> HIDE DEF iter
<1>5. h[0] = base
  BY <1>3, 1 .. 0 = {}
<1>6. ASSUME NEW i \in 0 .. n - 1 PROVE h[i + 1] = Act!Tally(h[i], seq[i + 1])
  <2>1. 1 .. i + 1 \in SUBSET (1 .. n) /\ 1 .. i + 1 # {} /\ (1 .. i + 1) \ {i + 1} = 1 .. i
    OBVIOUS
  <2>2. Top(1 .. i + 1) = i + 1
    BY TopOf
  <2>3. iter[1 .. i + 1] = Act!Tally(iter[1 .. i], seq[i + 1])
    BY <1>3, <2>1, <2>2
  <2> QED
    BY <2>3
<1>7. h[n] = iter[1 .. n]
  OBVIOUS
<1> HIDE DEF h
<1> QED
  BY <1>4, <1>5, <1>6, <1>7

\* The messages of a result are counted: errors never get fewer, and an error message
\* is counted whatever comes after it.
LEMMA VerdictCounts ==
    ASSUME NEW n \in Nat, messages \in [1 .. n -> Act!MessageTypes],
           stats.errors \in Nat, stats.warnings \in Nat, warningsAsErrors \in BOOLEAN
    PROVE  /\ Act!Verdict.error \in BOOLEAN
           /\ Act!Verdict.errors \in Nat /\ Act!Verdict.warnings \in Nat
           /\ Act!Verdict.errors >= stats.errors
           /\ (\E j \in 1 .. n : messages[j] = "E") => Act!Verdict.errors > stats.errors
<1> DEFINE base == [error |-> FALSE, errors |-> stats.errors, warnings |-> stats.warnings]
<1>1. PICK h : /\ h[0] = base
               /\ \A i \in 0 .. n - 1 : h[i + 1] = Act!Tally(h[i], messages[i + 1])
               /\ Tallied(base, messages) = h[n]
  <2>1. DOMAIN messages = 1 .. n
    OBVIOUS
  <2> HIDE DEF base
  <2> QED
    BY <2>1, TallyFold
<1>2. Act!Verdict = h[n]
  BY <1>1 DEF Act!Verdict, Tallied
<1> DEFINE Counted(i) == /\ h[i].error \in BOOLEAN /\ h[i].errors \in Nat /\ h[i].warnings \in Nat
                         /\ h[i].errors >= stats.errors
                         /\ (\E j \in 1 .. i : messages[j] = "E") => h[i].errors > stats.errors
           T == {i \in Nat : i <= n => Counted(i)}
<1>3. 0 \in T
  <2>1. h[0] = base
    BY <1>1
  <2>2. h[0].error = FALSE /\ h[0].errors = stats.errors /\ h[0].warnings = stats.warnings
    BY <2>1
  <2>3. h[0].error \in BOOLEAN /\ h[0].errors \in Nat /\ h[0].warnings \in Nat
    BY <2>2
  <2>4. h[0].errors >= stats.errors /\ ~\E j \in 1 .. 0 : messages[j] = "E"
    BY <2>2
  <2> QED
    BY <2>3, <2>4
<1>4. ASSUME NEW i \in T PROVE i + 1 \in T
  <2> SUFFICES ASSUME i + 1 <= n PROVE Counted(i + 1)
    OBVIOUS
  <2>1. Counted(i) /\ i \in 0 .. n - 1
    OBVIOUS
  <2> DEFINE m == messages[i + 1]
             error == IF m = "W" THEN warningsAsErrors ELSE h[i].error \/ m = "E"
  <2>2. h[i + 1] = Act!Tally(h[i], m)
    BY <1>1, <2>1
  <2>3. error \in BOOLEAN /\ (m = "E" => error)
    BY <2>1
  <2>4. /\ h[i + 1].error = error
        /\ h[i + 1].errors = h[i].errors + (IF error THEN 1 ELSE 0)
        /\ h[i + 1].warnings = h[i].warnings + (IF m = "W" THEN 1 ELSE 0)
    BY <2>2 DEF Act!Tally
  <2>5. (\E j \in 1 .. i + 1 : messages[j] = "E") => (\E j \in 1 .. i : messages[j] = "E") \/ m = "E"
    OBVIOUS
  <2> HIDE DEF m, error
  <2>6. h[i + 1].errors \in Nat /\ h[i + 1].warnings \in Nat
    BY <2>1, <2>4
  <2>7. h[i + 1].errors >= h[i].errors /\ (error => h[i + 1].errors > h[i].errors)
    BY <2>1, <2>4
  <2> QED
    BY <2>1, <2>3, <2>4, <2>5, <2>6, <2>7
<1>5. n \in T
  <2>1. T \in SUBSET Nat
    OBVIOUS
  <2> HIDE DEF T
  <2> QED
    BY <1>3, <1>4, <2>1, Induction
<1> QED
  BY <1>2, <1>5

ActStats == [errors: Nat, warnings: Nat, active: Seq(Reports), inactive: Seq(Reports)]

ActTypes ==
    /\ command \in Act!Commands
    /\ activateToo \in BOOLEAN /\ continueOnErrors \in BOOLEAN /\ warningsAsErrors \in BOOLEAN
    /\ names \in Seq(Reports) /\ todo \in Seq(Reports)
    /\ pos \in Nat \ {0}
    /\ messages \in Act!MessageLists
    /\ looked \in BOOLEAN
    /\ stats \in ActStats
    /\ bad \in SUBSET Nat /\ IsFiniteSet(bad)

\* While the sources are written nothing is activated, and a command that writes
\* activates only after the last one.
ActWrites ==
    /\ phase = "write" =>
          /\ written = 1 .. pos - 1 /\ pos \in 1 .. Len(names) + 1
          /\ requested = {} /\ bad = {}
          /\ stats.active = <<>> /\ stats.inactive = <<>>
    /\ command \in {"write", "define"} => written = DOMAIN names \/ requested = {}
    /\ command \in {"write", "define"} /\ phase \notin {"write", "done"} => written = DOMAIN names
    /\ phase = "write" => command \in {"write", "define"}

\* The objects before pos are booked, and those booked as active stay it.
ActBooks ==
    /\ phase \in {"activate", "confirm", "fetch", "results"} /\ command # "mass" =>
          /\ bad \subseteq 1 .. pos - 1
          /\ stats.inactive = <<>> =>
                /\ Len(stats.active) = pos - 1
                /\ \A k \in 1 .. pos - 1 : k \in 1 .. Len(todo) /\ stats.active[k] = todo[k]
                                           /\ todo[k] \notin inactive
    /\ phase \in {"confirm", "fetch", "results"} => pos <= Len(todo)
    /\ phase \in {"fetch", "results"} => command # "mass"
    /\ phase = "results" /\ looked => todo[pos] \notin inactive

\* Every error message is counted, as long as the worker counts them.
ActCounts ==
    /\ command # "mass" => stats.errors >= Cardinality(bad)
    /\ command = "mass" /\ phase # "done" => bad = {}
    /\ phase = "verdict" => command = "mass"

ActEnds ==
    /\ phase # "done" => rc = "none"
    /\ Act!ZeroMeansActive
    /\ bad # {} /\ rc = "0" => command = "define"

ActInv == ActTypes /\ ActWrites /\ ActBooks /\ ActCounts /\ ActEnds

LEMMA ActInit == Act!Init => ActInv
<1> SUFFICES ASSUME Act!Init PROVE ActInv
  OBVIOUS
<1>1. ActTypes
  <2>1. names \in Seq(Reports)
    BY DEF Act!Init, Act!Lists
  <2>2. messages \in Act!MessageLists
    BY BoundsAssumption DEF Act!Init, Act!MessageLists, Act!Lists
  <2>3. IsFiniteSet(bad) /\ bad \in SUBSET Nat
    BY FS_EmptySet DEF Act!Init
  <2>4. stats \in ActStats
    BY DEF Act!Init, ActStats
  <2>5. todo \in Seq(Reports)
    BY <2>1 DEF Act!Init
  <2>6. activateToo \in BOOLEAN
    BY DEF Act!Init
  <2> QED
    BY <2>1, <2>2, <2>3, <2>4, <2>5, <2>6 DEF ActTypes, Act!Init
<1>2. Cardinality(bad) = 0
  BY FS_EmptySet DEF Act!Init
<1>3. /\ rc = "none" /\ bad = {} /\ requested = {} /\ written = {} /\ pos = 1
      /\ stats.errors = 0 /\ stats.active = <<>> /\ stats.inactive = <<>>
      /\ phase = IF command \in {"write", "define"} THEN "write" ELSE "activate"
      /\ command \in {"write", "activate", "define", "mass"} /\ names \in Seq(Reports)
  BY <1>1 DEF ActTypes, Act!Init, Act!Commands
<1>4. ActWrites
  BY <1>3 DEF ActWrites
<1>5. ActBooks
  BY <1>3 DEF ActBooks
<1>6. ActCounts
  BY <1>2, <1>3 DEF ActCounts
<1>7. ActEnds
  BY <1>3 DEF ActEnds, Act!ZeroMeansActive
<1> QED
  BY <1>1, <1>4, <1>5, <1>6, <1>7 DEF ActInv

\* An exception keeps what was booked, and the exit code is not 0.
LEMMA ActRaises ==
    ASSUME ActInv, phase # "done", Act!Raise, UNCHANGED <<inactive, written>>
    PROVE  ActInv'
<1> USE DEF Act!Raise, Act!Exit, Act!options
<1>1. ActTypes'
  BY DEF ActInv, ActTypes
<1>2. ActWrites'
  BY DEF ActInv, ActWrites
<1>3. ActBooks'
  BY DEF ActBooks
<1>4. ActCounts'
  BY DEF ActInv, ActCounts
<1>5. ActEnds'
  BY DEF ActEnds, Act!ZeroMeansActive
<1> QED
  BY <1>1, <1>2, <1>3, <1>4, <1>5 DEF ActInv

LEMMA ActWrite ==
    ASSUME ActInv, Act!Write
    PROVE  ActInv'
<1>1. CASE Act!Raise /\ UNCHANGED <<inactive, written>>
  BY <1>1, ActRaises DEF Act!Write
<1>2. CASE /\ inactive' = inactive \cup {names[pos]}
           /\ written' = written \cup {pos}
           /\ todo' = Act!Remember(names[pos])
           /\ pos' = pos + 1
           /\ UNCHANGED <<Act!options, phase, messages, looked, stats, rc, requested, bad>>
  <2> USE DEF Act!options
  <2>1. phase = "write" /\ pos \in 1 .. Len(names) /\ names[pos] \in Reports
    BY DEF Act!Write, ActInv, ActTypes
  <2>2. todo' \in Seq(Reports)
    BY <1>2, <2>1 DEF ActInv, ActTypes, Act!Remember
  <2>3. ActTypes'
    BY <1>2, <2>2 DEF ActInv, ActTypes
  <2>4. ActWrites'
    BY <1>2, <2>1 DEF ActInv, ActTypes, ActWrites
  <2>5. ActBooks'
    BY <1>2, <2>1 DEF ActBooks
  <2>6. ActCounts'
    BY <1>2 DEF ActInv, ActCounts
  <2>7. ActEnds'
    BY <1>2, <2>1 DEF ActInv, ActEnds, Act!ZeroMeansActive
  <2> QED
    BY <2>3, <2>4, <2>5, <2>6, <2>7 DEF ActInv
<1> QED
  BY <1>1, <1>2 DEF Act!Write

LEMMA ActWritten ==
    ASSUME ActInv, Act!Written
    PROVE  ActInv'
<1> USE DEF Act!options
<1>1. phase = "write" /\ pos > Len(names) /\ pos' = 1 /\ rc = "none"
  BY DEF Act!Written, ActInv, ActEnds
<1>2. UNCHANGED <<Act!options, todo, messages, looked, stats, inactive, written, requested, bad>>
  BY DEF Act!Written
<1>3. /\ activateToo => phase' = "activate" /\ rc' = "none"
      /\ ~activateToo => phase' = "done" /\ rc' = "0"
  BY <1>1 DEF Act!Written, Act!Exit
<1>4. /\ bad = {} /\ requested = {} /\ written = DOMAIN names /\ command \in {"write", "define"}
      /\ stats.active = <<>> /\ stats.inactive = <<>>
  BY <1>1 DEF ActInv, ActTypes, ActWrites
<1>5. ActTypes'
  BY <1>1, <1>2 DEF ActInv, ActTypes
<1>6. ActWrites'
  BY <1>2, <1>3, <1>4, <1>5 DEF ActTypes, ActWrites
<1>7. ActBooks'
  BY <1>1, <1>2, <1>3, <1>4, <1>5 DEF ActTypes, ActBooks
<1>8. ActCounts'
  BY <1>2, <1>3, <1>4 DEF ActInv, ActCounts
<1>9. ActEnds'
  BY <1>2, <1>3, <1>4, <1>5 DEF ActTypes, ActEnds, Act!ZeroMeansActive, Act!Activating
<1> QED
  BY <1>5, <1>6, <1>7, <1>8, <1>9 DEF ActInv

\* The server activates: inactive objects become fewer.
LEMMA ActActivates ==
    ASSUME ActInv, phase \in {"activate", "confirm"}, pos <= Len(todo), NEW asked,
           Act!ServerActivates(asked), phase' = Act!NextPhase,
           UNCHANGED <<command, activateToo, continueOnErrors, warningsAsErrors, names, pos,
                       todo, looked, stats, rc, written, bad>>
    PROVE  ActInv'
<1>1. inactive' \subseteq inactive /\ messages' \in Act!MessageLists
  BY DEF Act!ServerActivates, Act!MessageLists
<1>2. /\ command = "mass" => phase' = "verdict"
      /\ command # "mass" => phase' = "fetch"
  BY DEF Act!NextPhase
<1>3. ActTypes'
  BY <1>1 DEF ActInv, ActTypes, Act!MessageLists, Act!MessageTypes
<1>4. ActWrites'
  BY <1>2 DEF ActInv, ActWrites
<1>5. ActBooks'
  BY <1>1, <1>2 DEF ActInv, ActBooks
<1>6. ActCounts'
  BY <1>2 DEF ActInv, ActCounts
<1>7. ActEnds'
  BY <1>2 DEF ActInv, ActEnds, Act!ZeroMeansActive
<1> QED
  BY <1>3, <1>4, <1>5, <1>6, <1>7 DEF ActInv

LEMMA ActPreaudit ==
    ASSUME ActInv, Act!Preaudit
    PROVE  ActInv'
<1>1. phase = "activate" /\ pos <= Len(todo)
  BY DEF Act!Preaudit
<1>2. CASE Act!Raise /\ UNCHANGED <<inactive, written>>
  BY <1>1, <1>2, ActRaises
<1>3. CASE /\ Act!ServerActivates(Act!Target) /\ phase' = Act!NextPhase
           /\ UNCHANGED <<Act!options, pos, todo, ioc, looked, stats, rc, written, bad>>
  BY <1>1, <1>3, ActActivates DEF Act!options
<1>4. CASE /\ phase' = "confirm"
           /\ UNCHANGED <<Act!options, pos, todo, messages, looked, stats, rc, inactive,
                          deleted, written, requested, bad>>
  <2> USE DEF Act!options
  <2>1. ActTypes'
    BY <1>4 DEF ActInv, ActTypes
  <2>2. ActWrites'
    BY <1>1, <1>4 DEF ActInv, ActWrites
  <2>3. ActBooks'
    BY <1>1, <1>4 DEF ActInv, ActBooks
  <2>4. ActCounts'
    BY <1>1, <1>4 DEF ActInv, ActCounts
  <2>5. ActEnds'
    BY <1>1, <1>4 DEF ActInv, ActEnds, Act!ZeroMeansActive
  <2> QED
    BY <2>1, <2>2, <2>3, <2>4, <2>5 DEF ActInv
<1> QED
  BY <1>2, <1>3, <1>4 DEF Act!Preaudit

LEMMA ActConfirm ==
    ASSUME ActInv, Act!Confirm
    PROVE  ActInv'
<1>1. phase = "confirm" /\ pos <= Len(todo)
  BY DEF Act!Confirm, ActInv, ActBooks
<1>2. CASE Act!Raise /\ UNCHANGED <<inactive, written>>
  BY <1>1, <1>2, ActRaises
<1>3. CASE /\ Act!ServerActivates(ioc \ deleted) /\ phase' = Act!NextPhase
           /\ UNCHANGED <<Act!options, pos, todo, ioc, looked, stats, rc, written, bad>>
  BY <1>1, <1>3, ActActivates DEF Act!options
<1> QED
  BY <1>2, <1>3 DEF Act!Confirm

LEMMA ActFetch ==
    ASSUME ActInv, Act!Fetch
    PROVE  ActInv'
<1>1. phase = "fetch"
  BY DEF Act!Fetch
<1>2. CASE Act!Raise /\ UNCHANGED <<inactive, written>>
  BY <1>1, <1>2, ActRaises
<1>3. CASE /\ looked' = (todo[pos] \notin inactive) /\ phase' = "results"
           /\ UNCHANGED <<Act!options, pos, todo, ioc, messages, stats, rc, inactive,
                          deleted, written, requested, bad>>
  <2> USE DEF Act!options
  <2>0. looked' \in BOOLEAN /\ (looked' => todo[pos] \notin inactive)
    BY <1>3
  <2>1. ActTypes'
    BY <1>3, <2>0 DEF ActInv, ActTypes
  <2>2. ActWrites'
    BY <1>1, <1>3 DEF ActInv, ActWrites
  <2>3. ActBooks'
    BY <1>1, <1>3, <2>0 DEF ActInv, ActBooks
  <2>4. ActCounts'
    BY <1>1, <1>3 DEF ActInv, ActCounts
  <2>5. ActEnds'
    BY <1>1, <1>3 DEF ActInv, ActEnds, Act!ZeroMeansActive
  <2> QED
    BY <2>1, <2>2, <2>3, <2>4, <2>5 DEF ActInv
<1> QED
  BY <1>2, <1>3 DEF Act!Fetch

LEMMA AppendedIsNotEmpty ==
    ASSUME NEW s \in Seq(Reports), NEW o \in Reports
    PROVE  Append(s, o) # <<>>
<1>1. Len(Append(s, o)) = Len(s) + 1 /\ Len(s) \in Nat /\ Len(<<>>) = 0
  OBVIOUS
<1> QED
  BY <1>1

LEMMA ActResults ==
    ASSUME ActInv, Act!HandleResults
    PROVE  ActInv'
<1> DEFINE booked == IF looked THEN [stats EXCEPT !.active = Append(@, todo[pos])]
                     ELSE [stats EXCEPT !.inactive = Append(@, todo[pos])]
           final == [booked EXCEPT !.errors = Act!Verdict.errors, !.warnings = Act!Verdict.warnings]
           stop == Act!Verdict.error /\ ~continueOnErrors
           says == \E j \in 1 .. Len(messages) : messages[j] = "E"
<1>1. /\ phase = "results" /\ rc = "none" /\ command # "mass"
      /\ pos \in 1 .. Len(todo) /\ todo[pos] \in Reports /\ todo \in Seq(Reports)
      /\ bad \in SUBSET Nat /\ IsFiniteSet(bad) /\ pos \notin bad
      /\ looked => todo[pos] \notin inactive
  BY DEF Act!HandleResults, ActInv, ActTypes, ActEnds, ActBooks
<1>2. UNCHANGED <<command, activateToo, continueOnErrors, warningsAsErrors, names, todo, ioc,
                  messages, looked, inactive, deleted, written, requested>>
  BY DEF Act!HandleResults, Act!options
<1>3. /\ stats' = final
      /\ bad' = IF says THEN bad \cup {pos} ELSE bad
  BY DEF Act!HandleResults, Act!Range
<1>4. /\ ~stop /\ pos < Len(todo) => phase' = "activate" /\ pos' = pos + 1 /\ rc' = "none"
      /\ stop \/ pos >= Len(todo) =>
            /\ pos' = pos /\ phase' = "done"
            /\ rc' = IF command # "define" /\ (stop \/ final.inactive # <<>> \/ final.errors > 0)
                     THEN "1" ELSE "0"
  BY <1>1 DEF Act!HandleResults, Act!Exit
<1>5. /\ Act!Verdict.error \in BOOLEAN
      /\ Act!Verdict.errors \in Nat /\ Act!Verdict.warnings \in Nat
      /\ Act!Verdict.errors >= stats.errors
      /\ says => Act!Verdict.errors > stats.errors
  <2>1. PICK n \in Nat : messages \in [1 .. n -> Act!MessageTypes]
    BY BoundsAssumption DEF ActInv, ActTypes, Act!MessageLists, Act!Lists
  <2>2. Len(messages) = n
    BY <2>1
  <2> QED
    BY <2>1, <2>2, VerdictCounts DEF ActInv, ActTypes, ActStats
<1>6. /\ final.errors = Act!Verdict.errors
      /\ looked => final.active = Append(stats.active, todo[pos]) /\ final.inactive = stats.inactive
      /\ ~looked => final.active = stats.active /\ final.inactive = Append(stats.inactive, todo[pos])
      /\ final \in ActStats
  <2>1. stats \in ActStats
    BY DEF ActInv, ActTypes, ActStats
  <2>2. CASE looked
    <3> DEFINE list == Append(stats.active, todo[pos])
               e == Act!Verdict.errors
               w == Act!Verdict.warnings
    <3>1. list \in Seq(Reports) /\ e \in Nat /\ w \in Nat
      BY <1>1, <1>5, <2>1 DEF ActStats
    <3>2. final = [[stats EXCEPT !.active = list] EXCEPT !.errors = e, !.warnings = w]
      BY <2>2
    <3> HIDE DEF final, booked, list, e, w
    <3>3. final.errors = e /\ final.active = list /\ final.inactive = stats.inactive /\ final \in ActStats
      BY <2>1, <3>1, <3>2 DEF ActStats
    <3> QED
      BY <2>2, <3>3 DEF list, e
  <2>3. CASE ~looked
    <3> DEFINE list == Append(stats.inactive, todo[pos])
               e == Act!Verdict.errors
               w == Act!Verdict.warnings
    <3>1. list \in Seq(Reports) /\ e \in Nat /\ w \in Nat
      BY <1>1, <1>5, <2>1 DEF ActStats
    <3>2. final = [[stats EXCEPT !.inactive = list] EXCEPT !.errors = e, !.warnings = w]
      BY <2>3
    <3> HIDE DEF final, booked, list, e, w
    <3>3. final.errors = e /\ final.inactive = list /\ final.active = stats.active /\ final \in ActStats
      BY <2>1, <3>1, <3>2 DEF ActStats
    <3> QED
      BY <2>3, <3>3 DEF list, e
  <2> QED
    BY <2>2, <2>3
<1> HIDE DEF final, booked, stop, says
<1>7. /\ bad' \in SUBSET Nat /\ IsFiniteSet(bad') /\ bad' \subseteq bad \cup {pos}
      /\ Act!Verdict.errors >= Cardinality(bad')
      /\ says \/ bad' = bad
  <2>1. Cardinality(bad \cup {pos}) = Cardinality(bad) + 1 /\ IsFiniteSet(bad \cup {pos})
    BY <1>1, FS_AddElement
  <2>2. Cardinality(bad) \in Nat
    BY <1>1, FS_CardinalityType
  <2>3. stats.errors \in Nat /\ stats.errors >= Cardinality(bad)
    BY <1>1 DEF ActInv, ActTypes, ActStats, ActCounts
  <2> QED
    BY <1>1, <1>3, <1>5, <2>1, <2>2, <2>3
<1>8. ActTypes'
  <2>1. pos' \in Nat \ {0}
    BY <1>1, <1>4
  <2> QED
    BY <1>2, <1>3, <1>6, <1>7, <2>1 DEF ActInv, ActTypes
<1>9. ActWrites'
  BY <1>1, <1>2, <1>4 DEF ActInv, ActWrites
<1>10. final.inactive = <<>> =>
          /\ Len(final.active) = pos
          /\ \A k \in 1 .. pos : k \in 1 .. Len(todo) /\ final.active[k] = todo[k] /\ todo[k] \notin inactive
  <2> SUFFICES ASSUME final.inactive = <<>>
               PROVE  /\ Len(final.active) = pos
                      /\ \A k \in 1 .. pos : /\ k \in 1 .. Len(todo) /\ final.active[k] = todo[k]
                                             /\ todo[k] \notin inactive
    OBVIOUS
  <2>1. stats.active \in Seq(Reports) /\ stats.inactive \in Seq(Reports) /\ looked \in BOOLEAN
    BY DEF ActInv, ActTypes, ActStats
  <2>2. looked
    <3>1. Append(stats.inactive, todo[pos]) # <<>>
      BY <1>1, <2>1, AppendedIsNotEmpty
    <3> QED
      BY <1>6, <2>1, <3>1
  <2>3. /\ Len(stats.active) = pos - 1
        /\ \A k \in 1 .. pos - 1 : k \in 1 .. Len(todo) /\ stats.active[k] = todo[k] /\ todo[k] \notin inactive
    BY <1>1, <1>6, <2>2 DEF ActInv, ActBooks
  <2>4. final.active = Append(stats.active, todo[pos])
    BY <1>6, <2>2
  <2>5. Len(final.active) = pos /\ final.active[pos] = todo[pos]
    BY <1>1, <2>1, <2>3, <2>4
  <2>6. ASSUME NEW k \in 1 .. pos - 1
        PROVE  final.active[k] = stats.active[k]
    BY <1>1, <2>1, <2>3, <2>4
  <2>7. \A k \in 1 .. pos : k = pos \/ k \in 1 .. pos - 1
    BY <1>1
  <2> QED
    BY <1>1, <2>2, <2>3, <2>5, <2>6, <2>7
<1>11. ActBooks'
  <2>1. CASE ~stop /\ pos < Len(todo)
    <3>1. phase' = "activate" /\ pos' = pos + 1 /\ pos' - 1 = pos
      BY <1>1, <1>4, <2>1
    <3>2. bad' \subseteq 1 .. pos
      BY <1>1, <1>7 DEF ActInv, ActBooks
    <3> QED
      BY <1>2, <1>3, <1>10, <3>1, <3>2 DEF ActBooks
  <2>2. CASE stop \/ pos >= Len(todo)
    BY <1>4, <2>2 DEF ActBooks
  <2> QED
    BY <1>1, <2>1, <2>2
<1>12. ActCounts'
  BY <1>1, <1>2, <1>3, <1>4, <1>6, <1>7 DEF ActCounts
<1>13. ActEnds'
  <2>1. CASE ~stop /\ pos < Len(todo)
    BY <1>4, <2>1 DEF ActEnds, Act!ZeroMeansActive
  <2>2. CASE stop \/ pos >= Len(todo)
    <3>1. phase' = "done"
      BY <1>4, <2>2
    <3>2. ASSUME rc' = "0", command # "define"
          PROVE  /\ final.inactive = <<>> /\ final.errors = 0 /\ pos = Len(todo)
                 /\ bad' = {}
      <4>1. ~stop /\ final.inactive = <<>> /\ ~(final.errors > 0)
        BY <1>4, <2>2, <3>2
      <4>2. final.errors = 0 /\ pos = Len(todo)
        BY <1>1, <1>5, <1>6, <2>2, <4>1
      <4>3. Cardinality(bad') = 0
        BY <1>5, <1>6, <1>7, <4>2, FS_CardinalityType
      <4> QED
        BY <1>7, <4>1, <4>2, <4>3, FS_EmptySet
    <3>3. ASSUME rc' = "0", command # "define"
          PROVE  Act!Range(todo) \cap inactive = {} /\ final.active = todo
      <4>1. /\ Len(final.active) = Len(todo)
            /\ \A k \in 1 .. Len(todo) : final.active[k] = todo[k] /\ todo[k] \notin inactive
        BY <1>10, <3>2, <3>3
      <4>2. final.active \in Seq(Reports)
        BY <1>6 DEF ActStats
      <4>3. final.active = todo
        BY <1>1, <4>1, <4>2
      <4> QED
        BY <1>1, <4>1, <4>3 DEF Act!Range
    <3> QED
      BY <1>2, <1>3, <3>1, <3>2, <3>3 DEF ActEnds, Act!ZeroMeansActive
  <2> QED
    BY <1>1, <2>1, <2>2
<1> QED
  BY <1>8, <1>9, <1>11, <1>12, <1>13 DEF ActInv

LEMMA ActVerdict ==
    ASSUME ActInv, Act!MassVerdict
    PROVE  ActInv'
<1> USE DEF Act!options
<1> DEFINE says == "E" \in Act!Range(messages)
<1>1. /\ phase = "verdict" /\ phase' = "done" /\ command = "mass" /\ bad = {} /\ pos \in Nat
      /\ rc' = (IF says THEN "error" ELSE "0") /\ bad' = (IF says THEN bad \cup {pos} ELSE bad)
      /\ UNCHANGED <<Act!options, pos, todo, ioc, messages, looked, stats, inactive,
                     deleted, written, requested>>
  BY DEF Act!MassVerdict, Act!Exit, ActInv, ActTypes, ActCounts
<1> HIDE DEF says
<1>2. bad' \in SUBSET Nat /\ IsFiniteSet(bad')
  BY <1>1, FS_EmptySet, FS_AddElement
<1>3. ActTypes'
  BY <1>1, <1>2 DEF ActInv, ActTypes
<1>4. ActWrites'
  BY <1>1 DEF ActInv, ActWrites
<1>5. ActBooks' /\ ActCounts'
  BY <1>1 DEF ActBooks, ActCounts
<1>6. ActEnds'
  BY <1>1 DEF ActEnds, Act!ZeroMeansActive
<1> QED
  BY <1>3, <1>4, <1>5, <1>6 DEF ActInv

LEMMA ActNext ==
    ASSUME ActInv, Act!Next
    PROVE  ActInv'
BY ActWrite, ActWritten, ActPreaudit, ActConfirm, ActFetch, ActResults, ActVerdict DEF Act!Next

\* In the other parts nothing is ever activated.
ActPart ==
    /\ part = "activation" => ActInv
    /\ part # "activation" => rc = "none" /\ bad = {} /\ requested = {}

LEMMA ActAlways == CommandsSpec => []ActPart
<1>1. CommandsInit => ActPart
  BY PartInit, ActInit DEF ActPart, NoActivation
<1>2. ASSUME ActPart, [CommandsNext]_all
      PROVE  ActPart'
  <2>1. CASE UNCHANGED activation
    BY <1>2, <2>1, PartStep
    DEF ActPart, activation, ActInv, ActTypes, ActWrites, ActBooks, ActCounts, ActEnds,
        Act!ZeroMeansActive, Act!Activating
  <2>2. CASE part = "activation" /\ Act!Next
    BY <1>2, <2>2, PartStep, ActNext DEF ActPart
  <2> QED
    BY <2>1, <2>2, <1>2, PartStep
<1> QED
  BY <1>1, <1>2, PTL DEF CommandsSpec

\* Exit code 0 of write -a and of activate means that every object of the list is
\* active and was booked once; an error message is never lost, whatever follows it,
\* and fails every command but the ones that do not look; and a command that writes
\* activates nothing before all of its sources are written.
THEOREM ActivationIsReported == CommandsSpec => []ActivationAsReported
<1>1. ActPart => ActivationAsReported
  <2>1. ASSUME ActInv PROVE ActivationAsReported
    <3>1. Act!ZeroMeansActive
      BY <2>1 DEF ActInv, ActEnds
    <3>2. Act!ErrorsFailTheCommand
      <4>1. Act!Cardinality(bad) = Cardinality(bad)
        BY DEF Act!Cardinality, Cardinality
      <4> QED
        BY <2>1, <4>1, Zenon DEF ActInv, ActEnds, ActCounts, Act!ErrorsFailTheCommand
    <3>3. Act!ActivatesOnlyWhenAllWritten
      BY <2>1 DEF ActInv, ActWrites, Act!ActivatesOnlyWhenAllWritten
    <3> QED
      BY <3>1, <3>2, <3>3 DEF ActivationAsReported
  <2>2. ASSUME rc = "none", bad = {}, requested = {} PROVE ActivationAsReported
    BY <2>2
    DEF ActivationAsReported, Act!ZeroMeansActive,
        Act!ErrorsFailTheCommand, Act!ActivatesOnlyWhenAllWritten
  <2> QED
    BY <2>1, <2>2 DEF ActPart
<1> QED
  BY <1>1, ActAlways, PTL

-----------------------------------------------------------------------------
(***************************************************************************)
(* CtsRequests: the calls of a command.                                    *)
(***************************************************************************)
CtsCalls == [op: {"remove", "release", "delete", "reassign"}, on: Cts!Requests, object: Cts!Objects \cup {"none"}]

RemoveStep(calls, o, t, has) == IF o \in has THEN Append(calls, Cts!RemoveCall(t, o)) ELSE calls

LEMMA RemoveFold ==
    ASSUME NEW t \in Cts!Requests, NEW has
    PROVE  \E h :
              /\ h[0] = <<>>
              /\ \A i \in 0 .. Len(ObjectOrder) - 1 :
                    h[i + 1] = RemoveStep(h[i], ObjectOrder[i + 1], t, has)
              /\ Cts!ObjectCalls(t, has) = h[Len(ObjectOrder)]
<1> DEFINE n == Len(ObjectOrder)
           A == Seq(CtsCalls)
           base == <<>>
           Folds(g) == g = [s \in SUBSET (1 .. n) |-> IF s = {} THEN base
                               ELSE RemoveStep(g[s \ {Top(s)}], ObjectOrder[Top(s)], t, has)]
           step == [a \in A |-> [i \in 1 .. n |-> RemoveStep(a, ObjectOrder[i], t, has)]]
           iter == CHOOSE g : Folds(g)
<1>1. n \in Nat /\ DOMAIN ObjectOrder = 1 .. n
  BY OrdersAssumption DEF EachOnce
<1>2. \A calls \in A, i \in 1 .. n : RemoveStep(calls, ObjectOrder[i], t, has) \in A
  <2> SUFFICES ASSUME NEW calls \in A, NEW i \in 1 .. n
               PROVE  RemoveStep(calls, ObjectOrder[i], t, has) \in A
    OBVIOUS
  <2>1. ObjectOrder[i] \in Cts!Objects
    BY <1>1 DEF Cts!Objects, Cts!Range
  <2>2. Cts!RemoveCall(t, ObjectOrder[i]) \in CtsCalls
    BY <2>1 DEF CtsCalls, Cts!RemoveCall
  <2> QED
    BY <2>2 DEF RemoveStep
<1>3. PICK g : Folded(A, base, n, step, g)
  <2>1. base \in A /\ step \in [A -> [1 .. n -> A]]
    BY <1>2
  <2> HIDE DEF A, step, n, base
  <2> QED
    BY <1>1, <2>1, FoldExists
<1>4. Folds(g)
  <2>1. ASSUME NEW s \in SUBSET (1 .. n), s # {}
        PROVE  g[s] = RemoveStep(g[s \ {Top(s)}], ObjectOrder[Top(s)], t, has)
    <3>1. Top(s) \in 1 .. n /\ s \ {Top(s)} \in SUBSET (1 .. n)
      BY <1>1, <2>1, TopIn
    <3> QED
      BY <1>3, <2>1, <3>1 DEF Folded
  <2>2. g[{}] = base
    BY <1>3 DEF Folded
  <2>3. g = [s \in SUBSET (1 .. n) |-> g[s]]
    BY <1>3 DEF Folded
  <2> QED
    BY <2>1, <2>2, <2>3
<1>5. Folds(iter)
  <2> HIDE DEF Folds
  <2> QED
    BY <1>4
<1>6. Cts!ObjectCalls(t, has) = iter[1 .. n]
  BY <1>1 DEF Cts!ObjectCalls, Cts!MapThenFoldSet, Cts!Latest, Top, RemoveStep
<1> DEFINE h == [i \in 0 .. n |-> iter[1 .. i]]
<1> HIDE DEF iter
<1>7. h[0] = <<>>
  BY <1>5, 1 .. 0 = {}
<1>8. ASSUME NEW i \in 0 .. n - 1
      PROVE  h[i + 1] = RemoveStep(h[i], ObjectOrder[i + 1], t, has)
  <2>1. iter[1 .. i + 1] = RemoveStep(iter[1 .. i], ObjectOrder[i + 1], t, has)
    <3>1. /\ 1 .. i + 1 \in SUBSET (1 .. n) /\ 1 .. i + 1 # {}
          /\ Top(1 .. i + 1) = i + 1 /\ (1 .. i + 1) \ {i + 1} = 1 .. i
      BY <1>1, FoldPositions
    <3>2. iter[1 .. i + 1] = RemoveStep(iter[(1 .. i + 1) \ {Top(1 .. i + 1)}],
                                        ObjectOrder[Top(1 .. i + 1)], t, has)
      BY <1>5, <3>1
    <3> QED
      BY <3>1, <3>2
  <2>2. h[i + 1] = iter[1 .. i + 1] /\ h[i] = iter[1 .. i]
    OBVIOUS
  <2> QED
    BY <2>1, <2>2
<1>9. h[n] = iter[1 .. n]
  BY <1>1
<1> HIDE DEF h
<1> QED
  BY <1>6, <1>7, <1>8, <1>9

\* The remove calls for the first k objects.
Removing(P, t, has, k) ==
    /\ P \in Seq(CtsCalls)
    /\ \A i \in 1 .. Len(P) : \E j \in 1 .. k :
          ObjectOrder[j] \in has /\ P[i] = Cts!RemoveCall(t, ObjectOrder[j])
    /\ \A i, j \in 1 .. Len(P) : i < j => P[i].object # P[j].object
    /\ \A j \in 1 .. k : ObjectOrder[j] \in has =>
          \E i \in 1 .. Len(P) : P[i] = Cts!RemoveCall(t, ObjectOrder[j])

LEMMA RemovingNext ==
    ASSUME NEW t \in Cts!Requests, NEW has, NEW k \in Nat, k + 1 \in 1 .. Len(ObjectOrder),
           NEW P, Removing(P, t, has, k)
    PROVE  Removing(RemoveStep(P, ObjectOrder[k + 1], t, has), t, has, k + 1)
<1> DEFINE o == ObjectOrder[k + 1]
           call == Cts!RemoveCall(t, o)
<1>1. \A j \in 1 .. k : ObjectOrder[j] # o
  BY OrdersAssumption DEF EachOnce
<1>2. call \in CtsCalls
  <2>1. o \in Cts!Objects
    BY OrdersAssumption DEF EachOnce, Cts!Objects, Cts!Range
  <2> QED
    BY <2>1 DEF CtsCalls, Cts!RemoveCall
<1>3. \A u : Cts!RemoveCall(t, u).object = u
  BY DEF Cts!RemoveCall
<1>4. CASE o \in has
  <2> DEFINE Q == Append(P, call)
  <2>1. P \in Seq(CtsCalls) /\ Q \in Seq(CtsCalls) /\ Len(Q) = Len(P) + 1 /\ Q[Len(P) + 1] = call
        /\ \A i \in 1 .. Len(P) : Q[i] = P[i]
    BY <1>2 DEF Removing
  <2>2. RemoveStep(P, o, t, has) = Q
    BY <1>4 DEF RemoveStep
  <2> HIDE DEF Q
  <2>3. ASSUME NEW i \in 1 .. Len(Q)
        PROVE  \E j \in 1 .. k + 1 : ObjectOrder[j] \in has /\ Q[i] = Cts!RemoveCall(t, ObjectOrder[j])
    <3>1. CASE i \in 1 .. Len(P)
      BY <2>1, <3>1 DEF Removing
    <3>2. CASE i = Len(P) + 1
      BY <1>4, <2>1, <3>2
    <3> QED
      BY <2>1, <3>1, <3>2
  <2>4. ASSUME NEW i \in 1 .. Len(Q), NEW j \in 1 .. Len(Q), i < j
        PROVE  Q[i].object # Q[j].object
    <3>1. i \in 1 .. Len(P)
      BY <2>1, <2>4
    <3>2. PICK m \in 1 .. k : P[i] = Cts!RemoveCall(t, ObjectOrder[m])
      BY <3>1 DEF Removing
    <3>3. CASE j \in 1 .. Len(P)
      <4>1. \A k1, k2 \in 1 .. Len(P) : k1 < k2 => P[k1].object # P[k2].object
        BY DEF Removing
      <4>2. Q[i] = P[i] /\ Q[j] = P[j]
        BY <2>1, <3>1, <3>3
      <4>3. P[i].object # P[j].object
        BY <2>4, <3>1, <3>3, <4>1
      <4> QED
        BY <4>2, <4>3
    <3>4. CASE j = Len(P) + 1
      BY <1>1, <1>3, <2>1, <3>1, <3>2, <3>4
    <3> QED
      BY <2>1, <3>3, <3>4
  <2>5. ASSUME NEW j \in 1 .. k + 1, ObjectOrder[j] \in has
        PROVE  \E i \in 1 .. Len(Q) : Q[i] = Cts!RemoveCall(t, ObjectOrder[j])
    <3>1. CASE j \in 1 .. k
      BY <2>1, <2>5, <3>1 DEF Removing
    <3>2. CASE j = k + 1
      BY <2>1, <3>2
    <3> QED
      BY <3>1, <3>2
  <2> QED
    BY <2>1, <2>2, <2>3, <2>4, <2>5 DEF Removing
<1>5. CASE o \notin has
  <2>1. RemoveStep(P, o, t, has) = P
    BY <1>5 DEF RemoveStep
  <2>2. \A j \in 1 .. k + 1 : ObjectOrder[j] \in has => j \in 1 .. k
    BY <1>5
  <2> QED
    BY <2>1, <2>2 DEF Removing
<1> QED
  BY <1>4, <1>5

LEMMA RemovesAll ==
    ASSUME NEW t \in Cts!Requests, NEW has
    PROVE  Removing(Cts!ObjectCalls(t, has), t, has, Len(ObjectOrder))
<1> DEFINE n == Len(ObjectOrder)
<1>1. PICK h : /\ h[0] = <<>>
               /\ \A i \in 0 .. n - 1 : h[i + 1] = RemoveStep(h[i], ObjectOrder[i + 1], t, has)
               /\ Cts!ObjectCalls(t, has) = h[n]
  BY RemoveFold
<1>2. n \in Nat
  BY OrdersAssumption DEF EachOnce
<1> DEFINE T == {k \in Nat : k <= n => Removing(h[k], t, has, k)}
<1>3. 0 \in T
  <2>1. h[0] \in Seq(CtsCalls) /\ Len(h[0]) = 0 /\ 1 .. 0 = {}
    BY <1>1
  <2> QED
    BY <2>1 DEF Removing
<1>4. ASSUME NEW k \in T PROVE k + 1 \in T
  <2> SUFFICES ASSUME k + 1 <= n PROVE Removing(h[k + 1], t, has, k + 1)
    OBVIOUS
  <2>1. Removing(h[k], t, has, k) /\ k \in 0 .. n - 1 /\ k + 1 \in 1 .. n
    OBVIOUS
  <2>2. h[k + 1] = RemoveStep(h[k], ObjectOrder[k + 1], t, has)
    BY <1>1, <2>1
  <2>3. k \in Nat
    OBVIOUS
  <2> HIDE DEF T
  <2> QED
    BY <2>1, <2>2, <2>3, RemovingNext
<1>5. n \in T
  <2>1. T \in SUBSET Nat
    OBVIOUS
  <2> HIDE DEF T
  <2> QED
    BY <1>2, <1>3, <1>4, <2>1, Induction
<1> QED
  BY <1>1, <1>5

\* A request's own call is the last one for it, and no object is removed twice.
CtsOrdered(P) ==
    \A i, j \in 1 .. Len(P) : i < j =>
        /\ P[i].op # "remove" => P[j].on # P[i].on
        /\ (P[i].op = "remove" /\ P[j].op = "remove" /\ P[i].on = P[j].on) => P[i].object # P[j].object

\* P makes the calls for the tasks in S, which have the objects that "has" says.
Covers(P, op, S, has) ==
    /\ P \in Seq(CtsCalls)
    /\ CtsOrdered(P)
    /\ \A i \in 1 .. Len(P) :
          /\ P[i].on \in S
          /\ \/ P[i] = Cts!OwnCall(op, P[i].on)
             \/ op = "delete" /\ P[i].op = "remove" /\ P[i].object \in has[P[i].on]
    /\ \A t \in S : \E i \in 1 .. Len(P) : P[i] = Cts!OwnCall(op, t)
    /\ op = "delete" => \A t \in S : \A o \in has[t] : \E i \in 1 .. Len(P) : P[i] = Cts!RemoveCall(t, o)

Ops == {"release", "delete", "reassign"}

LEMMA CallFields ==
    /\ \A op, r : /\ Cts!OwnCall(op, r).op = op /\ Cts!OwnCall(op, r).on = r
                  /\ Cts!OwnCall(op, r).object = "none"
    /\ \A t, o : /\ Cts!RemoveCall(t, o).op = "remove" /\ Cts!RemoveCall(t, o).on = t
                 /\ Cts!RemoveCall(t, o).object = o
    /\ \A op \in Ops, r \in Cts!Requests : Cts!OwnCall(op, r) \in CtsCalls
BY DEF Cts!OwnCall, Cts!RemoveCall, CtsCalls, Ops

LEMMA TaskCovered ==
    ASSUME NEW op \in Ops, NEW t \in Cts!Tasks, NEW has \in [Cts!Tasks -> SUBSET Cts!Objects]
    PROVE  Covers(Cts!TaskCalls(op, t, has[t]), op, {t}, has)
<1> DEFINE P == Cts!TaskCalls(op, t, has[t])
           own == Cts!OwnCall(op, t)
<1>1. t \in Cts!Requests /\ own \in CtsCalls
  BY CallFields DEF Cts!Requests
<1>2. CASE op # "delete"
  <2>1. P = <<own>>
    BY <1>1, <1>2 DEF Cts!TaskCalls
  <2>2. P \in Seq(CtsCalls) /\ Len(P) = 1 /\ P[1] = own
    BY <1>1, <2>1
  <2> HIDE DEF P
  <2>3. \A i \in 1 .. Len(P) : i = 1
    BY <2>2
  <2>4. CtsOrdered(P)
    BY <2>3 DEF CtsOrdered
  <2>5. \A i \in 1 .. Len(P) : P[i].on = t /\ P[i] = own
    BY <2>2, <2>3, CallFields
  <2>6. \E i \in 1 .. Len(P) : P[i] = own
    BY <2>2
  <2> HIDE DEF own
  <2>7. own = Cts!OwnCall(op, t)
    BY DEF own
  <2> QED
    BY <1>2, <2>2, <2>4, <2>5, <2>6, <2>7 DEF Covers, P
<1>3. CASE op = "delete"
  <2> DEFINE Q == Cts!ObjectCalls(t, has[t])
  <2>1. Removing(Q, t, has[t], Len(ObjectOrder))
    BY <1>1, RemovesAll
  <2>2. P = Q \o <<own>>
    BY <1>3 DEF Cts!TaskCalls
  <2>3. Q \in Seq(CtsCalls)
    BY <2>1 DEF Removing
  <2> HIDE DEF Q, P
  <2>4. /\ P \in Seq(CtsCalls) /\ Len(Q) \in Nat /\ Len(P) = Len(Q) + 1 /\ P[Len(Q) + 1] = own
        /\ \A i \in 1 .. Len(Q) : P[i] = Q[i]
    BY <1>1, <2>2, <2>3
  <2>5. ASSUME NEW i \in 1 .. Len(Q)
        PROVE  P[i].op = "remove" /\ P[i].on = t /\ P[i].object \in has[t]
    <3>1. PICK j \in 1 .. Len(ObjectOrder) : ObjectOrder[j] \in has[t] /\ Q[i] = Cts!RemoveCall(t, ObjectOrder[j])
      BY <2>1 DEF Removing
    <3>2. P[i] = Cts!RemoveCall(t, ObjectOrder[j])
      BY <2>4, <3>1
    <3> QED
      BY <3>1, <3>2, CallFields
  <2>6. CtsOrdered(P)
    <3> SUFFICES ASSUME NEW i \in 1 .. Len(P), NEW j \in 1 .. Len(P), i < j
                 PROVE  /\ P[i].op # "remove" => P[j].on # P[i].on
                        /\ (P[i].op = "remove" /\ P[j].op = "remove" /\ P[i].on = P[j].on)
                              => P[i].object # P[j].object
      BY DEF CtsOrdered
    <3>1. i \in 1 .. Len(Q)
      BY <2>4
    <3>2. CASE j \in 1 .. Len(Q)
      <4>1. Q[i].object # Q[j].object
        BY <2>1, <3>1, <3>2 DEF Removing
      <4> QED
        BY <2>4, <2>5, <3>1, <3>2, <4>1
    <3>3. CASE j = Len(Q) + 1
      <4>1. P[j].op # "remove"
        BY <2>4, <3>3, <1>3, CallFields
      <4> QED
        BY <2>5, <3>1, <4>1
    <3> QED
      BY <2>4, <3>2, <3>3
  <2>7. ASSUME NEW i \in 1 .. Len(P)
        PROVE  /\ P[i].on = t
               /\ P[i] = own \/ (P[i].op = "remove" /\ P[i].object \in has[t])
    <3>1. CASE i \in 1 .. Len(Q)
      BY <2>5, <3>1
    <3>2. CASE i = Len(Q) + 1
      BY <2>4, <3>2, CallFields
    <3> QED
      BY <2>4, <3>1, <3>2
  <2>8. ASSUME NEW o \in has[t] PROVE \E i \in 1 .. Len(P) : P[i] = Cts!RemoveCall(t, o)
    <3>1. PICK j \in 1 .. Len(ObjectOrder) : o = ObjectOrder[j]
      BY OrdersAssumption DEF EachOnce, Cts!Objects, Cts!Range
    <3>2. PICK i \in 1 .. Len(Q) : Q[i] = Cts!RemoveCall(t, o)
      BY <2>1, <3>1 DEF Removing
    <3> QED
      BY <2>4, <3>2
  <2>9. \E i \in 1 .. Len(P) : P[i] = own
    BY <2>4
  <2>10. own = Cts!OwnCall(op, t)
    OBVIOUS
  <2> HIDE DEF own
  <2> QED
    BY <1>3, <2>4, <2>6, <2>7, <2>8, <2>9, <2>10 DEF Covers, P
<1> QED
  BY <1>2, <1>3

\* The calls for one set of tasks after those for another.
LEMMA CoversBoth ==
    ASSUME NEW P, NEW Q, NEW op, NEW S, NEW U, NEW has,
           Covers(P, op, S, has), Covers(Q, op, U, has), S \cap U = {}
    PROVE  Covers(P \o Q, op, S \cup U, has)
<1> DEFINE R == P \o Q
<1>1. P \in Seq(CtsCalls) /\ Q \in Seq(CtsCalls)
  BY DEF Covers
<1>2. /\ R \in Seq(CtsCalls) /\ Len(P) \in Nat /\ Len(Q) \in Nat /\ Len(R) = Len(P) + Len(Q)
      /\ \A i \in 1 .. Len(P) : R[i] = P[i] /\ i \in 1 .. Len(R)
      /\ \A i \in 1 .. Len(Q) : R[Len(P) + i] = Q[i] /\ Len(P) + i \in 1 .. Len(R)
  BY <1>1
<1> HIDE DEF R
<1>3. ASSUME NEW i \in 1 .. Len(R)
      PROVE  i \in 1 .. Len(P) \/ (i - Len(P) \in 1 .. Len(Q) /\ R[i] = Q[i - Len(P)])
  <2> SUFFICES ASSUME i \notin 1 .. Len(P) PROVE i - Len(P) \in 1 .. Len(Q) /\ R[i] = Q[i - Len(P)]
    OBVIOUS
  <2>1. i - Len(P) \in 1 .. Len(Q) /\ i = Len(P) + (i - Len(P))
    BY <1>2
  <2> QED
    BY <1>2, <2>1
<1>4. \A i \in 1 .. Len(P) : P[i].on \in S
  BY DEF Covers
<1>5. \A i \in 1 .. Len(Q) : Q[i].on \in U
  BY DEF Covers
<1>6. CtsOrdered(R)
  <2> SUFFICES ASSUME NEW i \in 1 .. Len(R), NEW j \in 1 .. Len(R), i < j
               PROVE  /\ R[i].op # "remove" => R[j].on # R[i].on
                      /\ (R[i].op = "remove" /\ R[j].op = "remove" /\ R[i].on = R[j].on)
                            => R[i].object # R[j].object
    BY DEF CtsOrdered
  <2>1. CASE i \in 1 .. Len(P) /\ j \in 1 .. Len(P)
    <3>1. R[i] = P[i] /\ R[j] = P[j]
      BY <1>2, <2>1
    <3>2. CtsOrdered(P)
      BY DEF Covers
    <3> QED
      BY <2>1, <3>1, <3>2 DEF CtsOrdered
  <2>2. CASE i \in 1 .. Len(P) /\ j - Len(P) \in 1 .. Len(Q) /\ R[j] = Q[j - Len(P)]
    <3>1. R[i].on \in S /\ R[j].on \in U
      BY <1>2, <1>4, <1>5, <2>2
    <3> QED
      BY <3>1
  <2>3. CASE /\ i - Len(P) \in 1 .. Len(Q) /\ R[i] = Q[i - Len(P)]
             /\ j - Len(P) \in 1 .. Len(Q) /\ R[j] = Q[j - Len(P)]
    <3>1. i - Len(P) < j - Len(P)
      BY <1>2
    <3>2. CtsOrdered(Q)
      BY DEF Covers
    <3> QED
      BY <2>3, <3>1, <3>2 DEF CtsOrdered
  <2>4. CASE i - Len(P) \in 1 .. Len(Q) /\ j \in 1 .. Len(P)
    BY <1>2, <2>4
  <2> QED
    BY <1>3, <2>1, <2>2, <2>3, <2>4
<1>7. ASSUME NEW i \in 1 .. Len(R)
      PROVE  /\ R[i].on \in S \cup U
             /\ \/ R[i] = Cts!OwnCall(op, R[i].on)
                \/ op = "delete" /\ R[i].op = "remove" /\ R[i].object \in has[R[i].on]
  <2>1. CASE i \in 1 .. Len(P)
    BY <1>2, <2>1 DEF Covers
  <2>2. CASE i - Len(P) \in 1 .. Len(Q) /\ R[i] = Q[i - Len(P)]
    BY <2>2 DEF Covers
  <2> QED
    BY <1>3, <2>1, <2>2
<1>8. ASSUME NEW call, \/ \E i \in 1 .. Len(P) : P[i] = call
                       \/ \E i \in 1 .. Len(Q) : Q[i] = call
      PROVE  \E i \in 1 .. Len(R) : R[i] = call
  BY <1>2, <1>8
<1>9. \A t \in S \cup U : \E i \in 1 .. Len(R) : R[i] = Cts!OwnCall(op, t)
  BY <1>8 DEF Covers
<1>10. op = "delete" => \A t \in S \cup U : \A o \in has[t] : \E i \in 1 .. Len(R) : R[i] = Cts!RemoveCall(t, o)
  BY <1>8 DEF Covers
<1> QED
  BY <1>2, <1>6, <1>7, <1>9, <1>10 DEF Covers, R

\* The fold over the tasks appends the calls for one task after the other.
ChildStep(calls, t, op, open, has) ==
    IF t \in open THEN calls \o Cts!TaskCalls(op, t, has[t]) ELSE calls

LEMMA ChildFold ==
    ASSUME NEW op \in Ops, NEW open, NEW has \in [Cts!Tasks -> SUBSET Cts!Objects]
    PROVE  \E h :
              /\ h[0] = <<>>
              /\ \A i \in 0 .. Len(TaskOrder) - 1 :
                    h[i + 1] = ChildStep(h[i], TaskOrder[i + 1], op, open, has)
              /\ Cts!ChildCalls(op, open, has) = h[Len(TaskOrder)]
<1> DEFINE n == Len(TaskOrder)
           A == Seq(CtsCalls)
           base == <<>>
           Folds(g) == g = [s \in SUBSET (1 .. n) |-> IF s = {} THEN base
                               ELSE ChildStep(g[s \ {Top(s)}], TaskOrder[Top(s)], op, open, has)]
           step == [a \in A |-> [i \in 1 .. n |-> ChildStep(a, TaskOrder[i], op, open, has)]]
           iter == CHOOSE g : Folds(g)
<1>1. n \in Nat /\ DOMAIN TaskOrder = 1 .. n
  BY OrdersAssumption DEF EachOnce
<1>2. \A calls \in A, i \in 1 .. n : ChildStep(calls, TaskOrder[i], op, open, has) \in A
  <2> SUFFICES ASSUME NEW calls \in A, NEW i \in 1 .. n
               PROVE  ChildStep(calls, TaskOrder[i], op, open, has) \in A
    OBVIOUS
  <2>1. TaskOrder[i] \in Cts!Tasks
    BY <1>1 DEF Cts!Tasks, Cts!Range
  <2>2. Cts!TaskCalls(op, TaskOrder[i], has[TaskOrder[i]]) \in Seq(CtsCalls)
    BY <2>1, TaskCovered DEF Covers
  <2> QED
    BY <2>2 DEF ChildStep
<1>3. PICK g : Folded(A, base, n, step, g)
  <2>1. base \in A /\ step \in [A -> [1 .. n -> A]]
    BY <1>2
  <2> HIDE DEF A, step, n, base
  <2> QED
    BY <1>1, <2>1, FoldExists
<1>4. Folds(g)
  <2>1. ASSUME NEW s \in SUBSET (1 .. n), s # {}
        PROVE  g[s] = ChildStep(g[s \ {Top(s)}], TaskOrder[Top(s)], op, open, has)
    <3>1. Top(s) \in 1 .. n /\ s \ {Top(s)} \in SUBSET (1 .. n)
      BY <1>1, <2>1, TopIn
    <3> QED
      BY <1>3, <2>1, <3>1 DEF Folded
  <2>2. g[{}] = base
    BY <1>3 DEF Folded
  <2>3. g = [s \in SUBSET (1 .. n) |-> g[s]]
    BY <1>3 DEF Folded
  <2> QED
    BY <2>1, <2>2, <2>3
<1>5. Folds(iter)
  <2> HIDE DEF Folds
  <2> QED
    BY <1>4
<1>6. Cts!ChildCalls(op, open, has) = iter[1 .. n]
  BY <1>1 DEF Cts!ChildCalls, Cts!MapThenFoldSet, Cts!Latest, Top, ChildStep
<1> DEFINE h == [i \in 0 .. n |-> iter[1 .. i]]
<1> HIDE DEF iter
<1>7. h[0] = <<>>
  BY <1>5, 1 .. 0 = {}
<1>8. ASSUME NEW i \in 0 .. n - 1
      PROVE  h[i + 1] = ChildStep(h[i], TaskOrder[i + 1], op, open, has)
  <2>1. iter[1 .. i + 1] = ChildStep(iter[1 .. i], TaskOrder[i + 1], op, open, has)
    <3>1. /\ 1 .. i + 1 \in SUBSET (1 .. n) /\ 1 .. i + 1 # {}
          /\ Top(1 .. i + 1) = i + 1 /\ (1 .. i + 1) \ {i + 1} = 1 .. i
      BY <1>1, FoldPositions
    <3>2. iter[1 .. i + 1] = ChildStep(iter[(1 .. i + 1) \ {Top(1 .. i + 1)}],
                                       TaskOrder[Top(1 .. i + 1)], op, open, has)
      BY <1>5, <3>1
    <3> QED
      BY <3>1, <3>2
  <2>2. h[i + 1] = iter[1 .. i + 1] /\ h[i] = iter[1 .. i]
    OBVIOUS
  <2> QED
    BY <2>1, <2>2
<1>9. h[n] = iter[1 .. n]
  BY <1>1
<1> HIDE DEF h
<1> QED
  BY <1>6, <1>7, <1>8, <1>9

\* A transport's children are those of its tasks that are open, each once.
LEMMA ChildrenCovered ==
    ASSUME NEW op \in Ops, NEW open \in SUBSET Cts!Tasks,
           NEW has \in [Cts!Tasks -> SUBSET Cts!Objects]
    PROVE  Covers(Cts!ChildCalls(op, open, has), op, open, has)
<1> DEFINE n == Len(TaskOrder)
           Upto(k) == {t \in open : \E j \in 1 .. k : TaskOrder[j] = t}
<1>1. PICK h : /\ h[0] = <<>>
               /\ \A i \in 0 .. n - 1 : h[i + 1] = ChildStep(h[i], TaskOrder[i + 1], op, open, has)
               /\ Cts!ChildCalls(op, open, has) = h[n]
  BY ChildFold
<1>2. n \in Nat /\ DOMAIN TaskOrder = 1 .. n
  BY OrdersAssumption DEF EachOnce
<1> DEFINE T == {k \in Nat : k <= n => Covers(h[k], op, Upto(k), has)}
<1>3. 0 \in T
  <2>1. h[0] \in Seq(CtsCalls) /\ Len(h[0]) = 0 /\ 1 .. 0 = {} /\ Upto(0) = {}
    BY <1>1
  <2>2. Covers(h[0], op, Upto(0), has)
    <3> HIDE DEF Upto
    <3> QED
      BY <2>1 DEF Covers, CtsOrdered
  <2> QED
    BY <2>2
<1>4. ASSUME NEW k \in T PROVE k + 1 \in T
  <2> SUFFICES ASSUME k + 1 <= n PROVE Covers(h[k + 1], op, Upto(k + 1), has)
    OBVIOUS
  <2> DEFINE t == TaskOrder[k + 1]
             Q == Cts!TaskCalls(op, t, has[t])
  <2>1. Covers(h[k], op, Upto(k), has) /\ k \in 0 .. n - 1 /\ k + 1 \in 1 .. n /\ k \in Nat
    OBVIOUS
  <2>2. h[k + 1] = ChildStep(h[k], t, op, open, has)
    BY <1>1, <2>1
  <2>3. t \in Cts!Tasks
    BY <1>2, <2>1 DEF Cts!Tasks, Cts!Range
  <2>4. \A j \in 1 .. k : TaskOrder[j] # t
    BY <1>2, <2>1, OrdersAssumption DEF EachOnce
  <2>5. \A u : (\E j \in 1 .. k + 1 : TaskOrder[j] = u) <=> (\E j \in 1 .. k : TaskOrder[j] = u) \/ u = t
    BY <2>1
  <2>6. CASE t \in open
    <3>1. Upto(k + 1) = Upto(k) \cup {t} /\ Upto(k) \cap {t} = {}
      BY <2>4, <2>5, <2>6
    <3>2. Covers(Q, op, {t}, has)
      BY <2>3, TaskCovered
    <3>3. h[k + 1] = h[k] \o Q
      BY <2>2, <2>6 DEF ChildStep
    <3> HIDE DEF Upto, Q, t
    <3>4. Covers(h[k] \o Q, op, Upto(k) \cup {t}, has)
      BY <2>1, <3>1, <3>2, CoversBoth
    <3> QED
      BY <3>1, <3>3, <3>4
  <2>7. CASE t \notin open
    <3>1. Upto(k + 1) = Upto(k)
      BY <2>5, <2>7
    <3>2. h[k + 1] = h[k]
      BY <2>2, <2>7 DEF ChildStep
    <3> HIDE DEF Upto
    <3> QED
      BY <2>1, <3>1, <3>2
  <2> QED
    BY <2>6, <2>7
<1>5. n \in T
  <2>1. T \in SUBSET Nat
    OBVIOUS
  <2> HIDE DEF T
  <2> QED
    BY <1>2, <1>3, <1>4, <2>1, Induction
<1>6. Upto(n) = open
  BY <1>2 DEF Cts!Tasks, Cts!Range
<1> HIDE DEF Upto
<1>7. Covers(h[n], op, Upto(n), has)
  BY <1>2, <1>5
<1> QED
  BY <1>1, <1>6, <1>7
-----------------------------------------------------------------------------
(***************************************************************************)
(* CtsRequests: the inductive invariant.                                   *)
(***************************************************************************)
\* What is left of the calls of command k, which has fetched the tasks "open".
CtsPlan(k, open, P) ==
    /\ P \in Seq(CtsCalls) /\ Len(P) > 0
    /\ P[Len(P)] = Cts!OwnCall(k.op, k.number)
    /\ \A i \in 1 .. Len(P) - 1 :
          /\ P[i].on \in Cts!Tasks
          /\ \/ P[i].op = "remove"
             \/ P[i] = Cts!OwnCall(k.op, P[i].on) /\ P[i].on \in open
          /\ P[i].op = "remove" => k.op = "delete"
    /\ CtsOrdered(P)

ServerTypes ==
    /\ status \in [Cts!Requests -> {"none", "D", "R", "gone"}]
    /\ owner \in [Cts!Requests -> Clients \cup {"colleague"}]
    /\ objects \in [Cts!Tasks -> SUBSET Cts!Objects]

CtsTypes ==
    /\ ServerTypes
    /\ cmd \in [Clients -> Cts!Commands]
    /\ pc \in [Clients -> {"start", "calls", "done"}]
    /\ fetched \in [Clients -> SUBSET Cts!Tasks]
    /\ plan \in [Clients -> Seq(CtsCalls)]
    /\ calm \in [Clients -> BOOLEAN]
    /\ result \in [Clients -> {"none", "ok", "failed"}]

\* The server keeps a transport in step with its tasks.
CtsServer ==
    /\ status[Transport] # "none"
    /\ status[Transport] = "R" => \A t \in Cts!Tasks : status[t] \in {"none", "R", "gone"}
    /\ status[Transport] = "gone" => \A t \in Cts!Tasks : status[t] \in {"none", "gone"}

CtsCommand(c) ==
    /\ pc[c] = "calls" => CtsPlan(cmd[c], fetched[c], plan[c])
    /\ pc[c] = "start" => (fetched[c] = {} /\ \A r \in Cts!Requests : owner[r] # c)
    /\ pc[c] # "done" => result[c] = "none"
    /\ fetched[c] # {} => cmd[c].number = Transport
    /\ \A t \in fetched[c] : status[t] # "none"
    /\ result[c] = "ok" =>
          Cts!Handled(c, cmd[c].number) \/ (cmd[c].op = "reassign" /\ Cts!Reassigned(cmd[c].number))

\* A transport is given to a client after the tasks that it has fetched.
CtsGiven(c) ==
    cmd[c].op = "reassign" => \A t \in fetched[c] :
        \/ Cts!Reassigned(t)
        \/ /\ owner[Transport] # c
           /\ pc[c] = "calls" => \E i \in 1 .. Len(plan[c]) - 1 : plan[c][i].on = t

\* As long as a recursive command is not disturbed, what it fetched is still true of
\* the requests that it has not handled yet.
CtsCalm(c) ==
    (pc[c] = "calls" /\ calm[c] /\ cmd[c].recursive) =>
        /\ \A i \in 1 .. Len(plan[c]) - 1 : LET k == plan[c][i] IN
              /\ k.on # cmd[c].number => status[k.on] = "D"
              /\ k.op = "remove" => k.object \in objects[k.on]
        /\ cmd[c].op = "delete" => \A i \in 1 .. Len(plan[c]) : LET t == plan[c][i].on IN
              t \in Cts!Tasks => \A o \in objects[t] : \E j \in 1 .. Len(plan[c]) : plan[c][j] = Cts!RemoveCall(t, o)
        /\ (cmd[c].number = Transport /\ cmd[c].op # "reassign") =>
              \A t \in Cts!Tasks : status[t] = "D" =>
                  \E i \in 1 .. Len(plan[c]) - 1 : plan[c][i] = Cts!OwnCall(cmd[c].op, t)

CtsInv ==
    /\ CtsTypes
    /\ CtsServer
    /\ \A c \in Clients : CtsCommand(c) /\ CtsGiven(c) /\ CtsCalm(c)

CtsPart ==
    /\ part = "cts" => CtsInv
    /\ part # "cts" => (result = [c \in Clients |-> "none"] /\ fetched = [c \in Clients |-> {}])

-----------------------------------------------------------------------------
\* What every step leaves as it is.
CtsMoves ==
    /\ \A r \in Cts!Requests :
          /\ status[r] \in {"R", "gone"} => status'[r] = status[r]
          /\ status[r] # "none" => status'[r] # "none"
          /\ owner'[r] = owner[r] \/ owner'[r] \in Clients

LEMMA CtsNames == /\ Transport \notin Cts!Tasks /\ Transport \in Cts!Requests
                  /\ \A t \in Cts!Tasks : t \in Cts!Requests
                  /\ \A r \in Cts!Requests : r \in Cts!Tasks \/ r = Transport
<1>1. Cts!Tasks = Listed(TaskOrder)
  BY DEF Cts!Tasks, Cts!Range, Listed
<1> QED
  BY <1>1, OrdersAssumption DEF Cts!Requests

LEMMA CtsPerforms ==
    ASSUME ServerTypes, CtsServer, NEW c \in Clients, NEW k \in CtsCalls, Cts!Accepts(k),
           Cts!Perform(c, k), k.op = "remove" => k.on \in Cts!Tasks
    PROVE  /\ ServerTypes' /\ CtsServer' /\ CtsMoves
           /\ \A r \in Cts!Requests :
                 /\ status'[r] = IF r = k.on /\ k.op = "release" THEN "R"
                                 ELSE IF r = k.on /\ k.op = "delete" THEN "gone" ELSE status[r]
                 /\ owner'[r] = IF r = k.on /\ k.op = "reassign" THEN c ELSE owner[r]
           /\ \A t \in Cts!Tasks :
                 objects'[t] = IF t = k.on /\ k.op = "remove" THEN objects[t] \ {k.object} ELSE objects[t]
<1>1. k.on \in Cts!Requests /\ k.op \in {"remove", "release", "delete", "reassign"}
  BY DEF CtsCalls
<1>2. /\ status' \in [Cts!Requests -> {"none", "D", "R", "gone"}]
      /\ \A r \in Cts!Requests :
            status'[r] = IF r = k.on /\ k.op = "release" THEN "R"
                         ELSE IF r = k.on /\ k.op = "delete" THEN "gone" ELSE status[r]
  <2>1. CASE k.op = "release"
    BY <1>1, <2>1 DEF Cts!Perform, ServerTypes
  <2>2. CASE k.op = "delete"
    BY <1>1, <2>2 DEF Cts!Perform, ServerTypes
  <2>3. CASE k.op \in {"remove", "reassign"}
    BY <1>1, <2>3 DEF Cts!Perform, ServerTypes
  <2> QED
    BY <1>1, <2>1, <2>2, <2>3
<1>3. /\ owner' \in [Cts!Requests -> Clients \cup {"colleague"}]
      /\ \A r \in Cts!Requests : owner'[r] = IF r = k.on /\ k.op = "reassign" THEN c ELSE owner[r]
  BY <1>1 DEF Cts!Perform, ServerTypes
<1>4. /\ objects' \in [Cts!Tasks -> SUBSET Cts!Objects]
      /\ \A t \in Cts!Tasks :
            objects'[t] = IF t = k.on /\ k.op = "remove" THEN objects[t] \ {k.object} ELSE objects[t]
  BY <1>1 DEF Cts!Perform, ServerTypes
<1>5. status[k.on] = "D"
  BY DEF Cts!Accepts
<1>6. CtsMoves
  BY <1>2, <1>3, <1>5 DEF CtsMoves
<1>7. CtsServer'
  <2>1. CASE k.on = Transport /\ k.op = "release"
    <3>1. \A t \in Cts!Tasks : status[t] \in {"none", "R", "gone"} /\ status'[t] = status[t]
      BY <1>2, <2>1, CtsNames DEF Cts!Accepts, Cts!Complete
    <3>2. status'[Transport] = "R"
      BY <1>2, <2>1, CtsNames
    <3> QED
      BY <3>1, <3>2 DEF CtsServer
  <2>2. CASE k.on = Transport /\ k.op = "delete"
    <3>1. \A t \in Cts!Tasks : status[t] \in {"none", "gone"} /\ status'[t] = status[t]
      BY <1>2, <2>2, CtsNames DEF Cts!Accepts, Cts!Complete
    <3>2. status'[Transport] = "gone"
      BY <1>2, <2>2, CtsNames
    <3> QED
      BY <3>1, <3>2 DEF CtsServer
  <2>3. CASE k.on # Transport \/ k.op \in {"remove", "reassign"}
    <3>1. status'[Transport] = status[Transport]
      BY <1>2, <2>3, CtsNames
    <3>2. \A t \in Cts!Tasks : status[t] \in {"R", "gone", "none"} => status'[t] = status[t]
      BY <1>2, <1>5, CtsNames
    <3> QED
      BY <3>1, <3>2 DEF CtsServer
  <2> QED
    BY <1>1, <2>1, <2>2, <2>3
<1>8. ServerTypes'
  BY <1>2, <1>3, <1>4 DEF ServerTypes
<1> QED
  BY <1>2, <1>3, <1>4, <1>6, <1>7, <1>8

LEMMA CtsColleague ==
    ASSUME ServerTypes, CtsServer, Cts!Colleague
    PROVE  ServerTypes' /\ CtsServer' /\ CtsMoves /\ owner' = owner
<1>1. owner' = owner
  BY DEF Cts!Colleague
<1>2. CASE /\ status[Transport] = "D" /\ objects' = objects
           /\ \E t \in Cts!Tasks : status[t] = "none" /\ status' = [status EXCEPT ![t] = "D"]
  <2>1. PICK t \in Cts!Tasks : status[t] = "none" /\ status' = [status EXCEPT ![t] = "D"]
    BY <1>2
  <2>2. \A r \in Cts!Requests : status'[r] = IF r = t THEN "D" ELSE status[r]
    BY <2>1 DEF ServerTypes
  <2>3. ServerTypes'
    BY <1>1, <1>2, <2>1 DEF ServerTypes
  <2>4. CtsServer'
    BY <1>2, <2>2, CtsNames DEF CtsServer
  <2> QED
    BY <1>1, <2>1, <2>2, <2>3, <2>4 DEF CtsMoves
<1>3. CASE \E r \in Cts!Requests : /\ Cts!Accepts(Cts!OwnCall("release", r))
                                   /\ status' = [status EXCEPT ![r] = "R"] /\ objects' = objects
  <2>1. PICK r \in Cts!Requests : /\ Cts!Accepts(Cts!OwnCall("release", r))
                                  /\ status' = [status EXCEPT ![r] = "R"] /\ objects' = objects
    BY <1>3
  <2> DEFINE k == Cts!OwnCall("release", r)
  <2>2. k.on = r /\ k.op = "release"
    BY CallFields
  <2> HIDE DEF k
  <2>3. /\ status[r] = "D"
        /\ r = Transport => \A t \in Cts!Tasks : status[t] \in {"none", "R", "gone"}
    BY <2>1, <2>2 DEF Cts!Accepts, Cts!Complete, k
  <2>4. \A q \in Cts!Requests : status'[q] = IF q = r THEN "R" ELSE status[q]
    BY <2>1 DEF ServerTypes
  <2>5. ServerTypes'
    BY <1>1, <2>1 DEF ServerTypes
  <2>6. CtsServer'
    BY <2>3, <2>4, CtsNames DEF CtsServer
  <2> QED
    BY <1>1, <2>3, <2>4, <2>5, <2>6 DEF CtsMoves
<1>4. CASE \E t \in Cts!Tasks, o \in Cts!Objects :
              objects' = [objects EXCEPT ![t] = @ \cup {o}] /\ status' = status
  <2>1. ServerTypes'
    BY <1>1, <1>4 DEF ServerTypes
  <2>2. CtsServer'
    BY <1>4 DEF CtsServer
  <2> QED
    BY <1>1, <1>4, <2>1, <2>2 DEF CtsMoves
<1> QED
  BY <1>2, <1>3, <1>4 DEF Cts!Colleague
-----------------------------------------------------------------------------
\* The calls P are for k.number and the open tasks, and complete if k is recursive.
PlanOf(k, open, has, P) ==
    /\ CtsPlan(k, open, P)
    /\ \A i \in 1 .. Len(P) - 1 :
          /\ P[i].on \in open \cup {k.number}
          /\ P[i].op = "remove" => P[i].object \in has[P[i].on]
    /\ (k.recursive /\ k.op = "delete") =>
          \A i \in 1 .. Len(P) : P[i].on \in Cts!Tasks =>
              \A o \in has[P[i].on] : \E j \in 1 .. Len(P) : P[j] = Cts!RemoveCall(P[i].on, o)
    /\ (k.recursive /\ k.number = Transport) =>
          \A t \in open : \E i \in 1 .. Len(P) - 1 : P[i] = Cts!OwnCall(k.op, t)

LEMMA PlanIsMade ==
    ASSUME NEW k \in Cts!Commands, NEW open \in SUBSET Cts!Tasks,
           NEW has \in [Cts!Tasks -> SUBSET Cts!Objects]
    PROVE  PlanOf(k, open, has, Cts!Plan(k, open, has))
<1> DEFINE own == Cts!OwnCall(k.op, k.number)
<1>1. k.op \in Ops /\ k.number \in Cts!Requests /\ own \in CtsCalls
  BY CallFields DEF Cts!Commands, Ops
<1>2. own.op = k.op /\ own.on = k.number /\ k.op # "remove"
  BY <1>1, CallFields DEF Ops
<1>3. CASE ~k.recursive
  <2> DEFINE P == <<own>>
  <2>1. P \in Seq(CtsCalls) /\ Len(P) = 1 /\ P[1] = own
    BY <1>1
  <2>2. Cts!Plan(k, open, has) = P
    BY <1>3 DEF Cts!Plan
  <2> HIDE DEF P
  <2>3. \A i \in 1 .. Len(P) : i = 1
    BY <2>1
  <2>4. CtsOrdered(P)
    BY <2>3 DEF CtsOrdered
  <2>5. CtsPlan(k, open, P)
    BY <2>1, <2>4 DEF CtsPlan
  <2>6. 1 .. Len(P) - 1 = {}
    BY <2>1
  <2> QED
    BY <1>3, <2>2, <2>5, <2>6 DEF PlanOf
<1>4. CASE k.recursive /\ k.number # Transport
  <2> DEFINE t == k.number
             P == Cts!TaskCalls(k.op, t, has[t])
  <2>1. t \in Cts!Tasks
    BY <1>1, <1>4, CtsNames
  <2>2. Covers(P, k.op, {t}, has)
    BY <1>1, <2>1, TaskCovered
  <2>3. Cts!Plan(k, open, has) = P
    BY <1>4 DEF Cts!Plan
  <2>4. \E Q \in Seq(CtsCalls) : P = Q \o <<own>>
    <3>1. Cts!ObjectCalls(t, has[t]) \in Seq(CtsCalls)
      BY <1>1, RemovesAll DEF Removing
    <3>2. CASE k.op = "delete"
      BY <3>1, <3>2 DEF Cts!TaskCalls
    <3>3. CASE k.op # "delete"
      <4>1. P = <<>> \o <<own>> /\ <<>> \in Seq(CtsCalls)
        BY <3>3 DEF Cts!TaskCalls
      <4> QED
        BY <4>1, Zenon
    <3> QED
      BY <3>2, <3>3
  <2> HIDE DEF P
  <2>5. P \in Seq(CtsCalls) /\ Len(P) > 0 /\ P[Len(P)] = own
    BY <1>1, <2>4
  <2>6. CtsOrdered(P)
    BY <2>2 DEF Covers
  <2>7. ASSUME NEW i \in 1 .. Len(P) - 1
        PROVE  P[i].on = t /\ P[i].op = "remove" /\ k.op = "delete" /\ P[i].object \in has[t]
    <3>1. i \in 1 .. Len(P) /\ Len(P) \in 1 .. Len(P) /\ i < Len(P)
      BY <2>5
    <3>2. P[i].on = t
      BY <2>2, <3>1 DEF Covers
    <3>3. P[i].op = "remove"
      BY <1>2, <2>5, <2>6, <3>1, <3>2 DEF CtsOrdered
    <3>4. P[i] # own
      BY <1>2, <3>3
    <3> QED
      BY <2>2, <3>1, <3>2, <3>3, <3>4 DEF Covers
  <2>8. CtsPlan(k, open, P)
    BY <2>1, <2>5, <2>6, <2>7 DEF CtsPlan
  <2>9. ASSUME k.op = "delete", NEW i \in 1 .. Len(P)
        PROVE  \A o \in has[P[i].on] : \E j \in 1 .. Len(P) : P[j] = Cts!RemoveCall(P[i].on, o)
    BY <2>2, <2>9 DEF Covers
  <2> QED
    BY <1>4, <2>3, <2>7, <2>8, <2>9 DEF PlanOf
<1>5. CASE k.recursive /\ k.number = Transport
  <2> DEFINE C == Cts!ChildCalls(k.op, open, has)
             P == C \o <<own>>
  <2>1. Covers(C, k.op, open, has)
    BY <1>1, ChildrenCovered
  <2>2. Cts!Plan(k, open, has) = P
    BY <1>5 DEF Cts!Plan
  <2>3. C \in Seq(CtsCalls)
    BY <2>1 DEF Covers
  <2> HIDE DEF C
  <2>4. /\ P \in Seq(CtsCalls) /\ Len(C) \in Nat /\ Len(P) = Len(C) + 1 /\ P[Len(P)] = own
        /\ \A i \in 1 .. Len(C) : P[i] = C[i]
    BY <1>1, <2>3
  <2> HIDE DEF P
  <2>5. ASSUME NEW i \in 1 .. Len(C)
        PROVE  /\ P[i].on \in open /\ P[i].on \in Cts!Tasks
               /\ \/ P[i] = Cts!OwnCall(k.op, P[i].on)
                  \/ k.op = "delete" /\ P[i].op = "remove" /\ P[i].object \in has[P[i].on]
    BY <2>1, <2>4 DEF Covers
  <2>6. CtsOrdered(P)
    <3> SUFFICES ASSUME NEW i \in 1 .. Len(P), NEW j \in 1 .. Len(P), i < j
                 PROVE  /\ P[i].op # "remove" => P[j].on # P[i].on
                        /\ (P[i].op = "remove" /\ P[j].op = "remove" /\ P[i].on = P[j].on)
                              => P[i].object # P[j].object
      BY DEF CtsOrdered
    <3>1. i \in 1 .. Len(C)
      BY <2>4
    <3>2. CASE j \in 1 .. Len(C)
      <4>1. CtsOrdered(C)
        BY <2>1 DEF Covers
      <4>2. P[i] = C[i] /\ P[j] = C[j]
        BY <2>4, <3>1, <3>2
      <4> QED
        BY <3>1, <3>2, <4>1, <4>2 DEF CtsOrdered
    <3>3. CASE j = Len(P)
      <4>1. P[j].on = Transport /\ P[j].op # "remove"
        BY <1>2, <1>5, <2>4, <3>3
      <4> QED
        BY <2>5, <3>1, <4>1, CtsNames
    <3> QED
      BY <2>4, <3>2, <3>3
  <2>7. \A i \in 1 .. Len(C) : P[i].op = "remove" => k.op = "delete" /\ P[i].object \in has[P[i].on]
    <3> SUFFICES ASSUME NEW i \in 1 .. Len(C), P[i].op = "remove"
                 PROVE  k.op = "delete" /\ P[i].object \in has[P[i].on]
      OBVIOUS
    <3>1. P[i] # Cts!OwnCall(k.op, P[i].on)
      BY <1>2, CallFields
    <3> QED
      BY <2>5, <3>1
  <2>8. CtsPlan(k, open, P)
    <3>1. Len(P) > 0 /\ P[Len(P)] = Cts!OwnCall(k.op, k.number) /\ Len(P) - 1 = Len(C)
      BY <2>4
    <3> QED
      BY <2>4, <2>5, <2>6, <2>7, <3>1 DEF CtsPlan
  <2>9. ASSUME k.op = "delete", NEW i \in 1 .. Len(P), P[i].on \in Cts!Tasks,
               NEW o \in has[P[i].on]
        PROVE  \E j \in 1 .. Len(P) : P[j] = Cts!RemoveCall(P[i].on, o)
    <3>1. i \in 1 .. Len(C)
      BY <1>2, <1>5, <2>4, <2>9, CtsNames
    <3>2. P[i].on \in open
      BY <2>5, <3>1
    <3>3. PICK j \in 1 .. Len(C) : C[j] = Cts!RemoveCall(P[i].on, o)
      BY <2>1, <2>9, <3>2 DEF Covers
    <3> QED
      BY <2>4, <3>3
  <2>10. \A t \in open : \E i \in 1 .. Len(P) - 1 : P[i] = Cts!OwnCall(k.op, t)
    <3> SUFFICES ASSUME NEW t \in open PROVE \E i \in 1 .. Len(P) - 1 : P[i] = Cts!OwnCall(k.op, t)
      OBVIOUS
    <3>1. PICK i \in 1 .. Len(C) : C[i] = Cts!OwnCall(k.op, t)
      BY <2>1 DEF Covers
    <3> QED
      BY <2>4, <3>1
  <2>11. \A i \in 1 .. Len(P) - 1 : i \in 1 .. Len(C)
    BY <2>4
  <2> QED
    BY <2>2, <2>5, <2>7, <2>8, <2>9, <2>10, <2>11 DEF PlanOf
<1> QED
  BY <1>3, <1>4, <1>5
-----------------------------------------------------------------------------
LEMMA HandledStays ==
    ASSUME CtsTypes, CtsMoves, cmd' = cmd, NEW c \in Clients, NEW r \in Cts!Requests
    PROVE  /\ Cts!Reassigned(r) => Cts!Reassigned(r)'
           /\ Cts!Handled(c, r) => Cts!Handled(c, r)' \/ (cmd[c].op = "reassign" /\ Cts!Reassigned(r)')
<1>1. cmd[c].op \in Ops
  BY DEF CtsTypes, Cts!Commands, Ops
<1>2. Cts!Reassigned(r) => Cts!Reassigned(r)'
  BY ClientsAssumption DEF Cts!Reassigned, CtsMoves
<1>3. CASE cmd[c].op = "release"
  <2>1. Cts!Handled(c, r) <=> status[r] \in {"R", "gone"}
    BY <1>3 DEF Cts!Handled
  <2>2. Cts!Handled(c, r)' <=> status'[r] \in {"R", "gone"}
    BY <1>3 DEF Cts!Handled
  <2> QED
    BY <1>2, <2>1, <2>2 DEF CtsMoves
<1>4. CASE cmd[c].op = "delete"
  <2>1. Cts!Handled(c, r) <=> status[r] = "gone"
    BY <1>4 DEF Cts!Handled
  <2>2. Cts!Handled(c, r)' <=> status'[r] = "gone"
    BY <1>4 DEF Cts!Handled
  <2> QED
    BY <1>2, <2>1, <2>2 DEF CtsMoves
<1>5. CASE cmd[c].op = "reassign"
  <2>1. owner[r] = c => owner'[r] = c \/ Cts!Reassigned(r)'
    BY ClientsAssumption DEF Cts!Reassigned, CtsMoves
  <2>2. Cts!Handled(c, r) <=> owner[r] = c
    BY <1>5 DEF Cts!Handled
  <2>3. Cts!Handled(c, r)' <=> owner'[r] = c
    BY <1>5 DEF Cts!Handled
  <2> QED
    BY <1>2, <1>5, <2>1, <2>2, <2>3
<1> QED
  BY <1>1, <1>2, <1>3, <1>4, <1>5 DEF Ops

\* A client whose own variables stay, and which is no longer calm if others changed
\* what it works on.
LEMMA OthersKeep ==
    ASSUME CtsInv, CtsMoves, cmd' = cmd, NEW d \in Clients,
           pc'[d] = pc[d], fetched'[d] = fetched[d], plan'[d] = plan[d], result'[d] = result[d],
           \A r \in Cts!Requests : owner'[r] = d => owner[r] = d,
           (pc[d] = "calls" /\ calm'[d]) => calm[d] /\ status' = status /\ objects' = objects
    PROVE  CtsCommand(d)' /\ CtsGiven(d)' /\ CtsCalm(d)'
<1>1. CtsTypes /\ CtsCommand(d) /\ CtsGiven(d) /\ CtsCalm(d)
  BY DEF CtsInv
<1>2. fetched[d] \in SUBSET Cts!Tasks /\ cmd[d].number \in Cts!Requests
  BY <1>1 DEF CtsTypes, Cts!Commands
<1>3. CtsCommand(d)'
  <2>1. pc'[d] = "calls" => CtsPlan(cmd'[d], fetched'[d], plan'[d])
    BY <1>1 DEF CtsCommand
  <2>2. \A t \in fetched'[d] : status'[t] # "none"
    BY <1>1, <1>2, CtsNames DEF CtsCommand, CtsMoves
  <2>3. result'[d] = "ok" =>
          Cts!Handled(d, cmd[d].number)' \/ (cmd'[d].op = "reassign" /\ Cts!Reassigned(cmd[d].number)')
    BY <1>1, <1>2, HandledStays DEF CtsCommand
  <2> QED
    BY <1>1, <2>1, <2>2, <2>3 DEF CtsCommand
<1>4. CtsGiven(d)'
  <2> SUFFICES ASSUME cmd'[d].op = "reassign", NEW t \in fetched'[d], ~Cts!Reassigned(t)'
               PROVE  /\ owner'[Transport] # d
                      /\ pc'[d] = "calls" => \E i \in 1 .. Len(plan'[d]) - 1 : plan'[d][i].on = t
    BY DEF CtsGiven
  <2>1. ~Cts!Reassigned(t)
    BY <1>1, <1>2, HandledStays, CtsNames
  <2> QED
    BY <1>1, <2>1, CtsNames DEF CtsGiven
<1>5. CtsCalm(d)'
  BY <1>1 DEF CtsCalm
<1> QED
  BY <1>3, <1>4, <1>5

LEMMA ColleagueKeeps ==
    ASSUME CtsInv, Cts!Colleague
    PROVE  CtsInv'
<1>1. CtsTypes /\ CtsServer /\ ServerTypes
  BY DEF CtsInv, CtsTypes
<1>2. ServerTypes' /\ CtsServer' /\ CtsMoves /\ owner' = owner
  BY <1>1, CtsColleague
<1>3. UNCHANGED <<cmd, pc, fetched, plan, result>>
  BY DEF Cts!Colleague
<1>4. calm' = [d \in Clients |-> calm[d] /\ pc[d] # "calls"]
  BY DEF Cts!Colleague
<1>5. CtsTypes'
  BY <1>1, <1>2, <1>3, <1>4 DEF CtsTypes
<1>6. ASSUME NEW d \in Clients PROVE CtsCommand(d)' /\ CtsGiven(d)' /\ CtsCalm(d)'
  <2>1. ~(pc[d] = "calls" /\ calm'[d])
    BY <1>4
  <2> QED
    BY <1>2, <1>3, <2>1, OthersKeep
<1> QED
  BY <1>2, <1>5, <1>6 DEF CtsInv

LEMMA BeginKeeps ==
    ASSUME CtsInv, NEW c \in Clients, Cts!Begin(c)
    PROVE  CtsInv'
<1> DEFINE k == cmd[c]
           open == IF k.recursive /\ k.number = Transport
                   THEN {t \in Cts!Tasks : status[t] = "D"} ELSE {}
           P == Cts!Plan(k, open, objects)
<1>1. CtsTypes /\ CtsServer /\ CtsCommand(c) /\ ServerTypes
  BY DEF CtsInv, CtsTypes
<1>2. /\ pc[c] = "start" /\ UNCHANGED <<status, owner, objects, cmd>>
      /\ \/ /\ k.recursive => status[k.number] \in {"D", "R"}
            /\ pc' = [pc EXCEPT ![c] = "calls"]
            /\ fetched' = [fetched EXCEPT ![c] = open]
            /\ plan' = [plan EXCEPT ![c] = P]
            /\ UNCHANGED <<calm, result>>
         \/ /\ pc' = [pc EXCEPT ![c] = "done"] /\ result' = [result EXCEPT ![c] = "failed"]
            /\ calm' = [calm EXCEPT ![c] = @ /\ status[k.number] \notin {"D", "R"}]
            /\ UNCHANGED <<fetched, plan>>
  BY DEF Cts!Begin, Cts!Exit, Cts!requests
<1>3. k \in Cts!Commands /\ open \in SUBSET Cts!Tasks /\ k.op \in Ops /\ k.number \in Cts!Requests
  BY <1>1 DEF CtsTypes, Cts!Commands, Ops
<1>4. PlanOf(k, open, objects, P)
  BY <1>1, <1>3, PlanIsMade DEF ServerTypes
<1>5. P \in Seq(CtsCalls)
  BY <1>4 DEF PlanOf, CtsPlan
<1>6. /\ \A t \in open : status[t] = "D" /\ k.recursive /\ k.number = Transport
      /\ (k.recursive /\ k.number = Transport) => \A t \in Cts!Tasks : status[t] = "D" => t \in open
  OBVIOUS
<1> HIDE DEF k, open, P
<1>7. k = cmd[c]
  BY DEF k
<1>8. CtsMoves
  BY <1>2 DEF CtsMoves
<1>9. CtsServer' /\ ServerTypes'
  BY <1>1, <1>2 DEF CtsServer, ServerTypes
<1>10. CtsTypes'
  <2>1. /\ pc' \in [Clients -> {"start", "calls", "done"}]
        /\ result' \in [Clients -> {"none", "ok", "failed"}]
    BY <1>1, <1>2 DEF CtsTypes
  <2>2. fetched' \in [Clients -> SUBSET Cts!Tasks] /\ plan' \in [Clients -> Seq(CtsCalls)]
    <3>1. fetched \in [Clients -> SUBSET Cts!Tasks] /\ plan \in [Clients -> Seq(CtsCalls)]
      BY <1>1 DEF CtsTypes
    <3>2. CASE fetched' = [fetched EXCEPT ![c] = open] /\ plan' = [plan EXCEPT ![c] = P]
      <4>1. [fetched EXCEPT ![c] = open] \in [Clients -> SUBSET Cts!Tasks]
        BY <1>3, <3>1
      <4>2. [plan EXCEPT ![c] = P] \in [Clients -> Seq(CtsCalls)]
        BY <1>5, <3>1
      <4> QED
        BY <3>2, <4>1, <4>2
    <3>3. CASE UNCHANGED <<fetched, plan>>
      BY <3>1, <3>3
    <3> QED
      BY <1>2, <3>2, <3>3
  <2>3. calm' \in [Clients -> BOOLEAN]
    <3>1. CASE calm' = calm
      BY <1>1, <3>1 DEF CtsTypes
    <3>2. CASE calm' = [calm EXCEPT ![c] = @ /\ status[k.number] \notin {"D", "R"}]
      BY <1>1, <3>2 DEF CtsTypes
    <3> QED
      BY <1>2, <3>1, <3>2
  <2> QED
    BY <1>1, <1>2, <1>9, <2>1, <2>2, <2>3 DEF CtsTypes
<1>11. ASSUME NEW d \in Clients, d # c PROVE CtsCommand(d)' /\ CtsGiven(d)' /\ CtsCalm(d)'
  <2>1. /\ pc'[d] = pc[d] /\ fetched'[d] = fetched[d] /\ plan'[d] = plan[d]
        /\ result'[d] = result[d] /\ calm'[d] = calm[d]
    BY <1>1, <1>2, <1>11 DEF CtsTypes
  <2> QED
    BY <1>2, <1>8, <2>1, OthersKeep
<1>12. CtsCommand(c)' /\ CtsGiven(c)' /\ CtsCalm(c)'
  <2>1. CASE /\ pc' = [pc EXCEPT ![c] = "calls"]
             /\ fetched' = [fetched EXCEPT ![c] = open]
             /\ plan' = [plan EXCEPT ![c] = P]
             /\ UNCHANGED <<calm, result>>
    <3>1. pc'[c] = "calls" /\ fetched'[c] = open /\ plan'[c] = P /\ result'[c] = result[c]
      BY <1>1, <2>1 DEF CtsTypes
    <3>2. CtsCommand(c)'
      <4>1. CtsPlan(cmd'[c], fetched'[c], plan'[c])
        BY <1>2, <1>4, <1>7, <3>1 DEF PlanOf
      <4>2. result[c] = "none"
        BY <1>1, <1>2 DEF CtsCommand
      <4> QED
        BY <1>2, <1>6, <1>7, <3>1, <4>1, <4>2 DEF CtsCommand
    <3>3. CtsGiven(c)'
      <4> SUFFICES ASSUME cmd'[c].op = "reassign", NEW t \in fetched'[c]
                   PROVE  /\ owner'[Transport] # c
                          /\ \E i \in 1 .. Len(plan'[c]) - 1 : plan'[c][i].on = t
        BY DEF CtsGiven
      <4>1. owner'[Transport] # c
        BY <1>1, <1>2, CtsNames DEF CtsCommand
      <4>2. \E i \in 1 .. Len(P) - 1 : P[i] = Cts!OwnCall(k.op, t)
        BY <1>4, <1>6, <3>1 DEF PlanOf
      <4> QED
        BY <3>1, <4>1, <4>2, CallFields
    <3>4. CtsCalm(c)'
      <4> SUFFICES ASSUME k.recursive PROVE CtsCalm(c)'
        BY <1>2, <1>7 DEF CtsCalm
      <4>1. ASSUME NEW i \in 1 .. Len(P) - 1
            PROVE  /\ P[i].on # k.number => status[P[i].on] = "D"
                   /\ P[i].op = "remove" => P[i].object \in objects[P[i].on]
        BY <1>4, <1>6 DEF PlanOf
      <4>2. ASSUME k.op = "delete", NEW i \in 1 .. Len(P), P[i].on \in Cts!Tasks
            PROVE  \A o \in objects[P[i].on] : \E j \in 1 .. Len(P) : P[j] = Cts!RemoveCall(P[i].on, o)
        BY <1>4, <4>2 DEF PlanOf
      <4>3. ASSUME k.number = Transport, NEW t \in Cts!Tasks, status[t] = "D"
            PROVE  \E i \in 1 .. Len(P) - 1 : P[i] = Cts!OwnCall(k.op, t)
        BY <1>4, <1>6, <4>3 DEF PlanOf
      <4> QED
        BY <1>2, <1>7, <3>1, <4>1, <4>2, <4>3 DEF CtsCalm
    <3> QED
      BY <3>2, <3>3, <3>4
  <2>2. CASE /\ pc' = [pc EXCEPT ![c] = "done"] /\ result' = [result EXCEPT ![c] = "failed"]
             /\ UNCHANGED <<fetched, plan>>
    <3>1. pc'[c] = "done" /\ result'[c] = "failed" /\ fetched'[c] = {}
      BY <1>1, <1>2, <2>2 DEF CtsTypes, CtsCommand
    <3> QED
      BY <3>1 DEF CtsCommand, CtsGiven, CtsCalm
  <2> QED
    BY <1>2, <2>1, <2>2
<1> QED
  BY <1>9, <1>10, <1>11, <1>12 DEF CtsInv
-----------------------------------------------------------------------------
\* The first call of a plan, and what is left after it.
LEMMA PlanHead ==
    ASSUME NEW k, NEW open, NEW P, CtsPlan(k, open, P)
    PROVE  /\ Head(P) = P[1] /\ P[1] \in CtsCalls /\ Len(P) \in Nat /\ Len(P) > 0
           /\ Tail(P) \in Seq(CtsCalls) /\ Len(Tail(P)) = Len(P) - 1
           /\ (Tail(P) = <<>>) <=> (Len(P) = 1)
           /\ \A i \in 1 .. Len(P) - 1 : Tail(P)[i] = P[i + 1] /\ i + 1 \in 1 .. Len(P)
           /\ Len(P) = 1 => P[1] = Cts!OwnCall(k.op, k.number)
           /\ P[1].op = "remove" => Len(P) > 1 \/ k.op = "remove"
           /\ Len(P) > 1 => P[1].on \in Cts!Tasks
<1>1. P \in Seq(CtsCalls) /\ Len(P) > 0
  BY DEF CtsPlan
<1>2. /\ Head(P) = P[1] /\ P[1] \in CtsCalls /\ Len(P) \in Nat
      /\ Tail(P) \in Seq(CtsCalls) /\ Len(Tail(P)) = Len(P) - 1
      /\ \A i \in 1 .. Len(P) - 1 : Tail(P)[i] = P[i + 1] /\ i + 1 \in 1 .. Len(P)
  BY <1>1
<1>3. (Tail(P) = <<>>) <=> (Len(P) = 1)
  BY <1>1, <1>2
<1>4. Len(P) = 1 => P[1] = Cts!OwnCall(k.op, k.number)
  BY DEF CtsPlan
<1>5. Len(P) > 1 => P[1].on \in Cts!Tasks
  BY <1>2 DEF CtsPlan
<1>6. P[1].op = "remove" => Len(P) > 1 \/ k.op = "remove"
  BY <1>1, <1>2, <1>4, CallFields
<1> QED
  BY <1>1, <1>2, <1>3, <1>4, <1>5, <1>6

LEMMA PlanRest ==
    ASSUME NEW k, NEW open, NEW P, CtsPlan(k, open, P), Tail(P) # <<>>
    PROVE  CtsPlan(k, open, Tail(P))
<1> DEFINE R == Tail(P)
<1>1. /\ P \in Seq(CtsCalls) /\ R \in Seq(CtsCalls) /\ Len(P) \in Nat /\ Len(P) > 1
      /\ Len(R) = Len(P) - 1 /\ \A i \in 1 .. Len(R) : R[i] = P[i + 1] /\ i + 1 \in 1 .. Len(P)
  BY PlanHead DEF CtsPlan
<1> HIDE DEF R
<1>2. Len(R) > 0 /\ R[Len(R)] = P[Len(P)]
  BY <1>1
<1>3. CtsOrdered(R)
  <2> SUFFICES ASSUME NEW i \in 1 .. Len(R), NEW j \in 1 .. Len(R), i < j
               PROVE  /\ R[i].op # "remove" => R[j].on # R[i].on
                      /\ (R[i].op = "remove" /\ R[j].op = "remove" /\ R[i].on = R[j].on)
                            => R[i].object # R[j].object
    BY DEF CtsOrdered
  <2>1. R[i] = P[i + 1] /\ R[j] = P[j + 1] /\ i + 1 < j + 1
        /\ i + 1 \in 1 .. Len(P) /\ j + 1 \in 1 .. Len(P)
    BY <1>1
  <2>2. CtsOrdered(P)
    BY DEF CtsPlan
  <2> QED
    BY <2>1, <2>2 DEF CtsOrdered
<1>4. ASSUME NEW i \in 1 .. Len(R) - 1
      PROVE  R[i] = P[i + 1] /\ i + 1 \in 1 .. Len(P) - 1
  BY <1>1
<1>5. CtsPlan(k, open, R)
  BY <1>1, <1>2, <1>3, <1>4 DEF CtsPlan
<1> QED
  BY <1>5 DEF R

\* A call of client c, in the words of its plan.
Asked(c) == plan[c][1]

LEMMA CallFacts ==
    ASSUME CtsInv, NEW c \in Clients, pc[c] = "calls"
    PROVE  /\ CtsPlan(cmd[c], fetched[c], plan[c]) /\ Asked(c) = Head(plan[c])
           /\ Asked(c) \in CtsCalls /\ Asked(c).on \in Cts!Requests
           /\ Asked(c).op = "remove" => Asked(c).on \in Cts!Tasks
           /\ cmd[c].op \in Ops /\ cmd[c].number \in Cts!Requests /\ fetched[c] \in SUBSET Cts!Tasks
<1>1. CtsTypes /\ CtsPlan(cmd[c], fetched[c], plan[c])
  BY DEF CtsInv, CtsCommand
<1>2. cmd[c].op \in Ops /\ cmd[c].number \in Cts!Requests /\ fetched[c] \in SUBSET Cts!Tasks
  BY <1>1 DEF CtsTypes, Cts!Commands, Ops
<1>3. cmd[c].op # "remove"
  BY <1>2 DEF Ops
<1>4. /\ Asked(c) = Head(plan[c]) /\ Asked(c) \in CtsCalls
      /\ Asked(c).op = "remove" => Asked(c).on \in Cts!Tasks
  BY <1>1, <1>3, PlanHead DEF Asked
<1> QED
  BY <1>1, <1>2, <1>4 DEF CtsCalls

\* The command has reassigned all it fetched before it reassigns the transport.
LEMMA CallGives ==
    ASSUME CtsInv, NEW c \in Clients, pc[c] = "calls", CtsMoves, cmd' = cmd,
           fetched'[c] = fetched[c],
           \A r \in Cts!Requests :
               owner'[r] = IF r = Asked(c).on /\ Asked(c).op = "reassign" THEN c ELSE owner[r],
           pc'[c] = "calls" => plan'[c] = Tail(plan[c])
    PROVE  CtsGiven(c)'
<1> DEFINE P == plan[c]
<1> SUFFICES ASSUME cmd'[c].op = "reassign", NEW t \in fetched'[c], ~Cts!Reassigned(t)'
             PROVE  /\ owner'[Transport] # c
                    /\ pc'[c] = "calls" => \E i \in 1 .. Len(plan'[c]) - 1 : plan'[c][i].on = t
  BY DEF CtsGiven
<1>1. /\ CtsPlan(cmd[c], fetched[c], P) /\ Asked(c) = P[1]
      /\ t \in Cts!Tasks /\ t \in Cts!Requests
  BY CallFacts, CtsNames DEF Asked
<1>2. ~Cts!Reassigned(t)
  <2>1. CtsTypes
    BY DEF CtsInv
  <2> QED
    BY <1>1, <2>1, HandledStays
<1>3. owner[Transport] # c /\ \E i \in 1 .. Len(P) - 1 : P[i].on = t
  BY <1>2 DEF CtsInv, CtsGiven
<1>4. PICK i \in 1 .. Len(P) - 1 : P[i].on = t
  BY <1>3
<1>5. /\ Len(P) \in Nat /\ Len(P) > 1 /\ Len(Tail(P)) = Len(P) - 1
      /\ \A j \in 1 .. Len(P) - 1 : Tail(P)[j] = P[j + 1]
  BY <1>1, <1>4, PlanHead
<1>6. P[1].on \in Cts!Tasks
  BY <1>1, <1>5, PlanHead
<1>7. owner'[Transport] # c
  BY <1>1, <1>3, <1>6, CtsNames
<1>8. P[i].op = "reassign"
  BY <1>1, <1>4, CallFields DEF CtsPlan
<1>9. i # 1
  <2>1. owner'[t] = "colleague"
    BY DEF Cts!Reassigned
  <2>2. t = P[1].on /\ P[1].op = "reassign" => owner'[t] = c
    BY <1>1
  <2> QED
    BY <1>4, <1>8, <2>1, <2>2, ClientsAssumption
<1>10. i - 1 \in 1 .. Len(Tail(P)) - 1 /\ Tail(P)[i - 1] = P[i]
  BY <1>5, <1>9
<1> QED
  BY <1>4, <1>7, <1>10

\* As long as nothing disturbs it, the rest of the plan fits what is there.
LEMMA CallFits ==
    ASSUME CtsInv, NEW c \in Clients, pc[c] = "calls", CtsMoves, cmd' = cmd,
           calm'[c] => calm[c], plan'[c] = Tail(plan[c]), Tail(plan[c]) # <<>>,
           \A r \in Cts!Requests :
               status'[r] = IF r = Asked(c).on /\ Asked(c).op = "release" THEN "R"
                            ELSE IF r = Asked(c).on /\ Asked(c).op = "delete" THEN "gone"
                            ELSE status[r],
           \A t \in Cts!Tasks :
               objects'[t] = IF t = Asked(c).on /\ Asked(c).op = "remove"
                             THEN objects[t] \ {Asked(c).object} ELSE objects[t]
    PROVE  CtsCalm(c)'
<1> DEFINE P == plan[c]
           R == Tail(P)
           k == P[1]
<1> SUFFICES ASSUME calm[c], cmd[c].recursive PROVE CtsCalm(c)'
  BY DEF CtsCalm
<1>1. /\ CtsPlan(cmd[c], fetched[c], P) /\ Asked(c) = k /\ k.on \in Cts!Requests
      /\ cmd[c].op \in Ops /\ CtsCalm(c)
  BY CallFacts DEF Asked, CtsInv
<1>2. /\ Len(P) \in Nat /\ Len(P) > 1 /\ Len(R) = Len(P) - 1
      /\ \A i \in 1 .. Len(R) : R[i] = P[i + 1] /\ i + 1 \in 1 .. Len(P)
  BY <1>1, PlanHead
<1>3. /\ CtsOrdered(P)
      /\ \A i \in 1 .. Len(P) - 1 : /\ P[i].on \in Cts!Tasks
                                    /\ P[i].op = "remove" \/ P[i].op = cmd[c].op
  BY <1>1, CallFields DEF CtsPlan
<1>4. ASSUME NEW i \in 1 .. Len(R)
      PROVE  /\ k.op # "remove" => R[i].on # k.on
             /\ (k.op = "remove" /\ R[i].op = "remove" /\ k.on = R[i].on) => k.object # R[i].object
  <2>1. R[i] = P[i + 1] /\ 1 \in 1 .. Len(P) /\ i + 1 \in 1 .. Len(P) /\ 1 < i + 1
    BY <1>2
  <2> QED
    BY <1>3, <2>1 DEF CtsOrdered
<1>5. /\ \A i \in 1 .. Len(P) - 1 :
            /\ P[i].on # cmd[c].number => status[P[i].on] = "D"
            /\ P[i].op = "remove" => P[i].object \in objects[P[i].on]
      /\ cmd[c].op = "delete" => \A i \in 1 .. Len(P) : P[i].on \in Cts!Tasks =>
            \A o \in objects[P[i].on] : \E j \in 1 .. Len(P) : P[j] = Cts!RemoveCall(P[i].on, o)
      /\ (cmd[c].number = Transport /\ cmd[c].op # "reassign") =>
            \A t \in Cts!Tasks : status[t] = "D" =>
                \E i \in 1 .. Len(P) - 1 : P[i] = Cts!OwnCall(cmd[c].op, t)
  BY <1>1 DEF CtsCalm
<1> HIDE DEF P, R, k
<1>6. ASSUME NEW i \in 1 .. Len(R) - 1
      PROVE  /\ R[i].on # cmd[c].number => status'[R[i].on] = "D"
             /\ R[i].op = "remove" => R[i].object \in objects'[R[i].on]
  <2>1. R[i] = P[i + 1] /\ i + 1 \in 1 .. Len(P) - 1 /\ i \in 1 .. Len(R)
    BY <1>2
  <2>2. R[i].on \in Cts!Tasks /\ R[i].on \in Cts!Requests
    BY <1>3, <2>1, CtsNames
  <2>3. status'[R[i].on] = status[R[i].on]
    BY <1>1, <1>4, <2>1, <2>2
  <2>4. ASSUME R[i].op = "remove"
        PROVE  R[i].object \in objects'[R[i].on]
    <3>1. R[i].object \in objects[R[i].on]
      BY <1>5, <2>1, <2>4
    <3>2. objects'[R[i].on] = IF R[i].on = k.on /\ k.op = "remove"
                             THEN objects[R[i].on] \ {k.object} ELSE objects[R[i].on]
      BY <1>1, <2>2
    <3>3. R[i].on = k.on /\ k.op = "remove" => k.object # R[i].object
      BY <1>4, <2>1, <2>4
    <3> QED
      BY <3>1, <3>2, <3>3
  <2> QED
    BY <1>5, <2>1, <2>3, <2>4
<1>7. ASSUME cmd[c].op = "delete", NEW i \in 1 .. Len(R), R[i].on \in Cts!Tasks,
             NEW o \in objects'[R[i].on]
      PROVE  \E j \in 1 .. Len(R) : R[j] = Cts!RemoveCall(R[i].on, o)
  <2>1. R[i] = P[i + 1] /\ i + 1 \in 1 .. Len(P)
    BY <1>2
  <2>2. o \in objects[R[i].on]
    BY <1>7
  <2>3. PICK j \in 1 .. Len(P) : P[j] = Cts!RemoveCall(R[i].on, o)
    BY <1>5, <1>7, <2>1, <2>2
  <2>4. j # 1
    <3>1. SUFFICES ASSUME j = 1 PROVE FALSE
      OBVIOUS
    <3>2. k.op = "remove" /\ k.on = R[i].on /\ k.object = o
      BY <2>3, <3>1, CallFields DEF k
    <3> QED
      BY <1>1, <1>7, <3>2
  <2>5. j - 1 \in 1 .. Len(R) /\ R[j - 1] = P[j]
    BY <1>2, <2>4
  <2> QED
    BY <2>3, <2>5
<1>8. ASSUME cmd[c].number = Transport, cmd[c].op # "reassign", NEW t \in Cts!Tasks, status'[t] = "D"
      PROVE  \E i \in 1 .. Len(R) - 1 : R[i] = Cts!OwnCall(cmd[c].op, t)
  <2>1. status[t] = "D"
    BY <1>8, CtsNames
  <2>2. PICK i \in 1 .. Len(P) - 1 : P[i] = Cts!OwnCall(cmd[c].op, t)
    BY <1>5, <1>8, <2>1
  <2>3. i # 1
    <3>1. SUFFICES ASSUME i = 1 PROVE FALSE
      OBVIOUS
    <3>2. k.op = cmd[c].op /\ k.on = t
      BY <2>2, <3>1, CallFields DEF k
    <3> QED
      BY <1>1, <1>8, <3>2, CtsNames DEF Ops
  <2>4. i - 1 \in 1 .. Len(R) - 1 /\ R[i - 1] = P[i]
    BY <1>2, <2>3
  <2> QED
    BY <2>2, <2>4
<1>9. plan'[c] = R
  BY DEF R, P
<1> QED
  BY <1>6, <1>7, <1>8, <1>9 DEF CtsCalm

LEMMA CallKeeps ==
    ASSUME CtsInv, NEW c \in Clients, Cts!Call(c)
    PROVE  CtsInv'
<1> DEFINE k == Asked(c)
           rest == Tail(plan[c])
<1>1. CtsTypes /\ CtsServer /\ ServerTypes /\ CtsCommand(c)
  BY DEF CtsInv, CtsTypes
<1>2. pc[c] = "calls" /\ UNCHANGED <<cmd, fetched>>
  BY DEF Cts!Call
<1>3. /\ CtsPlan(cmd[c], fetched[c], plan[c]) /\ k = Head(plan[c])
      /\ k \in CtsCalls /\ k.on \in Cts!Requests
      /\ k.op = "remove" => k.on \in Cts!Tasks
      /\ cmd[c].op \in Ops /\ cmd[c].number \in Cts!Requests /\ fetched[c] \in SUBSET Cts!Tasks
  BY <1>2, CallFacts
<1>4. /\ rest \in Seq(CtsCalls)
      /\ (rest = <<>>) <=> (Len(plan[c]) = 1)
      /\ Len(plan[c]) = 1 => k = Cts!OwnCall(cmd[c].op, cmd[c].number)
  BY <1>3, PlanHead DEF Asked
<1> DEFINE Ended(r) == pc' = [pc EXCEPT ![c] = "done"] /\ result' = [result EXCEPT ![c] = r]
           Told(fault) == calm' = [d \in Clients |-> calm[d] /\ IF d = c THEN ~fault ELSE pc[d] # "calls"]
<1>5. \/ /\ Cts!Accepts(k) /\ Cts!Perform(c, k)
         /\ plan' = [plan EXCEPT ![c] = rest]
         /\ IF rest = <<>> THEN Ended("ok") ELSE UNCHANGED <<pc, result>>
         /\ Told(FALSE)
      \/ /\ Cts!Accepts(k) /\ Cts!Perform(c, k)
         /\ Ended("failed") /\ Told(TRUE) /\ UNCHANGED plan
      \/ /\ Ended("failed")
         /\ calm' = [calm EXCEPT ![c] = @ /\ ~Cts!Accepts(k)]
         /\ UNCHANGED <<status, owner, objects, plan>>
  BY <1>3 DEF Cts!Call, Cts!Exit, Cts!Disturb, Cts!requests
<1> HIDE DEF k, rest
<1>6. CASE Cts!Accepts(k) /\ Cts!Perform(c, k)
           /\ \/ /\ plan' = [plan EXCEPT ![c] = rest]
                 /\ IF rest = <<>> THEN Ended("ok") ELSE UNCHANGED <<pc, result>>
                 /\ Told(FALSE)
              \/ Ended("failed") /\ Told(TRUE) /\ UNCHANGED plan
  <2>1. /\ ServerTypes' /\ CtsServer' /\ CtsMoves
        /\ \A r \in Cts!Requests :
              /\ status'[r] = IF r = k.on /\ k.op = "release" THEN "R"
                              ELSE IF r = k.on /\ k.op = "delete" THEN "gone" ELSE status[r]
              /\ owner'[r] = IF r = k.on /\ k.op = "reassign" THEN c ELSE owner[r]
        /\ \A t \in Cts!Tasks :
              objects'[t] = IF t = k.on /\ k.op = "remove" THEN objects[t] \ {k.object} ELSE objects[t]
    BY <1>1, <1>3, <1>6, CtsPerforms
  <2>2. /\ pc' \in [Clients -> {"start", "calls", "done"}]
        /\ result' \in [Clients -> {"none", "ok", "failed"}]
        /\ \A d \in Clients : d # c => pc'[d] = pc[d] /\ result'[d] = result[d]
    BY <1>1, <1>6 DEF CtsTypes
  <2>3. /\ plan' \in [Clients -> Seq(CtsCalls)]
        /\ \A d \in Clients : d # c => plan'[d] = plan[d]
    <3>1. plan \in [Clients -> Seq(CtsCalls)]
      BY <1>1 DEF CtsTypes
    <3>2. CASE plan' = [plan EXCEPT ![c] = rest]
      <4>1. [plan EXCEPT ![c] = rest] \in [Clients -> Seq(CtsCalls)]
        <5> DEFINE calls == Seq(CtsCalls)
        <5>1. rest \in calls /\ plan \in [Clients -> calls]
          BY <1>4, <3>1
        <5> HIDE DEF calls
        <5>2. [plan EXCEPT ![c] = rest] \in [Clients -> calls]
          BY <5>1
        <5> QED
          BY <5>2 DEF calls
      <4>2. \A d \in Clients : d # c => [plan EXCEPT ![c] = rest][d] = plan[d]
        BY <3>1
      <4> QED
        BY <3>2, <4>1, <4>2
    <3>3. CASE plan' = plan
      BY <3>1, <3>3
    <3> QED
      BY <1>6, <3>2, <3>3
  <2>4. /\ calm' \in [Clients -> BOOLEAN]
        /\ \A d \in Clients : d # c => ~(pc[d] = "calls" /\ calm'[d])
        /\ calm'[c] => calm[c]
    BY <1>1, <1>6 DEF CtsTypes
  <2>5. CtsTypes'
    BY <1>1, <1>2, <2>1, <2>2, <2>3, <2>4 DEF CtsTypes
  <2>6. ASSUME NEW d \in Clients, d # c PROVE CtsCommand(d)' /\ CtsGiven(d)' /\ CtsCalm(d)'
    <3>1. \A r \in Cts!Requests : owner'[r] = d => owner[r] = d
      BY <2>1, <2>6
    <3>2. pc'[d] = pc[d] /\ plan'[d] = plan[d] /\ result'[d] = result[d] /\ fetched'[d] = fetched[d]
      BY <1>2, <2>2, <2>3, <2>6
    <3> QED
      BY <1>2, <2>1, <2>4, <2>6, <3>1, <3>2, OthersKeep
  <2>7. \/ pc'[c] = "calls" /\ rest # <<>> /\ plan'[c] = rest /\ result'[c] = result[c]
        \/ pc'[c] = "done" /\ rest = <<>> /\ result'[c] = "ok"
        \/ pc'[c] = "done" /\ result'[c] = "failed"
    BY <1>1, <1>2, <1>6 DEF CtsTypes
  <2>8. CtsGiven(c)'
    BY <1>2, <2>1, <2>7, CallGives DEF k, rest
  <2>9. CtsCalm(c)'
    <3>1. CASE pc'[c] # "calls"
      BY <3>1 DEF CtsCalm
    <3>2. CASE rest # <<>> /\ plan'[c] = rest
      BY <1>2, <2>1, <2>4, <3>2, CallFits DEF k, rest
    <3> QED
      BY <2>7, <3>1, <3>2
  <2>10. CtsCommand(c)'
    <3>1. \A t \in fetched[c] : status'[t] # "none"
      BY <1>1, <1>3, <2>1, CtsNames DEF CtsCommand, CtsMoves
    <3>2. fetched[c] # {} => cmd[c].number = Transport
      BY <1>1 DEF CtsCommand
    <3>3. pc'[c] = "calls" => CtsPlan(cmd[c], fetched[c], plan'[c]) /\ result'[c] = "none"
      <4>1. result[c] = "none"
        BY <1>1, <1>2 DEF CtsCommand
      <4> QED
        BY <1>3, <2>7, <4>1, PlanRest DEF rest
    <3>4. result'[c] = "ok" => Cts!Handled(c, cmd[c].number)'
      <4> SUFFICES ASSUME result'[c] = "ok" PROVE Cts!Handled(c, cmd[c].number)'
        OBVIOUS
      <4>1. result[c] = "none"
        BY <1>1, <1>2 DEF CtsCommand
      <4>2. k = Cts!OwnCall(cmd[c].op, cmd[c].number)
        BY <1>4, <2>7, <4>1
      <4>3. k.op = cmd[c].op /\ k.on = cmd[c].number
        BY <4>2, CallFields
      <4>4. CASE k.op = "release"
        BY <1>2, <1>3, <2>1, <4>3, <4>4 DEF Cts!Handled
      <4>5. CASE k.op = "delete"
        BY <1>2, <1>3, <2>1, <4>3, <4>5 DEF Cts!Handled
      <4>6. CASE k.op = "reassign"
        BY <1>2, <1>3, <2>1, <4>3, <4>6 DEF Cts!Handled
      <4> QED
        BY <1>3, <4>3, <4>4, <4>5, <4>6 DEF Ops
    <3> QED
      BY <1>2, <2>7, <3>1, <3>2, <3>3, <3>4 DEF CtsCommand
  <2> QED
    BY <2>1, <2>5, <2>6, <2>8, <2>9, <2>10 DEF CtsInv
<1>7. CASE /\ Ended("failed")
           /\ calm' = [calm EXCEPT ![c] = @ /\ ~Cts!Accepts(k)]
           /\ UNCHANGED <<status, owner, objects, plan>>
  <2>1. CtsMoves
    BY <1>7 DEF CtsMoves
  <2>2. ServerTypes' /\ CtsServer'
    BY <1>1, <1>7 DEF ServerTypes, CtsServer
  <2>3. /\ pc' \in [Clients -> {"start", "calls", "done"}]
        /\ result' \in [Clients -> {"none", "ok", "failed"}]
        /\ pc'[c] = "done" /\ result'[c] = "failed"
        /\ \A d \in Clients : d # c => pc'[d] = pc[d] /\ result'[d] = result[d]
    BY <1>1, <1>7 DEF CtsTypes
  <2>4. calm' \in [Clients -> BOOLEAN] /\ \A d \in Clients : d # c => calm'[d] = calm[d]
    BY <1>1, <1>7 DEF CtsTypes
  <2>5. CtsTypes'
    BY <1>1, <1>2, <1>7, <2>2, <2>3, <2>4 DEF CtsTypes
  <2>6. ASSUME NEW d \in Clients, d # c PROVE CtsCommand(d)' /\ CtsGiven(d)' /\ CtsCalm(d)'
    BY <1>2, <1>7, <2>1, <2>3, <2>4, <2>6, OthersKeep
  <2>7. CtsGiven(c)'
    <3>1. CtsGiven(c)
      BY DEF CtsInv
    <3> QED
      BY <1>2, <1>7, <2>3, <3>1 DEF CtsGiven, Cts!Reassigned
  <2>8. CtsCalm(c)'
    BY <2>3 DEF CtsCalm
  <2>9. CtsCommand(c)'
    BY <1>1, <1>2, <1>7, <2>3 DEF CtsCommand
  <2> QED
    BY <2>2, <2>5, <2>6, <2>7, <2>8, <2>9 DEF CtsInv
<1> QED
  BY <1>5, <1>6, <1>7

-----------------------------------------------------------------------------
LEMMA CtsPartInit == CommandsInit => CtsPart
<1> SUFFICES ASSUME CommandsInit PROVE CtsPart
  OBVIOUS
<1>1. CASE part = "cts"
  <2>1. Cts!Init
    BY <1>1, PartInit
  <2>2. CtsTypes
    BY <2>1 DEF Cts!Init, CtsTypes, ServerTypes
  <2>3. CtsServer
    BY <2>1 DEF Cts!Init, CtsServer
  <2>4. ASSUME NEW c \in Clients PROVE CtsCommand(c) /\ CtsGiven(c) /\ CtsCalm(c)
    <3>1. pc[c] = "start" /\ fetched[c] = {} /\ result[c] = "none"
      BY <2>1 DEF Cts!Init
    <3>2. \A r \in Cts!Requests : owner[r] # c
      BY <2>1, ClientsAssumption DEF Cts!Init
    <3> QED
      BY <3>1, <3>2 DEF CtsCommand, CtsGiven, CtsCalm
  <2> QED
    BY <1>1, <2>2, <2>3, <2>4 DEF CtsPart, CtsInv
<1>2. CASE part # "cts"
  BY <1>2, PartInit DEF CtsPart, NoCts
<1> QED
  BY <1>1, <1>2

LEMMA CtsPartStep == CtsPart /\ [CommandsNext]_all => CtsPart'
<1> SUFFICES ASSUME CtsPart, [CommandsNext]_all PROVE CtsPart'
  OBVIOUS
<1>1. part' = part /\ (part = "cts" => Cts!Next \/ UNCHANGED cts) /\ (part # "cts" => UNCHANGED cts)
  BY PartStep
<1>2. CASE part = "cts"
  <2>1. CtsInv
    BY <1>2 DEF CtsPart
  <2>2. CtsInv'
    <3>1. CASE Cts!Next
      BY <2>1, <3>1, ColleagueKeeps, BeginKeeps, CallKeeps DEF Cts!Next
    <3>2. CASE UNCHANGED cts
      <4>1. UNCHANGED <<status, owner, objects, cmd, pc, fetched, plan, calm, result>>
        BY <3>2 DEF cts
      <4>2. CtsTypes' /\ CtsServer' /\ CtsMoves
        BY <2>1, <4>1 DEF CtsInv, CtsTypes, ServerTypes, CtsServer, CtsMoves
      <4>3. ASSUME NEW d \in Clients PROVE CtsCommand(d)' /\ CtsGiven(d)' /\ CtsCalm(d)'
        BY <2>1, <4>1, <4>2, OthersKeep
      <4> QED
        BY <4>2, <4>3 DEF CtsInv
    <3> QED
      BY <1>1, <1>2, <3>1, <3>2
  <2> QED
    BY <1>1, <1>2, <2>2 DEF CtsPart
<1>3. CASE part # "cts"
  BY <1>1, <1>3 DEF CtsPart, cts
<1> QED
  BY <1>2, <1>3

LEMMA CtsAlways == CommandsSpec => []CtsPart
BY CtsPartInit, CtsPartStep, PTL DEF CommandsSpec

\* For every number of clients, of tasks and of objects: a command of cts that reports
\* success has released, deleted or reassigned the request, and later commands and
\* colleagues do not change that, but for another client who is given the request.
THEOREM SuccessesAreTrue == CommandsSpec => []OkMeansDone
<1>1. CtsPart => OkMeansDone
  <2> SUFFICES ASSUME CtsPart, NEW c \in Clients, result[c] = "ok"
               PROVE  Cts!Handled(c, cmd[c].number)
                      \/ (cmd[c].op = "reassign" /\ Cts!Reassigned(cmd[c].number))
    BY DEF OkMeansDone, Cts!OkMeansDone
  <2>1. part = "cts"
    BY DEF CtsPart
  <2> QED
    BY <2>1 DEF CtsPart, CtsInv, CtsCommand
<1> QED
  BY <1>1, CtsAlways, PTL

\* However a recursive command ended, and whatever others did meanwhile: the transport
\* is handled only when all the tasks that the command had fetched are.
THEOREM ParentsAreLast == CommandsSpec => []ParentLast
<1>1. CtsPart => ParentLast
  <2> SUFFICES ASSUME CtsPart, NEW c \in Clients, Cts!Handled(c, cmd[c].number), NEW t \in fetched[c]
               PROVE  Cts!Handled(c, t) \/ (cmd[c].op = "reassign" /\ Cts!Reassigned(t))
    BY DEF ParentLast, Cts!ParentLast
  <2>1. part = "cts" /\ CtsInv
    BY DEF CtsPart
  <2>2. /\ cmd[c].op \in Ops /\ t \in Cts!Tasks /\ cmd[c].number = Transport /\ status[t] # "none"
        /\ CtsServer /\ CtsGiven(c)
    BY <2>1 DEF CtsInv, CtsTypes, CtsCommand, Cts!Commands, Ops
  <2>3. CASE cmd[c].op = "release"
    <3>1. status[Transport] \in {"R", "gone"}
      BY <2>2, <2>3 DEF Cts!Handled
    <3> QED
      BY <2>2, <2>3, <3>1 DEF Cts!Handled, CtsServer
  <2>4. CASE cmd[c].op = "delete"
    <3>1. status[Transport] = "gone"
      BY <2>2, <2>4 DEF Cts!Handled
    <3> QED
      BY <2>2, <2>4, <3>1 DEF Cts!Handled, CtsServer
  <2>5. CASE cmd[c].op = "reassign"
    BY <2>2, <2>5 DEF Cts!Handled, CtsGiven
  <2> QED
    BY <2>2, <2>3, <2>4, <2>5 DEF Ops
<1> QED
  BY <1>1, CtsAlways, PTL

\* The next call of a command that nothing disturbs is accepted.
LEMMA CalmIsAccepted ==
    ASSUME CtsInv, NEW c \in Clients, pc[c] = "calls", calm[c], cmd[c].recursive,
           status[cmd[c].number] = "D",
           cmd[c].op = "delete" => \A t \in Cts!Tasks : status[t] # "R"
    PROVE  Cts!Accepts(Asked(c))
<1> DEFINE P == plan[c]
           k == Asked(c)
<1>1. /\ CtsPlan(cmd[c], fetched[c], P) /\ k = P[1] /\ k \in CtsCalls
      /\ cmd[c].op \in Ops /\ cmd[c].number \in Cts!Requests
      /\ CtsOrdered(P) /\ CtsTypes
  BY CallFacts DEF Asked, CtsPlan, CtsInv
<1>2. Len(P) \in Nat /\ Len(P) > 0 /\ (Len(P) = 1 => k = Cts!OwnCall(cmd[c].op, cmd[c].number))
  BY <1>1, PlanHead
<1>9. Len(P) = 1 \/ Len(P) > 1
  BY <1>1, PlanHead
<1>3. /\ \A i \in 1 .. Len(P) - 1 :
            /\ P[i].on # cmd[c].number => status[P[i].on] = "D"
            /\ P[i].op = "remove" => P[i].object \in objects[P[i].on]
      /\ cmd[c].op = "delete" => \A i \in 1 .. Len(P) : P[i].on \in Cts!Tasks =>
            \A o \in objects[P[i].on] : \E j \in 1 .. Len(P) : P[j] = Cts!RemoveCall(P[i].on, o)
      /\ (cmd[c].number = Transport /\ cmd[c].op # "reassign") =>
            \A t \in Cts!Tasks : status[t] = "D" =>
                \E i \in 1 .. Len(P) - 1 : P[i] = Cts!OwnCall(cmd[c].op, t)
  BY DEF CtsCalm, CtsInv
<1>4. /\ \A i \in 1 .. Len(P) - 1 : P[i].on \in Cts!Tasks
      /\ \A i \in 1 .. Len(P) - 1 : P[i].op = "remove" \/ P[i].op = cmd[c].op
  BY <1>1, CallFields DEF CtsPlan
<1>5. \A t \in Cts!Tasks : status[t] \in {"none", "D", "R", "gone"}
  BY <1>1, CtsNames DEF CtsTypes, ServerTypes
<1> HIDE DEF P, k
<1>6. 1 \in 1 .. Len(P)
  BY <1>2
<1>7. CASE Len(P) = 1
  <2>1. k.op = cmd[c].op /\ k.on = cmd[c].number /\ k.op # "remove"
    BY <1>1, <1>2, <1>7, CallFields DEF Ops
  <2>2. cmd[c].op # "reassign" => (k.on = Transport => \A t \in Cts!Tasks : status[t] # "D")
    <3>1. 1 .. Len(P) - 1 = {}
      BY <1>7
    <3> QED
      BY <1>3, <2>1, <3>1
  <2>3. k.op = "delete" => (k.on \in Cts!Tasks => objects[k.on] = {})
    <3> SUFFICES ASSUME k.op = "delete", k.on \in Cts!Tasks, NEW o \in objects[k.on] PROVE FALSE
      OBVIOUS
    <3>1. PICK j \in 1 .. Len(P) : P[j] = Cts!RemoveCall(k.on, o)
      BY <1>1, <1>3, <1>6, <2>1
    <3>2. j = 1
      BY <1>7
    <3> QED
      BY <1>1, <2>1, <3>1, <3>2, CallFields
  <2> QED
    BY <1>5, <2>1, <2>2, <2>3 DEF Cts!Accepts, Cts!Complete, k
<1>8. CASE Len(P) > 1
  <2>1. 1 \in 1 .. Len(P) - 1
    BY <1>2, <1>8
  <2>2. k.on \in Cts!Tasks /\ k.on # Transport /\ status[k.on] = "D"
    BY <1>1, <1>3, <1>4, <2>1, CtsNames
  <2>3. k.op = "remove" => k.object \in objects[k.on]
    BY <1>1, <1>3, <2>1
  <2>4. k.op = "delete" => objects[k.on] = {}
    <3> SUFFICES ASSUME k.op = "delete", NEW o \in objects[k.on] PROVE FALSE
      OBVIOUS
    <3>1. cmd[c].op = "delete"
      BY <1>1, <1>4, <2>1
    <3>2. PICK j \in 1 .. Len(P) : P[j] = Cts!RemoveCall(k.on, o)
      BY <1>1, <1>3, <1>6, <2>2, <3>1
    <3>3. P[j].op = "remove" /\ P[j].on = k.on
      BY <3>2, CallFields
    <3>4. 1 < j
      BY <1>1, <3>3
    <3> QED
      BY <1>1, <1>6, <3>3, <3>4 DEF CtsOrdered
  <2> QED
    BY <2>2, <2>3, <2>4 DEF Cts!Accepts, Cts!Complete, k
<1> QED
  BY <1>7, <1>8, <1>9

\* Whatever earlier commands left of a transport, for every number of its tasks and
\* objects: a recursive command fails only by a fault, by the interference of others,
\* because the request is not modifiable, or because a task to be deleted is released.
THEOREM RetriesComplete == CommandsSpec => RetryCompletes
<1> DEFINE Fails(c) == result'[c] # result[c] /\ result'[c] = "failed" /\ calm'[c] /\ cmd[c].recursive
           Excused(c) == \/ status[cmd[c].number] # "D"
                         \/ cmd[c].op = "delete" /\ \E t \in Cts!Tasks : status[t] = "R"
<1>1. CtsPart /\ [CommandsNext]_all => \A c \in Clients : Fails(c) => Excused(c)
  <2> SUFFICES ASSUME CtsPart, [CommandsNext]_all, NEW c \in Clients, Fails(c), ~Excused(c)
               PROVE  FALSE
    OBVIOUS
  <2>1. /\ part = "cts" => Cts!Next \/ UNCHANGED cts
        /\ part # "cts" => UNCHANGED cts
    BY PartStep
  <2>2. part = "cts" /\ CtsInv /\ Cts!Next /\ CtsTypes
    BY <2>1 DEF CtsPart, cts, CtsInv
  <2>3. PICK d \in Clients : Cts!Begin(d) \/ Cts!Call(d)
    BY <2>2 DEF Cts!Next, Cts!Colleague
  <2>4. CASE Cts!Begin(d)
    <3>1. d = c
      BY <2>2, <2>4 DEF Cts!Begin, Cts!Exit, CtsTypes
    <3>2. calm'[c] = (calm[c] /\ status[cmd[c].number] \notin {"D", "R"})
      BY <2>2, <2>4, <3>1 DEF Cts!Begin, Cts!Exit, CtsTypes
    <3> QED
      BY <3>2
  <2>5. CASE Cts!Call(d)
    <3>1. d = c
      BY <2>2, <2>5 DEF Cts!Call, Cts!Exit, CtsTypes
    <3>2. pc[c] = "calls" /\ Head(plan[c]) = Asked(c)
      BY <2>2, <2>5, <3>1, CallFacts DEF Cts!Call
    <3>3. calm'[c] = (calm[c] /\ ~Cts!Accepts(Asked(c))) \/ calm'[c] = FALSE
          \/ result'[c] = "ok" \/ result'[c] = result[c]
      <4> HIDE DEF Fails, Excused
      <4> QED
        BY <2>2, <2>5, <3>1, <3>2 DEF Cts!Call, Cts!Exit, Cts!Disturb, CtsTypes
    <3>4. calm[c] /\ ~Cts!Accepts(Asked(c))
      BY <3>3
    <3> QED
      BY <2>2, <3>2, <3>4, CalmIsAccepted
  <2> QED
    BY <2>3, <2>4, <2>5
<1>2. (\A c \in Clients : Fails(c) => Excused(c)) => [\A c \in Clients : Fails(c) => Excused(c)]_Cts!vars
  OBVIOUS
<1> QED
  BY <1>1, CtsAlways, PTL DEF CommandsSpec, RetryCompletes, Cts!RetryCompletes

-----------------------------------------------------------------------------
(***************************************************************************)
(* GctsRepo.                                                               *)
(***************************************************************************)
RepoFields == {"exists", "url", "role", "config", "branches", "active", "commit"}
RepoActors == [cmd: Repo!Changing \cup Repo!Showing, name: Repo!Names,
               pc: {"resolve", "fetch", "option", "request", "show", "done"},
               rid: Repo!Places, old: Repo!Values \cup {Repo!None},
               exit: {"none", "ok", "error", "traceback"}]
RepoServers == [Repo!Places -> Repo!Repository]
RepoHistories == [before: RepoServers, others: SUBSET (Repo!Places \X RepoFields),
                  answer: {"none", "data", "odd", "empty", "nothing", "bare"}, wrapped: BOOLEAN]

RepoTypes ==
    /\ actor \in RepoActors /\ place \in RepoServers /\ history \in RepoHistories
    /\ \A r \in Rids : history.before[r].exists

\* Before the one request of the command only others have changed something.
RepoUntouched ==
    \A r \in Repo!Places : \A f \in RepoFields :
        place[r][f] # history.before[r][f] => <<r, f>> \in history.others

\* A URL was that of one repository when it was looked up.
RepoNamed ==
    Repo!ByUrl =>
        \A r \in Rids : (history.before[r].url = actor.name.url) # (r = actor.rid)
                            => \E q \in Rids : Repo!OthersDid(q, "url")

\* The old value of an option is the one it had.
RepoOld ==
    actor.cmd.do \in {"config", "unset"} /\ actor.rid # System =>
        actor.old = history.before[actor.rid].config \/ history.wrapped \/ Repo!OthersDid(actor.rid, "config")

\* Where the command is, is where it has to be.
RepoGoes ==
    /\ actor.exit = "none" /\ RepoUntouched
    /\ actor.pc # "resolve" => RepoNamed
    /\ actor.pc \in {"fetch", "option", "request"} => actor.cmd.do # "show"
    /\ actor.pc \in {"fetch", "option"} => actor.cmd.do \in {"set", "config", "unset"}
    /\ actor.pc = "option" => actor.cmd.do # "set"
    /\ actor.pc = "show" => actor.cmd.do = "show"
    /\ actor.pc = "request" => RepoOld

RepoInv == RepoTypes /\ (actor.pc # "done" => RepoGoes) /\ Repo!RepositoryAsReported

\* The fields of a repository, and changing one of them.
LEMMA RepoField ==
    ASSUME NEW r \in Repo!Repository
    PROVE  /\ DOMAIN r = RepoFields
           /\ r.exists \in BOOLEAN /\ r.url \in Repo!Values /\ r.role \in Repo!Values
           /\ r.config \in Repo!Values \cup {Repo!None} /\ r.branches \in SUBSET Repo!Values
           /\ r.active \in Repo!Values /\ r.commit \in {"old", "new"}
BY DEF Repo!Repository, RepoFields

RepoWith(r, f, v) == [r EXCEPT ![f] = v]

LEMMA RepoPut ==
    ASSUME NEW r \in Repo!Repository, NEW f \in RepoFields, NEW v
    PROVE  /\ \A g \in RepoFields : RepoWith(r, f, v)[g] = IF g = f THEN v ELSE r[g]
           /\ RepoWith(RepoWith(r, f, v), f, v) = RepoWith(r, f, v)
           /\ r[f] = v => RepoWith(r, f, v) = r
<1>1. DOMAIN r = RepoFields /\ r = [g \in RepoFields |-> r[g]]
  BY RepoField DEF Repo!Repository, RepoFields
<1> DEFINE new == [r EXCEPT ![f] = v]
<1>2. \A g \in RepoFields : new[g] = IF g = f THEN v ELSE r[g]
  BY <1>1
<1>3. DOMAIN new = RepoFields /\ new = [g \in RepoFields |-> new[g]]
  BY <1>1
<1>4. [new EXCEPT ![f] = v] = new
  BY <1>2, <1>3
<1>5. r[f] = v => new = r
  BY <1>1, <1>2, <1>3
<1> QED
  BY <1>2, <1>4, <1>5 DEF RepoWith

LEMMA RepoValue ==
    ASSUME NEW r \in Repo!Repository, NEW f \in {"url", "role", "config"}, NEW v \in Repo!Values
    PROVE  [r EXCEPT ![f] = v] \in Repo!Repository
<1>1. CASE f = "url"
  BY <1>1 DEF Repo!Repository
<1>2. CASE f = "role"
  BY <1>2 DEF Repo!Repository
<1>3. CASE f = "config"
  BY <1>3 DEF Repo!Repository
<1> QED
  BY <1>1, <1>2, <1>3

LEMMA RepoOthers ==
    ASSUME NEW r \in Repo!Repository
    PROVE  /\ [r EXCEPT !.config = Repo!None] \in Repo!Repository
           /\ [r EXCEPT !.exists = FALSE] \in Repo!Repository
           /\ [r EXCEPT !.commit = "new"] \in Repo!Repository
           /\ \A v \in Repo!Values :
                 /\ [r EXCEPT !.branches = @ \cup {v}, !.active = v] \in Repo!Repository
                 /\ [r EXCEPT !.branches = @ \ {v}] \in Repo!Repository
<1>1. /\ [r EXCEPT !.config = Repo!None] \in Repo!Repository
      /\ [r EXCEPT !.exists = FALSE] \in Repo!Repository
      /\ [r EXCEPT !.commit = "new"] \in Repo!Repository
  BY DEF Repo!Repository
<1>2. ASSUME NEW v \in Repo!Values
      PROVE  [r EXCEPT !.branches = @ \cup {v}, !.active = v] \in Repo!Repository
  BY DEF Repo!Repository
<1>3. ASSUME NEW v \in Repo!Values
      PROVE  [r EXCEPT !.branches = @ \ {v}] \in Repo!Repository
  BY DEF Repo!Repository
<1> QED
  BY <1>1, <1>2, <1>3

RepoDoes == {"set", "config", "unset", "create branch", "delete branch", "pull", "commit", "delete"}

LEMMA RepoCommand ==
    ASSUME NEW asked \in Repo!Changing \cup Repo!Showing
    PROVE  /\ asked.do \in RepoDoes \cup {"show"} /\ asked.value \in Repo!Values
           /\ asked.do = "show" <=> asked \in Repo!Showing
           /\ asked.do = "set" => asked.on \in {"role", "url"}
           /\ asked.do \in {"config", "unset"} => asked.on = "config"
           /\ asked.do \in {"create branch", "delete branch"} => asked.on = "branches"
           /\ asked.do \in {"pull", "commit", "delete"} => asked.on = "commit"
           /\ asked.do = "show" => asked.on \in Repo!Shown
BY DEF Repo!Changing, Repo!Showing, Repo!Values, RepoDoes, Repo!Shown

\* What a request makes of a repository.
RepoNew(asked, r) ==
    CASE asked.do \in {"set", "config"} -> [r EXCEPT ![asked.on] = asked.value]
      [] asked.do = "unset" -> [r EXCEPT !.config = Repo!None]
      [] asked.do = "create branch" -> [r EXCEPT !.branches = @ \cup {asked.value}, !.active = asked.value]
      [] asked.do = "delete branch" -> [r EXCEPT !.branches = @ \ {asked.value}]
      [] asked.do = "delete" -> [r EXCEPT !.exists = FALSE]
      [] OTHER -> [r EXCEPT !.commit = "new"]

LEMMA RepoMakes ==
    ASSUME NEW asked \in Repo!Changing, NEW r \in Repo!Repository
    PROVE  /\ RepoNew(asked, r) \in Repo!Repository
           /\ RepoNew(asked, RepoNew(asked, r)) = RepoNew(asked, r)
           /\ \A f \in RepoFields \ Repo!Asked(asked) : RepoNew(asked, r)[f] = r[f]
<1>1. /\ asked.do \in RepoDoes /\ asked.value \in Repo!Values
      /\ asked.do = "set" => asked.on \in {"role", "url"}
      /\ asked.do \in {"config", "unset"} => asked.on = "config"
      /\ asked.do \in {"create branch", "delete branch"} => asked.on = "branches"
      /\ asked.do \in {"pull", "commit", "delete"} => asked.on = "commit"
  BY RepoCommand DEF Repo!Changing, RepoDoes, Repo!Values
<1> DEFINE v == asked.value
<1>2. CASE asked.do \in {"set", "config"}
  <2>1. asked.on \in {"url", "role", "config"} /\ asked.on \in RepoFields
    BY <1>1, <1>2 DEF RepoFields
  <2>2. \A s : RepoNew(asked, s) = RepoWith(s, asked.on, v)
    BY <1>2 DEF RepoNew, RepoWith
  <2>3. RepoWith(r, asked.on, v) \in Repo!Repository
    BY <1>1, <2>1, RepoValue DEF RepoWith
  <2>4. Repo!Asked(asked) = {asked.on}
    BY <1>2 DEF Repo!Asked
  <2> HIDE DEF v
  <2> QED
    BY <2>1, <2>2, <2>3, <2>4, RepoPut
<1>3. CASE asked.do = "unset"
  <2>1. \A s : RepoNew(asked, s) = RepoWith(s, "config", Repo!None)
    BY <1>3 DEF RepoNew, RepoWith
  <2>2. RepoWith(r, "config", Repo!None) \in Repo!Repository
    BY RepoOthers DEF RepoWith
  <2>3. Repo!Asked(asked) = {"config"}
    BY <1>1, <1>3 DEF Repo!Asked
  <2> QED
    BY <2>1, <2>2, <2>3, RepoPut DEF RepoFields
<1>4. CASE asked.do = "create branch"
  <2>1. \A s : RepoNew(asked, s) = [s EXCEPT !.branches = @ \cup {v}, !.active = v]
    BY <1>4 DEF RepoNew
  <2> DEFINE new == [r EXCEPT !.branches = @ \cup {v}, !.active = v]
  <2>2. new \in Repo!Repository
    BY <1>1, RepoOthers
  <2>3. Repo!Asked(asked) = {"branches", "active"}
    BY <1>4 DEF Repo!Asked
  <2>4. [new EXCEPT !.branches = @ \cup {v}, !.active = v] = new
    BY RepoField
  <2>5. \A f \in RepoFields \ {"branches", "active"} : new[f] = r[f]
    BY RepoField
  <2> HIDE DEF new
  <2>6. RepoNew(asked, r) = new /\ RepoNew(asked, new) = new
    BY <2>1, <2>4 DEF new
  <2> QED
    BY <2>2, <2>3, <2>5, <2>6
<1>5. CASE asked.do = "delete branch"
  <2>1. \A s : RepoNew(asked, s) = [s EXCEPT !.branches = @ \ {v}]
    BY <1>5 DEF RepoNew
  <2> DEFINE new == [r EXCEPT !.branches = @ \ {v}]
  <2>2. new \in Repo!Repository
    BY <1>1, RepoOthers
  <2>3. Repo!Asked(asked) = {"branches"}
    BY <1>1, <1>5 DEF Repo!Asked
  <2>4. [new EXCEPT !.branches = @ \ {v}] = new
    BY RepoField
  <2>5. \A f \in RepoFields \ {"branches"} : new[f] = r[f]
    BY RepoField
  <2> HIDE DEF new
  <2>6. RepoNew(asked, r) = new /\ RepoNew(asked, new) = new
    BY <2>1, <2>4 DEF new
  <2> QED
    BY <2>2, <2>3, <2>5, <2>6
<1>6. CASE asked.do = "delete"
  <2> DEFINE no == FALSE
  <2>1. \A s : RepoNew(asked, s) = RepoWith(s, "exists", no)
    BY <1>6 DEF RepoNew, RepoWith
  <2>2. RepoWith(r, "exists", no) \in Repo!Repository
    BY RepoOthers DEF RepoWith
  <2> HIDE DEF no
  <2>3. Repo!Asked(asked) = {"exists"}
    BY <1>6 DEF Repo!Asked
  <2> QED
    BY <2>1, <2>2, <2>3, RepoPut DEF RepoFields
<1>7. CASE asked.do \in {"pull", "commit"}
  <2>1. \A s : RepoNew(asked, s) = RepoWith(s, "commit", "new")
    BY <1>7 DEF RepoNew, RepoWith
  <2>2. RepoWith(r, "commit", "new") \in Repo!Repository
    BY RepoOthers DEF RepoWith
  <2>3. Repo!Asked(asked) = {"commit"}
    BY <1>1, <1>7 DEF Repo!Asked
  <2> QED
    BY <2>1, <2>2, <2>3, RepoPut DEF RepoFields
<1> QED
  BY <1>1, <1>2, <1>3, <1>4, <1>5, <1>6, <1>7 DEF RepoDoes

LEMMA RepoKept == RepoTypes /\ RepoUntouched => Repo!ChangesOnlyAsked
<1> SUFFICES ASSUME RepoTypes, RepoUntouched, NEW r \in Repo!Places, NEW f \in DOMAIN place[r],
                    place[r][f] # history.before[r][f]
             PROVE  <<r, f>> \in history.others
  BY DEF Repo!ChangesOnlyAsked
<1>1. place[r] \in Repo!Repository
  BY DEF RepoTypes, RepoServers
<1>2. f \in RepoFields
  BY <1>1, RepoField
<1> QED
  BY <1>2 DEF RepoUntouched

LEMMA RepoOpen == RepoTypes /\ RepoGoes => Repo!RepositoryAsReported
<1> SUFFICES ASSUME RepoTypes, RepoGoes PROVE Repo!RepositoryAsReported
  OBVIOUS
<1>1. actor.exit # "ok" /\ RepoUntouched
  BY DEF RepoGoes
<1>2. Repo!TheOneNamed /\ Repo!SuccessIsTrue
  BY <1>1 DEF Repo!TheOneNamed, Repo!SuccessIsTrue, Repo!Ok
<1> QED
  BY <1>1, <1>2, RepoKept DEF Repo!RepositoryAsReported

LEMMA RepoOpened == RepoTypes' /\ RepoGoes' => RepoInv'
<1>1. RepoTypes /\ RepoGoes => RepoInv
  BY RepoOpen DEF RepoInv
<1> QED
  BY <1>1, PTL

\* How a command ends without success.
LEMMA RepoFailed ==
    ASSUME RepoTypes', actor'.exit # "ok", actor'.pc = "done", RepoUntouched' \/ Repo!ChangesOnlyAsked'
    PROVE  RepoInv'
<1>1. Repo!ChangesOnlyAsked'
  BY RepoKept, PTL
<1>2. Repo!TheOneNamed' /\ Repo!SuccessIsTrue'
  BY DEF Repo!TheOneNamed, Repo!SuccessIsTrue, Repo!Ok
<1> QED
  BY <1>1, <1>2 DEF RepoInv, Repo!RepositoryAsReported

LEMMA RepoExits ==
    ASSUME actor \in RepoActors, NEW how \in {"ok", "error", "traceback"},
           actor' = [actor EXCEPT !.pc = "done", !.exit = how]
    PROVE  /\ actor' \in RepoActors /\ actor'.pc = "done" /\ actor'.exit = how
           /\ actor'.cmd = actor.cmd /\ actor'.name = actor.name /\ actor'.rid = actor.rid
           /\ actor'.old = actor.old
BY DEF RepoActors

LEMMA RepoWalks ==
    ASSUME actor \in RepoActors, NEW to \in {"fetch", "option", "request", "show"},
           NEW r \in Repo!Places, NEW old \in Repo!Values \cup {Repo!None},
           actor' = [actor EXCEPT !.pc = to, !.rid = r, !.old = old]
    PROVE  /\ actor' \in RepoActors /\ actor'.pc = to /\ actor'.exit = actor.exit
           /\ actor'.cmd = actor.cmd /\ actor'.name = actor.name /\ actor'.rid = r
           /\ actor'.old = old
BY DEF RepoActors

LEMMA RepoActor ==
    ASSUME actor \in RepoActors
    PROVE  /\ actor.cmd \in Repo!Changing \cup Repo!Showing /\ actor.name \in Repo!Names
           /\ actor.rid \in Repo!Places /\ actor.old \in Repo!Values \cup {Repo!None}
           /\ \A to : [actor EXCEPT !.pc = to] = [actor EXCEPT !.pc = to, !.rid = actor.rid, !.old = actor.old]
           /\ \A to, r : [actor EXCEPT !.rid = r, !.pc = to] = [actor EXCEPT !.pc = to, !.rid = r, !.old = actor.old]
           /\ \A to, old : [actor EXCEPT !.pc = to, !.old = old] = [actor EXCEPT !.pc = to, !.rid = actor.rid, !.old = old]
BY DEF RepoActors

LEMMA RepoError ==
    ASSUME RepoInv, actor.pc # "done", NEW how \in {"error", "traceback"},
           actor' = [actor EXCEPT !.pc = "done", !.exit = how], UNCHANGED place,
           NEW wrapped \in BOOLEAN, history' = [history EXCEPT !.wrapped = wrapped]
    PROVE  RepoInv'
<1>1. RepoTypes /\ RepoUntouched
  BY DEF RepoInv, RepoGoes
<1>2. actor' \in RepoActors /\ actor'.pc = "done" /\ actor'.exit = how
  BY <1>1, RepoExits DEF RepoTypes
<1>3. history' \in RepoHistories /\ history'.before = history.before /\ history'.others = history.others
  BY <1>1 DEF RepoTypes, RepoHistories
<1>4. RepoTypes' /\ RepoUntouched'
  BY <1>1, <1>2, <1>3 DEF RepoTypes, RepoUntouched
<1> QED
  BY <1>2, <1>4, RepoFailed

\* The history may stay as it is.
LEMMA RepoHistory ==
    ASSUME RepoTypes
    PROVE  /\ history.wrapped \in BOOLEAN /\ history = [history EXCEPT !.wrapped = history.wrapped]
           /\ Repo!TakeError => history' = [history EXCEPT !.wrapped = TRUE]
BY DEF RepoTypes, RepoHistories, Repo!TakeError

\* What others did stays done by them.
LEMMA RepoResolve == ASSUME RepoInv, Repo!Resolve PROVE RepoInv'
<1>1. RepoTypes /\ RepoGoes /\ actor.pc = "resolve" /\ UNCHANGED <<place, history>>
  BY DEF RepoInv, Repo!Resolve
<1>2. /\ actor \in RepoActors /\ actor.cmd \in Repo!Changing \cup Repo!Showing
      /\ actor.old \in Repo!Values \cup {Repo!None} /\ actor.name \in Repo!Names
  BY <1>1, RepoActor DEF RepoTypes
<1>3. CASE Repo!Exit("error")
  BY <1>1, <1>3, RepoError, RepoHistory DEF Repo!Exit
<1>4. ASSUME NEW r \in Repo!Places, actor' = [actor EXCEPT !.rid = r, !.pc = Repo!After],
             Repo!ByUrl => r \in Repo!Found /\ Repo!Found = {r},
             actor.name = [rid |-> System] => r = System
      PROVE  RepoInv'
  <2> DEFINE to == Repo!After
             do == actor.cmd.do
  <2>0. do \in RepoDoes \cup {"show"}
    BY <1>2, RepoCommand
  <2>1. /\ to \in {"fetch", "request", "show"}
        /\ to = "show" <=> do = "show"
        /\ to = "fetch" => do \in {"set", "config", "unset"}
        /\ to = "request" /\ do \in {"config", "unset"} => actor.name = [rid |-> System]
    <3>1. CASE do = "show"
      BY <3>1 DEF Repo!After
    <3>2. CASE do \in {"set", "config", "unset"} /\ actor.name # [rid |-> System]
      BY <3>2 DEF Repo!After
    <3>3. CASE do \in {"set", "config", "unset"} /\ actor.name = [rid |-> System]
      <4>1. to = "request"
        BY <3>3 DEF Repo!After
      <4> QED
        BY <3>3, <4>1
    <3>4. CASE do \notin {"show", "set", "config", "unset"}
      BY <3>4 DEF Repo!After
    <3> QED
      BY <3>1, <3>2, <3>3, <3>4
  <2> HIDE DEF to
  <2>2. actor' = [actor EXCEPT !.pc = to, !.rid = r, !.old = actor.old]
    BY <1>2, <1>4, RepoActor DEF to
  <2>3. /\ actor' \in RepoActors /\ actor'.pc = to /\ actor'.exit = actor.exit
        /\ actor'.cmd = actor.cmd /\ actor'.name = actor.name /\ actor'.rid = r
    BY <1>2, <2>1, <2>2, RepoWalks
  <2>4. RepoTypes'
    BY <1>1, <2>3 DEF RepoTypes
  <2>5. RepoUntouched'
    BY <1>1 DEF RepoGoes, RepoUntouched
  <2>6. RepoNamed'
    <3> SUFFICES ASSUME Repo!ByUrl, NEW q \in Rids,
                        (history.before[q].url = actor.name.url) # (q = r)
                 PROVE  Repo!OthersDid(q, "url")'
      BY <1>1, <2>3 DEF RepoNamed, Repo!ByUrl
    <3>1. q \in Repo!Places /\ history.before[q].exists
      BY <1>1 DEF RepoTypes, Repo!Places
    <3>2. (place[q].exists /\ place[q].url = actor.name.url) <=> q = r
      BY <1>4 DEF Repo!Found
    <3>3. place[q].url # history.before[q].url \/ place[q].exists # history.before[q].exists
      BY <3>1, <3>2
    <3>4. <<q, "url">> \in history.others \/ <<q, "exists">> \in history.others
      BY <1>1, <3>1, <3>3 DEF RepoGoes, RepoUntouched, RepoFields
    <3> QED
      BY <1>1, <3>4 DEF Repo!OthersDid
  <2>7. to = "request" => RepoOld'
    BY <1>4, <2>1, <2>3 DEF RepoOld
  <2>8. RepoGoes'
    BY <1>1, <2>1, <2>3, <2>5, <2>6, <2>7 DEF RepoGoes
  <2> QED
    BY <2>4, <2>8, RepoOpened
<1>5. CASE ~Repo!ByUrl /\ actor' = [actor EXCEPT !.rid = actor.name.rid, !.pc = Repo!After]
  <2>1. actor.name \in [rid: Repo!Places]
    BY <1>2, <1>5 DEF Repo!Names, Repo!ByUrl
  <2>2. actor.name.rid \in Repo!Places /\ (actor.name = [rid |-> System] => actor.name.rid = System)
    BY <2>1
  <2> QED
    BY <1>4, <1>5, <2>2
<1>6. CASE /\ Repo!ByUrl /\ Repo!Cardinality(Repo!Found) = 1
           /\ \E r \in Repo!Found : actor' = [actor EXCEPT !.rid = r, !.pc = Repo!After]
  <2>1. PICK r \in Repo!Found : actor' = [actor EXCEPT !.rid = r, !.pc = Repo!After]
    BY <1>6
  <2>2. r \in Rids /\ r \in Repo!Places
    BY <2>1 DEF Repo!Found, Repo!Places
  <2>3. Repo!Found = {r}
    <3>1. Cardinality(Repo!Found) = 1
      BY <1>6 DEF Repo!Cardinality, Cardinality
    <3>2. \E x : Repo!Found = {x}
      <4>1. IsFiniteSet(Repo!Found)
        BY RidsAssumption, FS_Subset DEF Repo!Found
      <4> QED
        BY <3>1, <4>1, FS_Singleton
    <3> QED
      BY <3>2
  <2>4. actor.name # [rid |-> System]
    BY <1>6 DEF Repo!ByUrl
  <2> QED
    BY <1>4, <2>1, <2>2, <2>3, <2>4
<1> QED
  BY <1>3, <1>5, <1>6 DEF Repo!Resolve

LEMMA RepoChanged ==
    ASSUME RepoTypes, actor.cmd.do # "show"
    PROVE  /\ place[actor.rid] \in Repo!Repository /\ actor.cmd \in Repo!Changing
           /\ Repo!Changed = RepoNew(actor.cmd, place[actor.rid])
<1>1. actor \in RepoActors /\ place \in RepoServers
  BY DEF RepoTypes
<1>2. actor.rid \in Repo!Places /\ actor.cmd \in Repo!Changing \cup Repo!Showing
  BY <1>1, RepoActor
<1>3. actor.cmd \in Repo!Changing
  BY <1>2, RepoCommand
<1> QED
  BY <1>1, <1>2, <1>3 DEF RepoServers, Repo!Changed, Repo!There, RepoNew

\* The command ends well and sends nothing else.
LEMMA RepoEndsWell ==
    ASSUME RepoInv, actor.pc \notin {"resolve", "done"}, actor.cmd.do # "show",
           RepoTypes', actor'.pc = "done", history'.before = history.before,
           history'.others = history.others,
           actor'.cmd = actor.cmd, actor'.name = actor.name, actor'.rid = actor.rid,
           actor'.old = actor.old,
           actor.cmd.do \in {"config", "unset"} => RepoOld,
           history.wrapped => history'.wrapped,
           (actor.cmd.do = "pull" /\ history'.wrapped) \/ RepoNew(actor.cmd, place'[actor.rid]) = place'[actor.rid],
           RepoUntouched' \/ Repo!ChangesOnlyAsked'
    PROVE  RepoInv'
<1>1. RepoTypes /\ RepoNamed
  BY DEF RepoInv, RepoGoes
<1>2. Repo!ChangesOnlyAsked'
  BY RepoKept, PTL
<1>3. Repo!TheOneNamed'
  BY <1>1 DEF Repo!TheOneNamed, RepoNamed, Repo!ByUrl, Repo!OthersDid
<1>4. Repo!SuccessIsTrue'
  <2>1. Repo!Changed' = RepoNew(actor'.cmd, place'[actor'.rid])
    BY DEF Repo!Changed, Repo!There, RepoNew
  <2>2. (actor'.cmd.do = "pull" /\ history'.wrapped) \/ place'[actor'.rid] = Repo!Changed'
    BY <2>1
  <2>3. actor'.cmd.do \in {"config", "unset"} /\ actor'.rid # System =>
            actor'.old = history'.before[actor'.rid].config \/ history'.wrapped
            \/ Repo!OthersDid(actor.rid, "config")'
    <3>1. Repo!OthersDid(actor.rid, "config") => Repo!OthersDid(actor.rid, "config")'
      BY DEF Repo!OthersDid
    <3> QED
      BY <3>1 DEF RepoOld
  <2>4. actor'.cmd.do # "show"
    OBVIOUS
  <2> QED
    BY <2>2, <2>3, <2>4 DEF Repo!SuccessIsTrue
<1> QED
  BY <1>2, <1>3, <1>4 DEF RepoInv, Repo!RepositoryAsReported

\* The old value, as it is read.
LEMMA RepoReads ==
    ASSUME RepoTypes, RepoUntouched, actor.rid # System
    PROVE  place[actor.rid].config = history.before[actor.rid].config
           \/ Repo!OthersDid(actor.rid, "config")
<1>1. actor.rid \in Repo!Places
  BY RepoActor DEF RepoTypes
<1> QED
  BY <1>1 DEF RepoUntouched, RepoFields, Repo!OthersDid

LEMMA RepoOn ==
    ASSUME RepoInv, actor.pc \in {"fetch", "option"}, NEW to \in {"option", "request"},
           NEW old \in Repo!Values \cup {Repo!None},
           actor' = [actor EXCEPT !.pc = to, !.rid = actor.rid, !.old = old],
           to = "option" => actor.cmd.do # "set",
           NEW wrapped \in BOOLEAN, history.wrapped => wrapped,
           actor.cmd.do = "set" \/ to = "option" \/ old = place[actor.rid].config \/ wrapped,
           UNCHANGED place, history' = [history EXCEPT !.wrapped = wrapped]
    PROVE  RepoInv'
<1>1. RepoTypes /\ RepoGoes
  BY DEF RepoInv
<1>2. actor \in RepoActors /\ actor.rid \in Repo!Places
  BY <1>1, RepoActor DEF RepoTypes
<1>4. /\ actor' \in RepoActors /\ actor'.pc = to /\ actor'.exit = actor.exit
      /\ actor'.cmd = actor.cmd /\ actor'.name = actor.name /\ actor'.rid = actor.rid
      /\ actor'.old = old
  BY <1>2, RepoWalks
<1>3. /\ history' \in RepoHistories /\ history'.before = history.before
      /\ history'.others = history.others /\ history'.wrapped = wrapped
  BY <1>1 DEF RepoTypes, RepoHistories
<1>5. RepoTypes' /\ RepoUntouched' /\ RepoNamed'
  BY <1>1, <1>3, <1>4 DEF RepoTypes, RepoGoes, RepoUntouched, RepoNamed, Repo!ByUrl, Repo!OthersDid
<1>6. to = "request" => RepoOld'
  BY <1>1, <1>3, <1>4, RepoReads DEF RepoOld, RepoGoes, Repo!OthersDid
<1>7. RepoGoes'
  BY <1>1, <1>4, <1>5, <1>6 DEF RepoGoes
<1> QED
  BY <1>5, <1>7, RepoOpened

LEMMA RepoFetch == ASSUME RepoInv, Repo!Fetch PROVE RepoInv'
<1>1. RepoTypes /\ RepoGoes /\ actor.pc = "fetch" /\ UNCHANGED place
  BY DEF RepoInv, Repo!Fetch
<1>2. /\ actor \in RepoActors /\ actor.cmd \in Repo!Changing \cup Repo!Showing
      /\ actor.old \in Repo!Values \cup {Repo!None} /\ actor.rid \in Repo!Places
      /\ actor.cmd.do \in {"set", "config", "unset"}
  BY <1>1, RepoActor DEF RepoTypes, RepoGoes
<1>3. place[actor.rid] \in Repo!Repository /\ place[actor.rid].config \in Repo!Values \cup {Repo!None}
  BY <1>1, <1>2, RepoField DEF RepoTypes, RepoServers
<1>10. /\ history.wrapped \in BOOLEAN /\ (UNCHANGED history => history' = [history EXCEPT !.wrapped = history.wrapped])
       /\ Repo!TakeError => history' = [history EXCEPT !.wrapped = TRUE]
  BY <1>1, RepoHistory
<1>4. CASE Repo!Exit("error") /\ UNCHANGED history
  BY <1>1, <1>4, <1>10, RepoError DEF Repo!Exit
<1>11. CASE Repo!Exit("traceback") /\ Repo!TakeError
  BY <1>1, <1>10, <1>11, RepoError DEF Repo!Exit
<1>5. CASE /\ actor.cmd.do = "set" /\ place[actor.rid][actor.cmd.on] = actor.cmd.value /\ Repo!Exit("ok")
           /\ UNCHANGED history
  <2>1. actor.cmd.on \in RepoFields
    BY <1>2, <1>5, RepoCommand DEF RepoFields
  <2>2. RepoNew(actor.cmd, place[actor.rid]) = RepoWith(place[actor.rid], actor.cmd.on, actor.cmd.value)
    BY <1>5 DEF RepoNew, RepoWith
  <2>3. RepoNew(actor.cmd, place[actor.rid]) = place[actor.rid]
    BY <1>3, <1>5, <2>1, <2>2, RepoPut
  <2>4. actor' = [actor EXCEPT !.pc = "done", !.exit = "ok"]
    BY <1>5 DEF Repo!Exit
  <2>5. /\ actor' \in RepoActors /\ actor'.pc = "done" /\ actor'.cmd = actor.cmd
        /\ actor'.name = actor.name /\ actor'.rid = actor.rid /\ actor'.old = actor.old
    BY <1>2, <2>4, RepoExits
  <2>6. RepoTypes' /\ RepoUntouched'
    BY <1>1, <1>5, <2>5 DEF RepoTypes, RepoGoes, RepoUntouched
  <2> QED
    BY <1>1, <1>5, <2>3, <2>5, <2>6, RepoEndsWell
<1>6. CASE actor.cmd.do = "set" /\ actor' = [actor EXCEPT !.pc = "request"] /\ (UNCHANGED history \/ Repo!TakeError)
  <2>1. actor' = [actor EXCEPT !.pc = "request", !.rid = actor.rid, !.old = actor.old]
    BY <1>2, <1>6, RepoActor
  <2> QED
    BY <1>1, <1>2, <1>6, <1>10, <2>1, RepoOn
<1>7. CASE actor.cmd.do # "set" /\ actor' = [actor EXCEPT !.pc = "option"] /\ (UNCHANGED history \/ Repo!TakeError)
  <2>1. actor' = [actor EXCEPT !.pc = "option", !.rid = actor.rid, !.old = actor.old]
    BY <1>2, <1>7, RepoActor
  <2> QED
    BY <1>1, <1>2, <1>7, <1>10, <2>1, RepoOn
<1>8. CASE actor' = [actor EXCEPT !.pc = "request", !.old = place[actor.rid].config] /\ UNCHANGED history
  <2>1. actor' = [actor EXCEPT !.pc = "request", !.rid = actor.rid, !.old = place[actor.rid].config]
    BY <1>2, <1>8, RepoActor
  <2> QED
    BY <1>1, <1>2, <1>3, <1>8, <1>10, <2>1, RepoOn
<1>9. \/ /\ UNCHANGED history
         /\ \/ Repo!Exit("error")
            \/ actor.cmd.do = "set" /\ place[actor.rid][actor.cmd.on] = actor.cmd.value /\ Repo!Exit("ok")
            \/ actor.cmd.do = "set" /\ actor' = [actor EXCEPT !.pc = "request"]
            \/ actor.cmd.do # "set" /\ actor' = [actor EXCEPT !.pc = "option"]
            \/ actor' = [actor EXCEPT !.pc = "request", !.old = place[actor.rid].config]
      \/ /\ Repo!TakeError
         /\ \/ actor' = [actor EXCEPT !.pc = IF actor.cmd.do = "set" THEN "request" ELSE "option"]
            \/ Repo!Exit("traceback")
  BY DEF Repo!Fetch, Repo!There
<1> QED
  BY <1>4, <1>5, <1>6, <1>7, <1>8, <1>9, <1>11

LEMMA RepoOption == ASSUME RepoInv, Repo!Option PROVE RepoInv'
<1>1. RepoTypes /\ RepoGoes /\ actor.pc = "option" /\ UNCHANGED place
  BY DEF RepoInv, Repo!Option
<1>2. actor.rid \in Repo!Places
  BY <1>1, RepoActor DEF RepoTypes
<1>3. place[actor.rid].config \in Repo!Values \cup {Repo!None}
  BY <1>1, <1>2, RepoField DEF RepoTypes, RepoServers
<1>6. /\ history.wrapped \in BOOLEAN /\ (UNCHANGED history => history' = [history EXCEPT !.wrapped = history.wrapped])
      /\ Repo!TakeError => history' = [history EXCEPT !.wrapped = TRUE]
  BY <1>1, RepoHistory
<1>4. CASE \/ Repo!Exit("error") /\ UNCHANGED history
           \/ Repo!Exit("traceback") /\ Repo!TakeError
  BY <1>1, <1>4, <1>6, RepoError DEF Repo!Exit
<1>5. ASSUME NEW old \in Repo!Values \cup {Repo!None}, actor' = [actor EXCEPT !.pc = "request", !.old = old],
             NEW wrapped \in BOOLEAN, history.wrapped => wrapped, old = place[actor.rid].config \/ wrapped,
             history' = [history EXCEPT !.wrapped = wrapped]
      PROVE  RepoInv'
  <2>1. actor' = [actor EXCEPT !.pc = "request", !.rid = actor.rid, !.old = old]
    BY <1>1, <1>5, RepoActor DEF RepoTypes
  <2> QED
    BY <1>1, <1>5, <2>1, RepoOn
<1>7. CASE actor' = [actor EXCEPT !.pc = "request", !.old = place[actor.rid].config] /\ UNCHANGED history
  BY <1>3, <1>5, <1>6, <1>7
<1>8. CASE actor' = [actor EXCEPT !.pc = "request", !.old = Repo!None] /\ Repo!TakeError
  BY <1>5, <1>6, <1>8
<1> QED
  BY <1>4, <1>7, <1>8 DEF Repo!Option, Repo!There

LEMMA RepoRequest == ASSUME RepoInv, Repo!Request PROVE RepoInv'
<1>1. RepoTypes /\ RepoGoes /\ actor.pc = "request" /\ actor.cmd.do # "show"
  BY DEF RepoInv, RepoGoes, Repo!Request
<1>2. /\ actor \in RepoActors /\ place \in RepoServers /\ history \in RepoHistories
      /\ actor.rid \in Repo!Places
  BY <1>1, RepoActor DEF RepoTypes
<1>3. /\ place[actor.rid] \in Repo!Repository /\ actor.cmd \in Repo!Changing
      /\ Repo!Changed = RepoNew(actor.cmd, place[actor.rid])
  BY <1>1, RepoChanged
<1>7. /\ history.wrapped \in BOOLEAN /\ (UNCHANGED history => history' = [history EXCEPT !.wrapped = history.wrapped])
      /\ Repo!TakeError => history' = [history EXCEPT !.wrapped = TRUE]
  BY <1>1, RepoHistory
<1>4. CASE \/ Repo!Exit("error") /\ UNCHANGED <<place, history>>
           \/ Repo!Exit("traceback") /\ Repo!TakeError /\ UNCHANGED place
  BY <1>1, <1>4, <1>7, RepoError DEF Repo!Exit
<1>5. CASE /\ place' = [place EXCEPT ![actor.rid] = Repo!Changed]
           /\ history' = history
           /\ \E how \in {"ok", "error", "traceback"} : Repo!Exit(how)
  <2> DEFINE new == RepoNew(actor.cmd, place[actor.rid])
  <2>1. PICK how \in {"ok", "error", "traceback"} : actor' = [actor EXCEPT !.pc = "done", !.exit = how]
    BY <1>5 DEF Repo!Exit
  <2>2. /\ actor' \in RepoActors /\ actor'.pc = "done" /\ actor'.cmd = actor.cmd
        /\ actor'.name = actor.name /\ actor'.rid = actor.rid /\ actor'.old = actor.old
    BY <1>2, <2>1, RepoExits
  <2>3. /\ new \in Repo!Repository /\ RepoNew(actor.cmd, new) = new
        /\ \A f \in RepoFields \ Repo!Asked(actor.cmd) : new[f] = place[actor.rid][f]
    BY <1>3, RepoMakes
  <2>4. place' = [place EXCEPT ![actor.rid] = new]
    BY <1>3, <1>5
  <2> HIDE DEF new
  <2>5. place' \in RepoServers /\ \A r \in Repo!Places : place'[r] = IF r = actor.rid THEN new ELSE place[r]
    BY <1>2, <2>3, <2>4 DEF RepoServers
  <2>6. RepoTypes'
    BY <1>1, <1>5, <2>2, <2>5 DEF RepoTypes
  <2>7. Repo!ChangesOnlyAsked'
    <3> SUFFICES ASSUME NEW r \in Repo!Places, NEW f \in DOMAIN place'[r],
                        place'[r][f] # history.before[r][f],
                        ~(r = actor.rid /\ f \in Repo!Asked(actor.cmd))
                 PROVE  <<r, f>> \in history.others
      BY <1>5, <2>2 DEF Repo!ChangesOnlyAsked, Repo!Asked
    <3>1. f \in RepoFields
      <4>1. place'[r] \in Repo!Repository
        BY <2>5 DEF RepoServers
      <4> QED
        BY <4>1, RepoField
    <3>2. place'[r][f] = place[r][f]
      BY <2>3, <2>5, <3>1
    <3> QED
      BY <1>1, <3>1, <3>2 DEF RepoGoes, RepoUntouched
  <2>8. RepoNew(actor.cmd, place'[actor.rid]) = place'[actor.rid]
    BY <1>2, <2>3, <2>5
  <2> QED
    BY <1>1, <1>5, <2>2, <2>6, <2>7, <2>8, RepoEndsWell DEF RepoGoes
<1>6. CASE actor.cmd.do = "pull" /\ Repo!Exit("ok") /\ Repo!TakeError /\ place' = place
  <2>1. actor' = [actor EXCEPT !.pc = "done", !.exit = "ok"]
    BY <1>6 DEF Repo!Exit
  <2>2. /\ actor' \in RepoActors /\ actor'.pc = "done" /\ actor'.cmd = actor.cmd
        /\ actor'.name = actor.name /\ actor'.rid = actor.rid /\ actor'.old = actor.old
    BY <1>2, <2>1, RepoExits
  <2>3. /\ history' \in RepoHistories /\ history'.before = history.before
        /\ history'.others = history.others /\ history'.wrapped
    BY <1>2, <1>6, <1>7 DEF RepoHistories
  <2>4. RepoTypes' /\ RepoUntouched'
    BY <1>1, <1>6, <2>2, <2>3 DEF RepoTypes, RepoGoes, RepoUntouched
  <2> QED
    BY <1>1, <1>6, <2>2, <2>3, <2>4, RepoEndsWell DEF RepoGoes
<1> QED
  BY <1>4, <1>5, <1>6 DEF Repo!Request

LEMMA RepoShow == ASSUME RepoInv, Repo!Show PROVE RepoInv'
<1>1. /\ RepoTypes /\ RepoGoes /\ RepoUntouched /\ RepoNamed /\ place' = place
      /\ actor.pc = "show" /\ actor.cmd.do = "show"
  BY DEF RepoInv, RepoGoes, Repo!Show
<1>2. actor \in RepoActors /\ history \in RepoHistories
  BY <1>1 DEF RepoTypes
<1>3. CASE Repo!Exit("error") /\ history' = history
  BY <1>1, <1>3, RepoError, RepoHistory DEF Repo!Exit
<1>4. ASSUME NEW answer \in {"data", "odd", "empty", "nothing", "bare"}, NEW wrapped \in BOOLEAN,
             Repo!Exit(Repo!Outcome(actor.cmd.on, answer, actor.cmd.format)),
             history' = [history EXCEPT !.answer = answer, !.wrapped = wrapped]
      PROVE  RepoInv'
  <2> DEFINE how == Repo!Outcome(actor.cmd.on, answer, actor.cmd.format)
  <2>1. /\ how \in {"ok", "error", "traceback"}
        /\ how = "ok" /\ answer = "bare" => actor.cmd.on \in {"tasks", "list"}
    BY DEF Repo!Outcome, Repo!Shows
  <2>2. actor' = [actor EXCEPT !.pc = "done", !.exit = how]
    BY <1>4 DEF Repo!Exit
  <2> HIDE DEF how
  <2>3. /\ actor' \in RepoActors /\ actor'.pc = "done" /\ actor'.cmd = actor.cmd
        /\ actor'.name = actor.name /\ actor'.rid = actor.rid /\ actor'.old = actor.old
        /\ actor'.exit = how
    BY <1>2, <2>1, <2>2, RepoExits
  <2>4. /\ history' \in RepoHistories /\ history'.before = history.before
        /\ history'.others = history.others /\ history'.answer = answer
    BY <1>2, <1>4 DEF RepoHistories
  <2>5. RepoTypes' /\ RepoUntouched'
    BY <1>1, <2>3, <2>4 DEF RepoTypes, RepoUntouched
  <2>6. Repo!ChangesOnlyAsked'
    BY <2>5, RepoKept, PTL
  <2>7. Repo!TheOneNamed'
    BY <1>1, <2>3, <2>4 DEF Repo!TheOneNamed, RepoNamed, Repo!ByUrl, Repo!OthersDid
  <2>8. Repo!SuccessIsTrue'
    BY <1>1, <2>1, <2>3, <2>4 DEF Repo!SuccessIsTrue, Repo!Ok
  <2> QED
    BY <2>3, <2>5, <2>6, <2>7, <2>8 DEF RepoInv, Repo!RepositoryAsReported
<1> QED
  BY <1>3, <1>4 DEF Repo!Show

LEMMA RepoMeanwhile == ASSUME RepoInv, Repo!Others PROVE RepoInv'
<1>1. /\ RepoTypes /\ RepoGoes /\ RepoUntouched /\ actor' = actor
      /\ actor.pc \notin {"show", "done"} /\ history.others = {}
  BY DEF RepoInv, RepoGoes, Repo!Others
<1>2. PICK r \in Rids, field \in {"exists", "url", "role", "config"} :
          /\ \/ field = "exists" /\ place' = [place EXCEPT ![r].exists = FALSE]
             \/ /\ field # "exists"
                /\ \E v \in Repo!Values \ {place[r][field]} : place' = [place EXCEPT ![r][field] = v]
          /\ history' = [history EXCEPT !.others = {<<r, field>>}]
  BY DEF Repo!Others
<1>3. r \in Repo!Places /\ field \in RepoFields /\ place \in RepoServers /\ history \in RepoHistories
      /\ place[r] \in Repo!Repository
  BY <1>1 DEF Repo!Places, RepoFields, RepoTypes, RepoServers
<1>4. \E new \in Repo!Repository :
          /\ place' = [place EXCEPT ![r] = new]
          /\ \A f \in RepoFields \ {field} : new[f] = place[r][f]
  <2>1. CASE field = "exists" /\ place' = [place EXCEPT ![r].exists = FALSE]
    <3> DEFINE new == [place[r] EXCEPT !.exists = FALSE]
    <3>1. new \in Repo!Repository
      BY <1>3, RepoOthers
    <3>2. \A f \in RepoFields \ {field} : new[f] = place[r][f]
      BY <1>3, <2>1, RepoField
    <3>3. place' = [place EXCEPT ![r] = new]
      BY <2>1
    <3> QED
      BY <3>1, <3>2, <3>3
  <2>2. CASE field # "exists" /\ \E v \in Repo!Values \ {place[r][field]} : place' = [place EXCEPT ![r][field] = v]
    <3>1. PICK v \in Repo!Values : place' = [place EXCEPT ![r][field] = v]
      BY <2>2
    <3> DEFINE new == RepoWith(place[r], field, v)
    <3>2. new \in Repo!Repository
      BY <1>3, <2>2, RepoValue DEF RepoWith
    <3>3. \A f \in RepoFields \ {field} : new[f] = place[r][f]
      BY <1>3, RepoPut
    <3>4. place' = [place EXCEPT ![r] = new]
      BY <3>1 DEF RepoWith
    <3> QED
      BY <3>2, <3>3, <3>4
  <2> QED
    BY <1>2, <2>1, <2>2
<1>5. PICK new \in Repo!Repository : /\ place' = [place EXCEPT ![r] = new]
                                     /\ \A f \in RepoFields \ {field} : new[f] = place[r][f]
  BY <1>4
<1>6. place' \in RepoServers /\ \A q \in Repo!Places : place'[q] = IF q = r THEN new ELSE place[q]
  BY <1>3, <1>5 DEF RepoServers
<1>7. /\ history' \in RepoHistories /\ history'.before = history.before
      /\ history'.others = {<<r, field>>} /\ history'.wrapped = history.wrapped
  BY <1>2, <1>3 DEF RepoHistories
<1>8. RepoTypes'
  BY <1>1, <1>6, <1>7 DEF RepoTypes
<1>9. RepoUntouched'
  BY <1>1, <1>5, <1>6, <1>7 DEF RepoUntouched
<1>10. \A q, f : ~Repo!OthersDid(q, f)
  BY <1>1 DEF Repo!OthersDid
<1>11. actor'.pc # "resolve" => RepoNamed'
  BY <1>1, <1>7, <1>10 DEF RepoGoes, RepoNamed, Repo!ByUrl
<1>12. actor'.pc = "request" => RepoOld'
  BY <1>1, <1>7, <1>10 DEF RepoGoes, RepoOld
<1>13. RepoGoes'
  BY <1>1, <1>9, <1>11, <1>12 DEF RepoGoes
<1> QED
  BY <1>8, <1>13, RepoOpened

LEMMA RepoInit == Repo!Init => RepoInv
<1> SUFFICES ASSUME Repo!Init PROVE RepoInv
  OBVIOUS
<1>1. PICK url \in [Rids -> Repo!Values], role \in Repo!Values, config \in Repo!Values \cup {Repo!None} :
          place = [r \in Repo!Places |-> [exists |-> TRUE, url |-> IF r \in Rids THEN url[r] ELSE "a",
                                          role |-> role, config |-> config, branches |-> {"a"},
                                          active |-> "a", commit |-> "old"]]
  BY DEF Repo!Init
<1>2. place \in RepoServers /\ \A r \in Repo!Places : place[r].exists
  BY <1>1 DEF RepoServers, Repo!Repository, Repo!Values
<1>3. /\ actor \in RepoActors /\ actor.pc = "resolve" /\ actor.exit = "none"
  BY DEF Repo!Init, RepoActors, Repo!Places, Repo!None
<1>4. history = [before |-> place, others |-> {}, answer |-> "none", wrapped |-> FALSE]
  BY DEF Repo!Init
<1>5. RepoTypes
  BY <1>2, <1>3, <1>4 DEF RepoTypes, RepoHistories, Repo!Places
<1>6. RepoGoes
  BY <1>3, <1>4 DEF RepoGoes, RepoUntouched
<1> QED
  BY <1>5, <1>6, RepoOpen DEF RepoInv

RepoPart == part = "repo" => RepoInv

LEMMA RepoAlways == CommandsSpec => []RepoPart
<1>1. CommandsInit => RepoPart
  BY PartInit, RepoInit DEF RepoPart
<1>2. ASSUME RepoPart, [CommandsNext]_all PROVE RepoPart'
  <2>1. CASE part = "repo" /\ UNCHANGED small
    BY <1>2, <2>1, PartStep
    DEF small, RepoPart, RepoInv, RepoTypes, RepoGoes, RepoUntouched, RepoNamed, RepoOld,
        Repo!ByUrl, Repo!OthersDid, Repo!RepositoryAsReported, Repo!TheOneNamed,
        Repo!SuccessIsTrue, Repo!ChangesOnlyAsked, Repo!Ok, Repo!Changed, Repo!There, Repo!Asked
  <2>2. CASE part = "repo" /\ Repo!Next
    BY <1>2, <2>2, PartStep, RepoResolve, RepoFetch, RepoOption, RepoRequest, RepoShow, RepoMeanwhile
    DEF RepoPart, Repo!Next
  <2> QED
    BY <1>2, <2>1, <2>2, PartStep DEF RepoPart
<1> QED
  BY <1>1, <1>2, PTL DEF CommandsSpec

\* For every set of repositories: a gcts command works on the one repository that the
\* user named, by its name or by a URL that no other has; what it reports as done is done
\* (but for a pull whose error came with a result), the old value of an option is the one
\* it had unless such an error was taken for it, and nothing else is ever changed.
THEOREM RepositoriesAreReported == CommandsSpec => []RepositoryAsReported
<1>1. RepoPart => RepositoryAsReported
  BY DEF RepoPart, RepoInv, RepositoryAsReported
<1> QED
  BY <1>1, RepoAlways, PTL

-----------------------------------------------------------------------------
(***************************************************************************)
(* AtcReport: which findings the command has, in every state of its work.  *)
(***************************************************************************)
AtcActors == [args: Atc!Args, pc: {"variant", "worklist", "run", "fetch", "report", "done"},
              left: SUBSET CheckedNames, name: CheckedNames, runner: SUBSET CheckedNames,
              results: Atc!Findings, exit: {"none", "0", "1"}, failed: BOOLEAN]
AtcServers == [findings: Atc!Findings, checked: SUBSET CheckedNames]
AtcTypes == actor \in AtcActors /\ place \in AtcServers /\ history \in [cut: Atc!Findings]

\* The name whose worklist is not read yet.
Open == IF actor.pc \in {"run", "fetch"} THEN {actor.name} ELSE {}
Unchecked == actor.left \cup (IF actor.pc = "run" THEN {actor.name} ELSE {})

\* Where the command is.
AtcPlace ==
    /\ actor.pc = "fetch" => actor.runner = {actor.name}
    /\ actor.pc = "run" => actor.runner = {}
    /\ actor.pc = "run" => actor.name \notin actor.left
    /\ actor.failed => actor.pc = "done"
    /\ actor.pc \in {"report", "done"} => actor.failed \/ actor.left = {}

\* Of every name with a worklist that was read the findings are in the results
\* or were cut off, and nothing else is in the results.
AtcFound ==
    ~actor.failed =>
        /\ actor.results \subseteq place.findings
        /\ \A f \in place.findings :
              f[1] \notin actor.left \cup Open => f \in actor.results \cup history.cut
        /\ place.checked = CheckedNames \ Unchecked

AtcEnd ==
    actor.pc = "done" /\ ~actor.failed =>
        actor.exit = IF \E f \in actor.results : Atc!Fails(f[2]) THEN "1" ELSE "0"

AtcInv == AtcTypes /\ AtcPlace /\ AtcFound /\ AtcEnd

LEMMA AtcInitInv == ASSUME Atc!Init PROVE AtcInv
BY ChecksAssumption DEF Atc!Init, AtcInv, AtcTypes, AtcActors, AtcServers, AtcPlace, AtcFound, AtcEnd, Open, Unchecked, Atc!Args, Atc!Findings

LEMMA AtcAbort ==
    ASSUME AtcInv, Atc!Abort, history' = history, place' \in AtcServers
    PROVE  AtcInv'
BY DEF Atc!Abort, AtcInv, AtcTypes, AtcActors, AtcPlace, AtcFound, AtcEnd

LEMMA AtcCustomizing == ASSUME AtcInv, Atc!Customizing PROVE AtcInv'
<1>1. CASE Atc!Abort
  BY <1>1, AtcAbort DEF Atc!Customizing, AtcInv, AtcTypes
<1>2. CASE Atc!Goto("worklist")
  BY <1>2 DEF Atc!Customizing, Atc!Goto, AtcInv, AtcTypes, AtcActors, AtcPlace, AtcFound, AtcEnd, Open, Unchecked
<1> QED
  BY <1>1, <1>2 DEF Atc!Customizing

LEMMA AtcWorklist == ASSUME AtcInv, Atc!Worklist PROVE AtcInv'
<1>1. CASE Atc!Abort
  BY <1>1, AtcAbort DEF Atc!Worklist, AtcInv, AtcTypes
<1>2. CASE ~Atc!Abort
  <2>1. PICK name \in actor.left :
           actor' = [actor EXCEPT !.name = name, !.left = @ \ {name}, !.runner = {}, !.pc = "run"]
    BY <1>2 DEF Atc!Worklist
  <2>2. /\ actor'.name = name /\ actor'.left = actor.left \ {name} /\ actor'.runner = {}
        /\ actor'.pc = "run" /\ actor'.results = actor.results /\ actor'.failed = actor.failed
        /\ actor' \in AtcActors
    BY <2>1 DEF AtcInv, AtcTypes, AtcActors
  <2>3. actor'.left \cup Open' = actor.left /\ Unchecked' = actor.left
    BY <2>1, <2>2 DEF Open, Unchecked
  <2>4. Open = {} /\ Unchecked = actor.left /\ actor.pc = "worklist"
    BY DEF Atc!Worklist, Open, Unchecked
  <2>5. place' = place /\ history' = history
    BY DEF Atc!Worklist
  <2> QED
    BY <2>2, <2>3, <2>4, <2>5 DEF AtcInv, AtcTypes, AtcPlace, AtcFound, AtcEnd
<1> QED
  BY <1>1, <1>2

LEMMA AtcRunStep == ASSUME AtcInv, Atc!Run PROVE AtcInv'
<1>0. place' = [place EXCEPT !.checked = @ \cup {actor.name}] /\ history' = history /\ actor.pc = "run"
  BY DEF Atc!Run
<1>1. place' \in AtcServers /\ place'.findings = place.findings
      /\ place'.checked = place.checked \cup {actor.name}
  BY <1>0 DEF AtcInv, AtcTypes, AtcActors, AtcServers
<1>2. CASE Atc!Abort
  BY <1>0, <1>1, <1>2, AtcAbort
<1>3. CASE ~Atc!Abort
  <2>1. actor' = [actor EXCEPT !.runner = @ \cup {actor.name}, !.pc = "fetch"]
    BY <1>3 DEF Atc!Run
  <2>2. /\ actor'.name = actor.name /\ actor'.left = actor.left /\ actor'.runner = {actor.name}
        /\ actor'.pc = "fetch" /\ actor'.results = actor.results /\ actor'.failed = actor.failed
        /\ actor' \in AtcActors
    BY <1>0, <2>1 DEF AtcInv, AtcTypes, AtcActors, AtcPlace
  <2>3. Open' = {actor.name} /\ Open = {actor.name} /\ Unchecked' = actor.left
        /\ Unchecked = actor.left \cup {actor.name} /\ actor.name \in CheckedNames /\ actor.name \notin actor.left
    BY <1>0, <2>2 DEF Open, Unchecked, AtcInv, AtcTypes, AtcActors, AtcPlace
  <2> QED
    BY <1>0, <1>1, <2>2, <2>3 DEF AtcInv, AtcTypes, AtcPlace, AtcFound, AtcEnd
<1> QED
  BY <1>2, <1>3

LEMMA AtcFetch == ASSUME AtcInv, Atc!Fetch PROVE AtcInv'
<1> DEFINE found == {f \in place.findings : f[1] \in actor.runner}
<1>0. place' = place /\ actor.pc = "fetch"
  BY DEF Atc!Fetch
<1>1. CASE Atc!Abort /\ history' = history
  BY <1>0, <1>1, AtcAbort DEF AtcInv, AtcTypes
<1>2. CASE ~(Atc!Abort /\ history' = history)
  <2>1. PICK shown \in SUBSET found :
           /\ actor' = [actor EXCEPT
                 !.results = @ \cup {<<f[1], Atc!Increased(Atc!Sent(f[2]))>> : f \in shown},
                 !.pc = IF actor.left = {} THEN "report" ELSE "worklist"]
           /\ history' = [cut |-> history.cut \cup (found \ shown)]
    BY <1>2 DEF Atc!Fetch
  <2>2. ASSUME NEW f \in place.findings PROVE <<f[1], Atc!Increased(Atc!Sent(f[2]))>> = f
    BY DEF Atc!Increased, Atc!Sent, AtcInv, AtcTypes, AtcServers, Atc!Findings, Atc!Priorities
  <2>3. {<<f[1], Atc!Increased(Atc!Sent(f[2]))>> : f \in shown} = shown
    BY <2>2
  <2>4. /\ actor'.name = actor.name /\ actor'.left = actor.left
        /\ actor'.pc \in {"report", "worklist"} /\ actor'.results = actor.results \cup shown
        /\ actor'.failed = actor.failed /\ actor' \in AtcActors
        /\ actor'.pc = "report" => actor.left = {}
    BY <2>1, <2>3 DEF AtcInv, AtcTypes, AtcActors, AtcServers, Atc!Findings
  <2>5. history' \in [cut: Atc!Findings] /\ history'.cut = history.cut \cup (found \ shown)
    BY <2>1 DEF AtcInv, AtcTypes, AtcServers, Atc!Findings
  <2>6. Open' = {} /\ Open = {actor.name} /\ Unchecked' = actor.left /\ Unchecked = actor.left
        /\ actor.runner = {actor.name}
    BY <1>0, <2>4 DEF Open, Unchecked, AtcInv, AtcPlace
  <2>7. actor'.failed \/ AtcFound'
    BY <1>0, <2>4, <2>5, <2>6 DEF AtcInv, AtcFound
  <2> QED
    BY <1>0, <2>4, <2>5, <2>6, <2>7 DEF AtcInv, AtcTypes, AtcPlace, AtcFound, AtcEnd
<1> QED
  BY <1>1, <1>2

LEMMA AtcReported == ASSUME AtcInv, Atc!Report PROVE AtcInv'
<1>1. place' = place /\ history' = history /\ actor.pc = "report"
  BY DEF Atc!Report
<1> DEFINE code == IF \E f \in actor.results : Atc!Fails(f[2]) THEN "1" ELSE "0"
<1>2. actor' = [actor EXCEPT !.pc = "done", !.exit = code]
  BY DEF Atc!Report
<1>3. code \in {"0", "1"}
  OBVIOUS
<1> HIDE DEF code
<1>4. /\ actor'.pc = "done" /\ actor'.exit = code /\ actor'.results = actor.results
      /\ actor'.left = actor.left /\ actor'.failed = actor.failed /\ actor'.name = actor.name
      /\ actor'.args = actor.args /\ actor' \in AtcActors
  BY <1>2, <1>3 DEF AtcInv, AtcTypes, AtcActors
<1>5. AtcTypes' /\ AtcPlace'
  BY <1>1, <1>4 DEF AtcInv, AtcTypes, AtcPlace
<1>6. AtcFound'
  BY <1>1, <1>4 DEF AtcInv, AtcFound, Open, Unchecked
<1>7. AtcEnd'
  BY <1>4 DEF AtcEnd, code, Atc!Fails, Atc!Reported
<1> QED
  BY <1>5, <1>6, <1>7 DEF AtcInv

LEMMA AtcTells == ASSUME AtcInv PROVE Atc!ExitTellsTheFindings
BY DEF Atc!ExitTellsTheFindings, AtcInv, AtcTypes, AtcActors, AtcServers, AtcPlace, AtcFound, AtcEnd, Open, Unchecked

AtcPart == part = "atc" => AtcInv

LEMMA AtcAlways == CommandsSpec => []AtcPart
<1>1. CommandsInit => AtcPart
  BY PartInit, AtcInitInv DEF AtcPart
<1>2. ASSUME AtcPart, [CommandsNext]_all PROVE AtcPart'
  <2>1. CASE part = "atc" /\ UNCHANGED small
    <3>1. AtcInv /\ actor' = actor /\ place' = place /\ history' = history
      BY <1>2, <2>1 DEF small, AtcPart
    <3>2. AtcTypes' /\ AtcPlace'
      BY <3>1 DEF AtcInv, AtcTypes, AtcPlace
    <3>3. AtcFound'
      BY <3>1 DEF AtcInv, AtcFound, Open, Unchecked
    <3>4. AtcEnd'
      BY <3>1 DEF AtcInv, AtcEnd, Atc!Fails, Atc!Reported
    <3> QED
      BY <3>2, <3>3, <3>4 DEF AtcPart, AtcInv
  <2>2. CASE part = "atc" /\ Atc!Next
    BY <1>2, <2>2, PartStep, AtcCustomizing, AtcWorklist, AtcRunStep, AtcFetch, AtcReported
    DEF AtcPart, Atc!Next
  <2> QED
    BY <1>2, <2>1, <2>2, PartStep DEF AtcPart
<1> QED
  BY <1>1, <1>2, PTL DEF CommandsSpec

-----------------------------------------------------------------------------
(***************************************************************************)
(* AunitReport: what a total of counts is, that the nodes which the parser *)
(* keeps weigh what the answer says, and that no printer counts more than  *)
(* that weight or overlooks a failed test.                                 *)
(***************************************************************************)
\* What the fold over counts does, and over the alerts of a node.
LEMMA TotalFold ==
    ASSUME NEW n \in Nat, NEW w \in [1 .. n -> Nat]
    PROVE  \E h \in [0 .. n -> Nat] :
              /\ h[0] = 0
              /\ \A i \in 0 .. n - 1 : h[i + 1] = h[i] + w[i + 1]
              /\ Aunit!Total(w) = h[n]
<1> DEFINE Folds(g) == g = [s \in SUBSET (1 .. n) |-> IF s = {} THEN 0 ELSE g[s \ {Top(s)}] + w[Top(s)]]
           step == [a \in Nat |-> [i \in 1 .. n |-> a + w[i]]]
           iter == CHOOSE g : Folds(g)
<1>1. PICK g : Folded(Nat, 0, n, step, g)
  <2>1. step \in [Nat -> [1 .. n -> Nat]]
    OBVIOUS
  <2> HIDE DEF step
  <2> QED
    BY <2>1, FoldExists
<1>2. Folds(g)
  <2>1. ASSUME NEW s \in SUBSET (1 .. n), s # {}
        PROVE  g[s] = g[s \ {Top(s)}] + w[Top(s)]
    <3>1. Top(s) \in 1 .. n /\ s \ {Top(s)} \in SUBSET (1 .. n)
      BY <2>1, TopIn
    <3> QED
      BY <1>1, <2>1, <3>1 DEF Folded
  <2>2. g[{}] = 0
    BY <1>1 DEF Folded
  <2>3. g = [s \in SUBSET (1 .. n) |-> g[s]]
    BY <1>1 DEF Folded
  <2> QED
    BY <2>1, <2>2, <2>3
<1>3. Folds(iter)
  <2> HIDE DEF Folds
  <2> QED
    BY <1>2
<1>4. Aunit!Total(w) = iter[1 .. n]
  <2>1. DOMAIN w = 1 .. n
    OBVIOUS
  <2> QED
    BY <2>1 DEF Aunit!Total, Aunit!MapThenFoldSet, Aunit!Latest, Top
<1> DEFINE h == [i \in 0 .. n |-> iter[1 .. i]]
<1> HIDE DEF iter
<1>5. h[0] = 0
  BY <1>3, 1 .. 0 = {}
<1>6. ASSUME NEW i \in 0 .. n - 1 PROVE h[i + 1] = h[i] + w[i + 1]
  <2>1. /\ 1 .. i + 1 \in SUBSET (1 .. n) /\ 1 .. i + 1 # {}
        /\ Top(1 .. i + 1) = i + 1 /\ (1 .. i + 1) \ {i + 1} = 1 .. i
    BY FoldPositions
  <2>2. iter[1 .. i + 1] = iter[1 .. i] + w[i + 1]
    BY <1>3, <2>1
  <2>3. h[i + 1] = iter[1 .. i + 1] /\ h[i] = iter[1 .. i]
    OBVIOUS
  <2> QED
    BY <2>2, <2>3
<1>7. h[n] = iter[1 .. n]
  OBVIOUS
<1>8. h \in [0 .. n -> Nat]
  <2> DEFINE T == {i \in Nat : i <= n => h[i] \in Nat}
  <2>1. 0 \in T
    BY <1>5
  <2>2. ASSUME NEW i \in T PROVE i + 1 \in T
    <3> SUFFICES ASSUME i + 1 <= n PROVE h[i + 1] \in Nat
      OBVIOUS
    <3>1. i \in 0 .. n - 1 /\ h[i] \in Nat /\ w[i + 1] \in Nat
      OBVIOUS
    <3>2. h[i + 1] = h[i] + w[i + 1]
      BY <1>6, <3>1
    <3> HIDE DEF h
    <3> QED
      BY <3>1, <3>2
  <2>3. T = Nat
    <3>1. T \in SUBSET Nat
      OBVIOUS
    <3> HIDE DEF T
    <3> QED
      BY <2>1, <2>2, <3>1, Induction
  <2>4. ASSUME NEW i \in 0 .. n PROVE h[i] \in Nat
    <3>1. i \in Nat /\ i <= n
      OBVIOUS
    <3>2. i \in T
      BY <2>3, <3>1
    <3>3. i <= n => h[i] \in Nat
      BY <3>2
    <3> HIDE DEF h
    <3> QED
      BY <3>1, <3>3
  <2>5. h = [i \in 0 .. n |-> h[i]]
    OBVIOUS
  <2> HIDE DEF h
  <2> QED
    BY <2>4, <2>5
<1> HIDE DEF h
<1> QED
  BY <1>4, <1>5, <1>6, <1>7, <1>8

\* A total is at least each count, at most what larger counts give, and it grows by
\* what is added to one count, or by a count at the end.
LEMMA TotalIs ==
    ASSUME NEW n \in Nat, NEW w \in [1 .. n -> Nat]
    PROVE  Aunit!Total(w) \in Nat /\ \A i \in 1 .. n : w[i] <= Aunit!Total(w)
<1>1. PICK h \in [0 .. n -> Nat] : /\ h[0] = 0
                                   /\ \A i \in 0 .. n - 1 : h[i + 1] = h[i] + w[i + 1]
                                   /\ Aunit!Total(w) = h[n]
  BY TotalFold
<1> DEFINE T == {k \in Nat : k <= n => \A i \in 1 .. k : w[i] <= h[k]}
<1>2. 0 \in T
  OBVIOUS
<1>3. ASSUME NEW k \in T PROVE k + 1 \in T
  <2> SUFFICES ASSUME k + 1 <= n, NEW i \in 1 .. k + 1 PROVE w[i] <= h[k + 1]
    OBVIOUS
  <2>1. h[k + 1] = h[k] + w[k + 1] /\ h[k] \in Nat /\ w[k + 1] \in Nat /\ w[i] \in Nat
    BY <1>1
  <2>2. i \in 1 .. k => w[i] <= h[k]
    OBVIOUS
  <2> QED
    BY <2>1, <2>2
<1>4. n \in T
  <2>1. T \in SUBSET Nat
    OBVIOUS
  <2> HIDE DEF T
  <2> QED
    BY <1>2, <1>3, <2>1, Induction
<1>6. \A i \in 1 .. n : w[i] <= h[n]
  <2>1. n <= n
    OBVIOUS
  <2> QED
    BY <1>4, <2>1
<1>7. h[n] \in Nat
  OBVIOUS
<1>8. Aunit!Total(w) = h[n]
  BY <1>1
<1>9. Aunit!Total(w) \in Nat
  BY <1>7, <1>8
<1>10. \A i \in 1 .. n : w[i] <= Aunit!Total(w)
  BY <1>6, <1>8
<1> QED
  BY <1>9, <1>10

LEMMA TotalGrows ==
    ASSUME NEW n \in Nat, NEW w \in [1 .. n -> Nat], NEW i \in 1 .. n, NEW d \in Nat,
           NEW v \in [1 .. n -> Nat], \A k \in 1 .. n : v[k] = IF k = i THEN w[k] + d ELSE w[k]
    PROVE  Aunit!Total(v) = Aunit!Total(w) + d
<1>1. PICK h \in [0 .. n -> Nat] : /\ h[0] = 0
                                   /\ \A k \in 0 .. n - 1 : h[k + 1] = h[k] + w[k + 1]
                                   /\ Aunit!Total(w) = h[n]
  BY TotalFold
<1>2. PICK g \in [0 .. n -> Nat] : /\ g[0] = 0
                                   /\ \A k \in 0 .. n - 1 : g[k + 1] = g[k] + v[k + 1]
                                   /\ Aunit!Total(v) = g[n]
  BY TotalFold
<1> DEFINE T == {k \in Nat : k <= n => g[k] = IF k < i THEN h[k] ELSE h[k] + d}
<1>3. 0 \in T
  BY <1>1, <1>2
<1>4. ASSUME NEW k \in T PROVE k + 1 \in T
  <2> SUFFICES ASSUME k + 1 <= n PROVE g[k + 1] = IF k + 1 < i THEN h[k + 1] ELSE h[k + 1] + d
    OBVIOUS
  <2>1. h[k + 1] = h[k] + w[k + 1] /\ h[k] \in Nat /\ w[k + 1] \in Nat
    BY <1>1
  <2>2. g[k + 1] = g[k] + v[k + 1] /\ v[k + 1] = IF k + 1 = i THEN w[k + 1] + d ELSE w[k + 1]
    BY <1>2
  <2>3. g[k] = IF k < i THEN h[k] ELSE h[k] + d
    OBVIOUS
  <2>4. i \in Nat /\ k \in Nat /\ (k < i <=> k + 1 < i \/ k + 1 = i)
    OBVIOUS
  <2>5. CASE k + 1 < i
    BY <2>1, <2>2, <2>3, <2>4, <2>5
  <2>6. CASE k + 1 = i
    BY <2>1, <2>2, <2>3, <2>4, <2>6
  <2>7. CASE ~(k < i)
    <3>1. k + 1 # i /\ ~(k + 1 < i)
      BY <2>4, <2>7
    <3>2. g[k + 1] = (h[k] + d) + w[k + 1]
      BY <2>2, <2>3, <2>7, <3>1
    <3> HIDE DEF T
    <3>3. g[k + 1] = h[k + 1] + d
      BY <2>1, <3>2
    <3> QED
      BY <3>1, <3>3
  <2> QED
    BY <2>4, <2>5, <2>6, <2>7
<1>5. n \in T
  <2>1. T \in SUBSET Nat
    OBVIOUS
  <2> HIDE DEF T
  <2> QED
    BY <1>3, <1>4, <2>1, Induction
<1> QED
  BY <1>1, <1>2, <1>5

LEMMA TotalAppends ==
    ASSUME NEW n \in Nat, NEW w \in [1 .. n -> Nat],
           NEW v \in [1 .. n + 1 -> Nat], \A k \in 1 .. n : v[k] = w[k]
    PROVE  Aunit!Total(v) = Aunit!Total(w) + v[n + 1]
<1>1. PICK h \in [0 .. n -> Nat] : /\ h[0] = 0
                                   /\ \A k \in 0 .. n - 1 : h[k + 1] = h[k] + w[k + 1]
                                   /\ Aunit!Total(w) = h[n]
  BY TotalFold
<1>2. PICK g \in [0 .. n + 1 -> Nat] : /\ g[0] = 0
                                       /\ \A k \in 0 .. n : g[k + 1] = g[k] + v[k + 1]
                                       /\ Aunit!Total(v) = g[n + 1]
  <2>1. n + 1 \in Nat
    OBVIOUS
  <2>2. PICK g \in [0 .. n + 1 -> Nat] : /\ g[0] = 0
                                         /\ \A k \in 0 .. (n + 1) - 1 : g[k + 1] = g[k] + v[k + 1]
                                         /\ Aunit!Total(v) = g[n + 1]
    BY <2>1, TotalFold
  <2>3. \A k \in 0 .. n : k \in 0 .. (n + 1) - 1
    OBVIOUS
  <2> QED
    BY <2>2, <2>3
<1> DEFINE T == {k \in Nat : k <= n => g[k] = h[k]}
<1>3. 0 \in T
  BY <1>1, <1>2
<1>4. ASSUME NEW k \in T PROVE k + 1 \in T
  BY <1>1, <1>2
<1>5. n \in T
  <2>1. T \in SUBSET Nat
    OBVIOUS
  <2> HIDE DEF T
  <2> QED
    BY <1>3, <1>4, <2>1, Induction
<1>6. g[n] = h[n]
  <2>1. n <= n
    OBVIOUS
  <2> QED
    BY <1>5, <2>1
<1> QED
  BY <1>1, <1>2, <1>6

LEMMA TotalAtMost ==
    ASSUME NEW n \in Nat, NEW w \in [1 .. n -> Nat],
           NEW v \in [1 .. n -> Nat], \A k \in 1 .. n : v[k] <= w[k]
    PROVE  Aunit!Total(v) <= Aunit!Total(w)
<1>1. PICK h \in [0 .. n -> Nat] : /\ h[0] = 0
                                   /\ \A k \in 0 .. n - 1 : h[k + 1] = h[k] + w[k + 1]
                                   /\ Aunit!Total(w) = h[n]
  BY TotalFold
<1>2. PICK g \in [0 .. n -> Nat] : /\ g[0] = 0
                                   /\ \A k \in 0 .. n - 1 : g[k + 1] = g[k] + v[k + 1]
                                   /\ Aunit!Total(v) = g[n]
  BY TotalFold
<1> DEFINE T == {k \in Nat : k <= n => g[k] <= h[k]}
<1>3. 0 \in T
  BY <1>1, <1>2
<1>4. ASSUME NEW k \in T PROVE k + 1 \in T
  <2> SUFFICES ASSUME k + 1 <= n PROVE g[k + 1] <= h[k + 1]
    OBVIOUS
  <2>1. h[k + 1] = h[k] + w[k + 1] /\ h[k] \in Nat /\ w[k + 1] \in Nat
    BY <1>1
  <2>2. g[k + 1] = g[k] + v[k + 1] /\ g[k] \in Nat /\ v[k + 1] \in Nat /\ v[k + 1] <= w[k + 1]
    BY <1>2
  <2>3. g[k] <= h[k]
    OBVIOUS
  <2> QED
    BY <2>1, <2>2, <2>3
<1>5. n \in T
  <2>1. T \in SUBSET Nat
    OBVIOUS
  <2> HIDE DEF T
  <2> QED
    BY <1>3, <1>4, <2>1, Induction
<1>6. g[n] <= h[n]
  <2>1. n <= n
    OBVIOUS
  <2> QED
    BY <1>5, <2>1
<1> QED
  BY <1>1, <1>2, <1>6

\* Where nothing is counted the total is zero.
LEMMA TotalOfNothing ==
    ASSUME NEW n \in Nat, NEW w \in [1 .. n -> Nat], \A k \in 1 .. n : w[k] = 0
    PROVE  Aunit!Total(w) = 0
<1>1. PICK h \in [0 .. n -> Nat] : /\ h[0] = 0
                                   /\ \A k \in 0 .. n - 1 : h[k + 1] = h[k] + w[k + 1]
                                   /\ Aunit!Total(w) = h[n]
  BY TotalFold
<1> DEFINE T == {k \in Nat : k <= n => h[k] = 0}
<1>3. 0 \in T
  BY <1>1
<1>4. ASSUME NEW k \in T PROVE k + 1 \in T
  BY <1>1
<1>5. n \in T
  <2>1. T \in SUBSET Nat
    OBVIOUS
  <2> HIDE DEF T
  <2> QED
    BY <1>3, <1>4, <2>1, Induction
<1>6. h[n] = 0
  <2>1. n <= n
    OBVIOUS
  <2> QED
    BY <1>5, <2>1
<1> QED
  BY <1>1, <1>6

-----------------------------------------------------------------------------
AunitAlerts == Seq({"error", "warning"})

LEMMA HumanFold ==
    ASSUME NEW alerts \in AunitAlerts
    PROVE  \E h \in [0 .. Len(alerts) -> Nat] :
              /\ h[0] = 0
              /\ \A i \in 0 .. Len(alerts) - 1 : h[i + 1] = IF alerts[i + 1] = "error" THEN h[i] + 1 ELSE 0
              /\ Aunit!HumanAlerts(alerts) = h[Len(alerts)]
<1> DEFINE n == Len(alerts)
           Folds(g) == g = [s \in SUBSET (1 .. n) |-> IF s = {} THEN 0
                               ELSE IF alerts[Top(s)] = "error" THEN g[s \ {Top(s)}] + 1 ELSE 0]
           step == [a \in Nat |-> [i \in 1 .. n |-> IF alerts[i] = "error" THEN a + 1 ELSE 0]]
           iter == CHOOSE g : Folds(g)
<1>0. n \in Nat /\ DOMAIN alerts = 1 .. n
  BY DEF AunitAlerts
<1> HIDE DEF n
<1>1. PICK g : Folded(Nat, 0, n, step, g)
  <2>1. step \in [Nat -> [1 .. n -> Nat]]
    OBVIOUS
  <2> HIDE DEF step
  <2> QED
    BY <1>0, <2>1, FoldExists
<1>2. Folds(g)
  <2>1. ASSUME NEW s \in SUBSET (1 .. n), s # {}
        PROVE  g[s] = IF alerts[Top(s)] = "error" THEN g[s \ {Top(s)}] + 1 ELSE 0
    <3>1. Top(s) \in 1 .. n /\ s \ {Top(s)} \in SUBSET (1 .. n)
      BY <1>0, <2>1, TopIn
    <3>2. g[s \ {Top(s)}] \in Nat /\ g[s] = step[g[s \ {Top(s)}]][Top(s)]
      BY <1>1, <2>1, <3>1 DEF Folded
    <3> QED
      BY <3>1, <3>2
  <2>2. g[{}] = 0
    BY <1>1 DEF Folded
  <2>3. g = [s \in SUBSET (1 .. n) |-> g[s]]
    BY <1>1 DEF Folded
  <2> QED
    BY <2>1, <2>2, <2>3
<1>3. Folds(iter)
  <2> HIDE DEF Folds
  <2> QED
    BY <1>2
<1>4. Aunit!HumanAlerts(alerts) = iter[1 .. n]
  BY <1>0 DEF Aunit!HumanAlerts, Aunit!MapThenFoldSet, Aunit!Latest, Top
<1> DEFINE h == [i \in 0 .. n |-> iter[1 .. i]]
<1> HIDE DEF iter
<1>5. h[0] = 0
  BY <1>0, <1>3, 1 .. 0 = {}
<1>6. ASSUME NEW i \in 0 .. n - 1 PROVE h[i + 1] = IF alerts[i + 1] = "error" THEN h[i] + 1 ELSE 0
  <2>1. /\ 1 .. i + 1 \in SUBSET (1 .. n) /\ 1 .. i + 1 # {}
        /\ Top(1 .. i + 1) = i + 1 /\ (1 .. i + 1) \ {i + 1} = 1 .. i
    BY <1>0, FoldPositions
  <2>2. iter[1 .. i + 1] = IF alerts[i + 1] = "error" THEN iter[1 .. i] + 1 ELSE 0
    <3>1. iter[1 .. i + 1] = IF alerts[Top(1 .. i + 1)] = "error"
                             THEN iter[(1 .. i + 1) \ {Top(1 .. i + 1)}] + 1 ELSE 0
      BY <1>3, <2>1
    <3> QED
      BY <2>1, <3>1
  <2>3. h[i + 1] = iter[1 .. i + 1] /\ h[i] = iter[1 .. i]
    BY <1>0
  <2> QED
    BY <2>2, <2>3
<1>7. h[n] = iter[1 .. n]
  BY <1>0
<1>8. h \in [0 .. n -> Nat]
  <2> DEFINE T == {i \in Nat : i <= n => h[i] \in Nat}
  <2>1. 0 \in T
    BY <1>5
  <2>2. ASSUME NEW i \in T PROVE i + 1 \in T
    <3> SUFFICES ASSUME i + 1 <= n PROVE h[i + 1] \in Nat
      OBVIOUS
    <3>1. i \in 0 .. n - 1 /\ h[i] \in Nat
      BY <1>0
    <3>2. h[i + 1] = IF alerts[i + 1] = "error" THEN h[i] + 1 ELSE 0
      BY <1>6, <3>1
    <3> HIDE DEF h
    <3> QED
      BY <3>1, <3>2
  <2>3. T = Nat
    <3>1. T \in SUBSET Nat
      OBVIOUS
    <3> HIDE DEF T
    <3> QED
      BY <2>1, <2>2, <3>1, Induction
  <2>4. ASSUME NEW i \in 0 .. n PROVE h[i] \in Nat
    <3>1. i \in Nat /\ i <= n
      BY <1>0
    <3>2. i \in T
      BY <2>3, <3>1
    <3>3. i <= n => h[i] \in Nat
      BY <3>2
    <3> HIDE DEF h
    <3> QED
      BY <3>1, <3>3
  <2>5. h = [i \in 0 .. n |-> h[i]]
    OBVIOUS
  <2> HIDE DEF h
  <2> QED
    BY <2>4, <2>5
<1> HIDE DEF h
<1>9. h[0] = 0 /\ (\A i \in 0 .. n - 1 : h[i + 1] = IF alerts[i + 1] = "error" THEN h[i] + 1 ELSE 0)
      /\ Aunit!HumanAlerts(alerts) = h[n]
  BY <1>4, <1>5, <1>6, <1>7
<1> QED
  BY <1>8, <1>9 DEF n

\* The errors among alerts, one by one.
Marks(alerts) == [i \in DOMAIN alerts |-> IF alerts[i] = "error" THEN 1 ELSE 0]

LEMMA MarksAre ==
    ASSUME NEW alerts \in AunitAlerts
    PROVE  /\ Len(alerts) \in Nat /\ Marks(alerts) \in [1 .. Len(alerts) -> Nat]
           /\ \A i \in 1 .. Len(alerts) : Marks(alerts)[i] = IF alerts[i] = "error" THEN 1 ELSE 0
           /\ Aunit!ErrorAlerts(alerts) = Aunit!Total(Marks(alerts))
<1>1. DOMAIN alerts = 1 .. Len(alerts) /\ Len(alerts) \in Nat
  BY DEF AunitAlerts
<1> QED
  BY <1>1 DEF Marks, Aunit!ErrorAlerts

LEMMA HumanAtMost ==
    ASSUME NEW alerts \in AunitAlerts
    PROVE  /\ Aunit!HumanAlerts(alerts) \in Nat /\ Aunit!ErrorAlerts(alerts) \in Nat
           /\ Aunit!HumanAlerts(alerts) <= Aunit!ErrorAlerts(alerts)
           /\ Aunit!AnyError(alerts) => Aunit!ErrorAlerts(alerts) >= 1
<1> DEFINE n == Len(alerts)
           w == Marks(alerts)
<1>1. n \in Nat /\ w \in [1 .. n -> Nat] /\ Aunit!ErrorAlerts(alerts) = Aunit!Total(w)
      /\ \A i \in 1 .. n : w[i] = IF alerts[i] = "error" THEN 1 ELSE 0
  BY MarksAre
<1>2. PICK h \in [0 .. n -> Nat] :
         /\ h[0] = 0
         /\ \A i \in 0 .. n - 1 : h[i + 1] = IF alerts[i + 1] = "error" THEN h[i] + 1 ELSE 0
         /\ Aunit!HumanAlerts(alerts) = h[n]
  BY HumanFold
<1> HIDE DEF n, w
<1>3. PICK g \in [0 .. n -> Nat] : /\ g[0] = 0
                                   /\ \A i \in 0 .. n - 1 : g[i + 1] = g[i] + w[i + 1]
                                   /\ Aunit!Total(w) = g[n]
  BY <1>1, TotalFold
<1> DEFINE T == {k \in Nat : k <= n => h[k] <= g[k]}
<1>4. 0 \in T
  BY <1>1, <1>2, <1>3
<1>5. ASSUME NEW k \in T PROVE k + 1 \in T
  <2> SUFFICES ASSUME k + 1 <= n PROVE h[k + 1] <= g[k + 1]
    OBVIOUS
  <2>1. k \in 0 .. n - 1 /\ k + 1 \in 1 .. n /\ k \in 0 .. n /\ k + 1 \in 0 .. n
    BY <1>1
  <2>2. h[k + 1] = IF alerts[k + 1] = "error" THEN h[k] + 1 ELSE 0
    BY <1>2, <2>1
  <2>3. g[k + 1] = g[k] + (IF alerts[k + 1] = "error" THEN 1 ELSE 0)
    BY <1>1, <1>3, <2>1
  <2>4. h[k] <= g[k] /\ h[k] \in Nat /\ g[k] \in Nat /\ g[k + 1] \in Nat
    BY <2>1
  <2> QED
    BY <2>2, <2>3, <2>4
<1>6. h[n] <= g[n]
  <2>1. T \in SUBSET Nat
    OBVIOUS
  <2>2. n \in T
    <3> HIDE DEF T
    <3> QED
      BY <1>1, <1>4, <1>5, <2>1, Induction
  <2> QED
    BY <1>1, <2>2
<1>7. h[n] \in Nat /\ g[n] \in Nat
  BY <1>1
<1>8. ASSUME Aunit!AnyError(alerts) PROVE Aunit!ErrorAlerts(alerts) >= 1
  <2>1. PICK i \in 1 .. n : alerts[i] = "error"
    BY <1>8 DEF Aunit!AnyError, AunitAlerts, n
  <2>2. w[i] = 1 /\ w[i] <= Aunit!Total(w)
    BY <1>1, <2>1, TotalIs
  <2> QED
    BY <1>1, <1>3, <1>7, <2>2
<1> QED
  BY <1>1, <1>2, <1>3, <1>6, <1>7, <1>8

LEMMA ErrorAppended ==
    ASSUME NEW alerts \in AunitAlerts, NEW a \in {"error", "warning"}
    PROVE  /\ Append(alerts, a) \in AunitAlerts
           /\ Aunit!ErrorAlerts(Append(alerts, a)) = Aunit!ErrorAlerts(alerts) + (IF a = "error" THEN 1 ELSE 0)
<1> DEFINE n == Len(alerts)
           more == Append(alerts, a)
<1>1. more \in AunitAlerts /\ Len(more) = n + 1 /\ more[n + 1] = a /\ \A i \in 1 .. n : more[i] = alerts[i]
  BY DEF AunitAlerts
<1> HIDE DEF more
<1>2. /\ n \in Nat /\ Marks(alerts) \in [1 .. n -> Nat] /\ Aunit!ErrorAlerts(alerts) = Aunit!Total(Marks(alerts))
      /\ \A i \in 1 .. n : Marks(alerts)[i] = IF alerts[i] = "error" THEN 1 ELSE 0
  BY MarksAre
<1>3. /\ Marks(more) \in [1 .. n + 1 -> Nat] /\ Aunit!ErrorAlerts(more) = Aunit!Total(Marks(more))
      /\ \A i \in 1 .. n + 1 : Marks(more)[i] = IF more[i] = "error" THEN 1 ELSE 0
  BY <1>1, MarksAre
<1> HIDE DEF n
<1>4. \A i \in 1 .. n : Marks(more)[i] = Marks(alerts)[i]
  BY <1>1, <1>2, <1>3
<1>5. Aunit!Total(Marks(more)) = Aunit!Total(Marks(alerts)) + Marks(more)[n + 1]
  BY <1>2, <1>3, <1>4, TotalAppends
<1>6. Marks(more)[n + 1] = IF a = "error" THEN 1 ELSE 0
  BY <1>1, <1>2, <1>3
<1> QED
  BY <1>1, <1>2, <1>3, <1>5, <1>6 DEF more

\* The alerts of an element hold one error at most.
LEMMA AlertsAdded ==
    ASSUME NEW alerts \in AunitAlerts, NEW more \in Aunit!Alerts
    PROVE  /\ alerts \o more \in AunitAlerts
           /\ Aunit!ErrorAlerts(alerts \o more) = Aunit!ErrorAlerts(alerts) + (IF Aunit!AnyError(more) THEN 1 ELSE 0)
<1>0. Aunit!ErrorAlerts(alerts) \in Nat
  BY HumanAtMost
<1>1. CASE more = <<>>
  <2>1. alerts \o more = alerts /\ ~Aunit!AnyError(more)
    BY <1>1 DEF Aunit!AnyError, AunitAlerts
  <2> QED
    BY <1>0, <2>1
<1>2. ASSUME NEW a \in {"error", "warning"}, more = <<a>>
      PROVE  alerts \o more = Append(alerts, a) /\ (Aunit!AnyError(more) <=> a = "error")
  BY <1>2 DEF Aunit!AnyError, AunitAlerts
<1>3. CASE more = <<"error">>
  BY <1>2, <1>3, ErrorAppended
<1>4. CASE more = <<"warning">>
  BY <1>2, <1>4, ErrorAppended
<1>5. CASE more = <<"error", "warning">>
  <2>1. alerts \o more = Append(Append(alerts, "error"), "warning")
    BY <1>5 DEF AunitAlerts
  <2>2. Aunit!AnyError(more)
    BY <1>5 DEF Aunit!AnyError
  <2>3. Append(alerts, "error") \in AunitAlerts
        /\ Aunit!ErrorAlerts(Append(alerts, "error")) = Aunit!ErrorAlerts(alerts) + 1
    BY ErrorAppended
  <2>4. Append(Append(alerts, "error"), "warning") \in AunitAlerts
        /\ Aunit!ErrorAlerts(Append(Append(alerts, "error"), "warning")) = Aunit!ErrorAlerts(Append(alerts, "error")) + 0
    BY <2>3, ErrorAppended
  <2> QED
    BY <1>0, <2>1, <2>2, <2>3, <2>4
<1> QED
  BY <1>1, <1>3, <1>4, <1>5 DEF Aunit!Alerts

-----------------------------------------------------------------------------
\* The nodes of a result, and what the elements of the answer have put into them.
AunitNodes == [place: {"run", "program", "class", "method"}, alerts: AunitAlerts, count: {1, 256}]

Weight(node) == IF node.place = "method" THEN Aunit!Testcase(node) ELSE Aunit!ErrorAlerts(node.alerts)
Weights(nodes) == [k \in DOMAIN nodes |-> Weight(nodes[k])]
ErrorCounts(doc) == [k \in DOMAIN doc |-> Aunit!ErrorCount(doc[k])]

AunitActors == [args: Aunit!Args, pc: {"resolve", "run", "parse", "print", "coverage", "done"},
                results: Seq(AunitNodes), class: Nat, exit: -1 .. 255, failed: BOOLEAN]

AunitTypes ==
    /\ actor \in AunitActors
    /\ place \in [doc: Seq(Aunit!Elements)] /\ Len(place.doc) <= MaxElements
    /\ history \in [tested: 0 .. 2]

\* A node other than a method stands for itself. The class that alerts go to is one,
\* and as long as there is none the last node is the run or a program.
AunitNodesAre ==
    /\ Len(actor.results) > 0
    /\ \A k \in DOMAIN actor.results : actor.results[k].place # "method" => actor.results[k].count = 1
    /\ actor.class \in 0 .. Len(actor.results)
    /\ actor.class # 0 => actor.results[actor.class].place = "class"
    /\ actor.class = 0 => actor.results[Len(actor.results)].place \in {"run", "program"}
    /\ ~Aunit!FromServer /\ actor.class = 0 /\ place.doc # <<>> =>
          place.doc[Len(place.doc)].place \in {"run", "program"}
    /\ place.doc = <<>> => actor.class = 0

\* What is read so far weighs what the answer says.
AunitRead ==
    ~Aunit!FromServer =>
        /\ Aunit!Total(Weights(actor.results)) = Aunit!Total(ErrorCounts(place.doc))
        /\ Aunit!FailedTests # {} => \E k \in DOMAIN actor.results :
              actor.results[k].place = "method" /\ Aunit!AnyError(actor.results[k].alerts)

AunitEnd ==
    /\ actor.failed => actor.pc = "done"
    /\ actor.pc \in {"coverage", "done"} /\ ~actor.failed =>
          actor.exit = IF Aunit!FromServer \/ actor.args.result = "coverage" THEN 0
                        ELSE Aunit!ExitCode(Aunit!Failures(actor.args.output))
    /\ actor.pc = "resolve" \/ actor.failed \/ history.tested = actor.args.names \/ actor.args.type = "transport"

AunitInv == AunitTypes /\ AunitNodesAre /\ AunitRead /\ AunitEnd

LEMMA NodeWeighs ==
    ASSUME NEW node \in AunitNodes
    PROVE  Weight(node) \in Nat /\ Aunit!Testcase(node) \in Nat
<1>1. node.alerts \in AunitAlerts /\ node.count \in Nat
  BY DEF AunitNodes
<1> QED
  BY <1>1, HumanAtMost DEF Weight, Aunit!Testcase

LEMMA WeightsAre ==
    ASSUME NEW nodes \in Seq(AunitNodes)
    PROVE  /\ Len(nodes) \in Nat /\ Weights(nodes) \in [1 .. Len(nodes) -> Nat]
           /\ \A k \in 1 .. Len(nodes) : Weights(nodes)[k] = Weight(nodes[k])
<1>1. DOMAIN nodes = 1 .. Len(nodes) /\ Len(nodes) \in Nat /\ \A k \in 1 .. Len(nodes) : nodes[k] \in AunitNodes
  OBVIOUS
<1>2. \A k \in 1 .. Len(nodes) : Weight(nodes[k]) \in Nat
  BY <1>1, NodeWeighs
<1> QED
  BY <1>1, <1>2 DEF Weights

LEMMA ErrorCountsAre ==
    ASSUME NEW doc \in Seq(Aunit!Elements)
    PROVE  /\ Len(doc) \in Nat /\ ErrorCounts(doc) \in [1 .. Len(doc) -> Nat]
           /\ \A k \in 1 .. Len(doc) : ErrorCounts(doc)[k] = Aunit!ErrorCount(doc[k])
<1>1. DOMAIN doc = 1 .. Len(doc) /\ Len(doc) \in Nat /\ \A k \in 1 .. Len(doc) : doc[k] \in Aunit!Elements
  OBVIOUS
<1>2. \A k \in 1 .. Len(doc) : Aunit!ErrorCount(doc[k]) \in Nat
  BY <1>1 DEF Aunit!ErrorCount, Aunit!Elements
<1> QED
  BY <1>1, <1>2 DEF ErrorCounts

\* A printer counts at most the weight of a node, and every failed method.
LEMMA CountAtMost ==
    ASSUME NEW node \in AunitNodes, NEW output, node.place # "method" => node.count = 1
    PROVE  /\ Aunit!Count(node, output) \in Nat /\ Aunit!Count(node, output) <= Weight(node)
           /\ node.place = "method" /\ Aunit!AnyError(node.alerts) => Aunit!Count(node, output) >= 1
<1>1. node.alerts \in AunitAlerts /\ node.count \in {1, 256} /\ node.place \in {"run", "program", "class", "method"}
  BY DEF AunitNodes
<1>2. /\ Aunit!HumanAlerts(node.alerts) \in Nat /\ Aunit!ErrorAlerts(node.alerts) \in Nat
      /\ Aunit!HumanAlerts(node.alerts) <= Aunit!ErrorAlerts(node.alerts)
      /\ Aunit!AnyError(node.alerts) => Aunit!ErrorAlerts(node.alerts) >= 1
  BY <1>1, HumanAtMost
<1>3. CASE node.place = "method"
  BY <1>1, <1>3 DEF Aunit!Count, Weight, Aunit!Testcase
<1>4. CASE node.place # "method"
  <2>1. Aunit!Testcase(node) = IF Aunit!AnyError(node.alerts) THEN 1 ELSE 0
    BY <1>4 DEF Aunit!Testcase
  <2>2. Weight(node) = Aunit!ErrorAlerts(node.alerts)
    BY <1>4 DEF Weight
  <2>3. Aunit!Count(node, output) \in {Aunit!HumanAlerts(node.alerts), Aunit!ErrorAlerts(node.alerts), Aunit!Testcase(node), 0}
    BY <1>4 DEF Aunit!Count
  <2> QED
    BY <1>2, <1>4, <2>1, <2>2, <2>3
<1> QED
  BY <1>3, <1>4


LEMMA ElementsAre ==
    ASSUME NEW element \in Aunit!Elements
    PROVE  /\ element.place \in {"run", "program", "class", "method"} /\ element.alerts \in Aunit!Alerts
           /\ element.count \in {1, 256} /\ (element.place # "method" => element.count = 1)
           /\ element.alerts \in AunitAlerts
<1>1. Aunit!Places = {"run", "program", "class", "method"}
  BY DEF Aunit!Places
<1>2. \A alerts \in Aunit!Alerts : alerts \in AunitAlerts
  <2>1. <<>> \in AunitAlerts /\ <<"error">> \in AunitAlerts /\ <<"warning">> \in AunitAlerts
    BY DEF AunitAlerts
  <2>2. <<"error", "warning">> \in AunitAlerts
    <3>1. <<"error", "warning">> = Append(<<"error">>, "warning")
      OBVIOUS
    <3> QED
      BY <2>1, <3>1 DEF AunitAlerts
  <2> QED
    BY <2>1, <2>2 DEF Aunit!Alerts
<1>3. <<"error">> \in Aunit!Alerts
  BY DEF Aunit!Alerts
<1>4. element.place \in Aunit!Places /\ element.alerts \in Aunit!Alerts /\ element.count \in {1, 256}
      /\ (element.place # "method" => element.count = 1)
  <2>1. CASE element \in [place: Aunit!Places, alerts: Aunit!Alerts, count: {1}]
    BY <2>1
  <2>2. CASE element \in [place: {"method"}, alerts: {<<"error">>}, count: {256}]
    BY <1>1, <1>3, <2>2
  <2> QED
    BY <2>1, <2>2 DEF Aunit!Elements
<1> QED
  BY <1>1, <1>2, <1>4

\* What the parser has after the start of an element, and where its alerts go.
NodesWith(element) == IF element.place = "run" THEN actor.results
                      ELSE Append(actor.results, Aunit!Node(element.place, <<>>, element.count))
ClassWith(element) == IF element.place = "class" THEN Len(NodesWith(element)) ELSE actor.class

Added(element, results, class, at) ==
    /\ results \in Seq(AunitNodes)
    /\ at \in 1 .. Len(results) /\ class \in 0 .. Len(results)
    /\ \A k \in 1 .. Len(results) : results[k].place # "method" => results[k].count = 1
    /\ class # 0 => results[class].place = "class"
    /\ class = 0 => results[Len(results)].place \in {"run", "program"} /\ element.place \in {"run", "program"}
    /\ IF element.place = "method"
       THEN results[at] = Aunit!Node("method", <<>>, element.count)
       ELSE results[at].place # "method"
    /\ Aunit!Total(Weights(results)) = Aunit!Total(Weights(actor.results))
    /\ \A k \in 1 .. Len(actor.results) : k \in 1 .. Len(results) /\ results[k] = actor.results[k]
    /\ element.place = "method" => at = Len(actor.results) + 1

\* The nodes with a node for the new element; the node its alerts go to is of this
\* element, or it is no method.
LEMMA NodeAdded ==
    ASSUME AunitTypes, AunitNodesAre, NEW element \in Aunit!Elements, ~Aunit!FromServer,
           Aunit!Follows(element, place.doc)
    PROVE  Added(element, NodesWith(element), ClassWith(element),
                 Aunit!Target(element, NodesWith(element), ClassWith(element)))
<1> DEFINE results == NodesWith(element)
           class == ClassWith(element)
           at == Aunit!Target(element, results, class)
           nodes == actor.results
           n == Len(nodes)
           node == Aunit!Node(element.place, <<>>, element.count)
<1>0. /\ results = (IF element.place = "run" THEN nodes ELSE Append(nodes, node))
      /\ class = (IF element.place = "class" THEN Len(results) ELSE actor.class)
      /\ at = Aunit!Target(element, results, class)
  BY DEF NodesWith, ClassWith
<1> HIDE DEF results, class, at
<1>1. nodes \in Seq(AunitNodes) /\ n \in Nat /\ n > 0 /\ DOMAIN nodes = 1 .. n
  BY DEF AunitTypes, AunitActors, AunitNodesAre
<1>2. /\ \A k \in 1 .. n : nodes[k].place # "method" => nodes[k].count = 1
      /\ actor.class \in 0 .. n
      /\ actor.class # 0 => nodes[actor.class].place = "class"
      /\ actor.class = 0 => nodes[n].place \in {"run", "program"}
      /\ actor.class = 0 /\ place.doc # <<>> => place.doc[Len(place.doc)].place \in {"run", "program"}
      /\ place.doc = <<>> => actor.class = 0
  BY <1>1 DEF AunitNodesAre
<1>3. /\ element.place \in {"run", "program", "class", "method"}
      /\ element.count \in {1, 256} /\ (element.place # "method" => element.count = 1)
  BY ElementsAre
<1>4. node \in AunitNodes /\ node.place = element.place /\ node.alerts = <<>> /\ node.count = element.count
  <2>1. <<>> \in AunitAlerts
    BY DEF AunitAlerts
  <2> QED
    BY <1>3, <2>1 DEF Aunit!Node, AunitNodes
<1>5. ASSUME element.place = "run" PROVE place.doc = <<>> /\ actor.class = 0
  BY <1>2, <1>5 DEF Aunit!Follows
<1>6. ASSUME element.place = "method" PROVE place.doc # <<>> /\ actor.class # 0
  <2>1. place.doc # <<>> /\ place.doc[Len(place.doc)].place \in {"class", "method"}
    BY <1>6 DEF Aunit!Follows
  <2> QED
    BY <1>2, <2>1
<1> HIDE DEF node
<1>7. ASSUME element.place = "run" PROVE Added(element, results, class, at)
  <2>1. results = nodes /\ class = 0 /\ actor.class = 0 /\ at = n
    BY <1>0, <1>5, <1>7 DEF Aunit!Target
  <2> QED
    BY <1>1, <1>2, <1>3, <1>7, <2>1 DEF Added
<1>8. ASSUME element.place # "run" PROVE Added(element, results, class, at)
  <2>1. results = Append(nodes, node)
    BY <1>0, <1>8
  <2>2. /\ results \in Seq(AunitNodes) /\ Len(results) = n + 1 /\ results[n + 1] = node
        /\ \A k \in 1 .. n : results[k] = nodes[k]
    BY <1>1, <1>4, <2>1
  <2>3. \A k \in 1 .. n + 1 : k \in 1 .. n \/ k = n + 1
    BY <1>1
  <2>4. Aunit!Total(Weights(results)) = Aunit!Total(Weights(nodes))
    <3>1. Weights(nodes) \in [1 .. n -> Nat] /\ \A k \in 1 .. n : Weights(nodes)[k] = Weight(nodes[k])
      BY <1>1, WeightsAre
    <3>2. Weights(results) \in [1 .. n + 1 -> Nat]
          /\ \A k \in 1 .. n + 1 : Weights(results)[k] = Weight(results[k])
      BY <2>2, WeightsAre
    <3>3. Weights(results)[n + 1] = 0
      <4>1. Weights(results)[n + 1] = Weight(node)
        BY <1>1, <2>2, <3>2
      <4>2. Aunit!ErrorAlerts(<<>>) = 0
        <5>1. <<>> \in AunitAlerts /\ Len(<<>>) = 0
          BY DEF AunitAlerts
        <5>2. Marks(<<>>) \in [1 .. 0 -> Nat] /\ Aunit!ErrorAlerts(<<>>) = Aunit!Total(Marks(<<>>))
          BY <5>1, MarksAre
        <5> QED
          BY <5>2, TotalOfNothing
      <4>3. ~Aunit!AnyError(<<>>)
        BY DEF Aunit!AnyError
      <4> QED
        BY <1>4, <4>1, <4>2, <4>3 DEF Weight, Aunit!Testcase
    <3>4. \A k \in 1 .. n : Weights(results)[k] = Weights(nodes)[k]
      BY <1>1, <2>2, <3>1, <3>2
    <3>5. Aunit!Total(Weights(results)) = Aunit!Total(Weights(nodes)) + Weights(results)[n + 1]
      BY <1>1, <3>1, <3>2, <3>4, TotalAppends
    <3>6. Aunit!Total(Weights(nodes)) \in Nat
      BY <1>1, <3>1, TotalIs
    <3> QED
      BY <3>3, <3>5, <3>6
  <2>5. /\ \A k \in 1 .. n + 1 : results[k].place # "method" => results[k].count = 1
        /\ \A k \in 1 .. n : k \in 1 .. Len(results)
    BY <1>1, <1>2, <1>3, <1>4, <2>2, <2>3
  <2>6. CASE element.place = "method"
    <3>1. class = actor.class /\ at = n + 1 /\ actor.class # 0
      BY <1>0, <1>6, <2>2, <2>6 DEF Aunit!Target
    <3>2. node = Aunit!Node("method", <<>>, element.count)
      BY <2>6 DEF node
    <3> QED
      BY <1>1, <1>2, <2>2, <2>4, <2>5, <2>6, <3>1, <3>2 DEF Added
  <2>7. CASE element.place = "class"
    <3>1. class = n + 1 /\ at = n + 1
      BY <1>0, <1>1, <2>2, <2>7 DEF Aunit!Target
    <3> QED
      BY <1>1, <1>2, <1>4, <2>2, <2>4, <2>5, <2>7, <3>1 DEF Added
  <2>8. CASE element.place = "program"
    <3>1. class = actor.class /\ at = IF class # 0 THEN class ELSE n + 1
      BY <1>0, <1>1, <2>2, <2>8 DEF Aunit!Target
    <3> QED
      BY <1>1, <1>2, <1>4, <2>2, <2>4, <2>5, <2>8, <3>1 DEF Added
  <2> QED
    BY <1>3, <1>8, <2>6, <2>7, <2>8
<1>9. Added(element, results, class, at)
  BY <1>7, <1>8
<1> QED
  BY <1>9 DEF results, class, at


LEMMA AunitElement ==
    ASSUME AunitInv, Aunit!Element
    PROVE  AunitInv'
<1>0. AunitTypes /\ AunitNodesAre /\ AunitRead /\ AunitEnd
  BY DEF AunitInv
<1> DEFINE doc == place.doc
<1>1. PICK element \in Aunit!Elements :
         /\ actor.pc = "parse" /\ Len(doc) < MaxElements /\ Aunit!Follows(element, doc)
         /\ place' = [doc |-> Append(doc, element)] /\ history' = history
         /\ IF Aunit!FromServer THEN actor' = actor
            ELSE LET results == IF element.place = "run" THEN actor.results
                          ELSE Append(actor.results, Aunit!Node(element.place, <<>>, element.count))
                     class == IF element.place = "class" THEN Len(results) ELSE actor.class
                     at == Aunit!Target(element, results, class)
                 IN  actor' = [actor EXCEPT
                       !.results = [results EXCEPT ![at].alerts = @ \o element.alerts],
                       !.class = class]
  BY DEF Aunit!Element
<1>2. doc \in Seq(Aunit!Elements) /\ Len(doc) \in Nat
  BY <1>0 DEF AunitTypes
<1>3. /\ place'.doc = Append(doc, element) /\ place'.doc \in Seq(Aunit!Elements) /\ place'.doc # <<>>
      /\ Len(place'.doc) = Len(doc) + 1 /\ place'.doc[Len(doc) + 1] = element
      /\ \A k \in 1 .. Len(doc) : place'.doc[k] = doc[k]
      /\ place' \in [doc: Seq(Aunit!Elements)] /\ Len(place'.doc) <= MaxElements
  <2>1. Len(doc) + 1 <= MaxElements
    BY <1>1, <1>2, BoundsAssumption
  <2> QED
    BY <1>1, <1>2, <2>1
<1>4. actor'.args = actor.args /\ actor'.pc = actor.pc /\ actor'.failed = actor.failed /\ actor'.exit = actor.exit
  BY <1>0, <1>1 DEF AunitTypes, AunitActors
<1>5. Aunit!FromServer' <=> Aunit!FromServer
  BY <1>4 DEF Aunit!FromServer, Aunit!WithCoverage
<1>6. AunitEnd'
  BY <1>0, <1>1, <1>4 DEF AunitEnd, AunitTypes, AunitActors
<1>7. CASE Aunit!FromServer
  <2>1. actor' = actor
    BY <1>1, <1>7
  <2>2. AunitTypes'
    BY <1>0, <1>1, <1>3, <2>1 DEF AunitTypes
  <2>3. AunitNodesAre'
    BY <1>0, <1>3, <1>5, <1>7, <2>1 DEF AunitNodesAre
  <2>4. AunitRead'
    BY <1>5, <1>7 DEF AunitRead
  <2> QED
    BY <1>6, <2>2, <2>3, <2>4 DEF AunitInv
<1>8. CASE ~Aunit!FromServer
  <2> DEFINE results == NodesWith(element)
             class == ClassWith(element)
             at == Aunit!Target(element, results, class)
             n == Len(results)
             after == [results EXCEPT ![at].alerts = @ \o element.alerts]
  <2>1. actor' = [actor EXCEPT !.results = after, !.class = class]
    BY <1>1, <1>8 DEF NodesWith, ClassWith
  <2>2. /\ results \in Seq(AunitNodes)
        /\ at \in 1 .. n /\ class \in 0 .. n
        /\ \A k \in 1 .. n : results[k].place # "method" => results[k].count = 1
        /\ class # 0 => results[class].place = "class"
        /\ class = 0 => results[n].place \in {"run", "program"} /\ element.place \in {"run", "program"}
        /\ IF element.place = "method"
           THEN results[at] = Aunit!Node("method", <<>>, element.count)
           ELSE results[at].place # "method"
        /\ Aunit!Total(Weights(results)) = Aunit!Total(Weights(actor.results))
        /\ \A k \in 1 .. Len(actor.results) : k \in 1 .. n /\ results[k] = actor.results[k]
        /\ element.place = "method" => at = Len(actor.results) + 1
    <3>1. AunitTypes /\ AunitNodesAre /\ Aunit!Follows(element, place.doc)
      BY <1>0, <1>1
    <3>2. Added(element, NodesWith(element), ClassWith(element),
                Aunit!Target(element, NodesWith(element), ClassWith(element)))
      BY <1>8, <3>1, NodeAdded
    <3>3. Added(element, results, class, at)
      BY <3>2
    <3> HIDE DEF results, class, at
    <3> QED
      BY <3>3 DEF Added
  <2>3. /\ element.alerts \in Aunit!Alerts /\ element.alerts \in AunitAlerts /\ element.count \in {1, 256}
        /\ (element.place # "method" => element.count = 1)
    BY ElementsAre
  <2> DEFINE old == results[at]
             new == after[at]
  <2>4. n \in Nat /\ DOMAIN results = 1 .. n /\ \A k \in 1 .. n : results[k] \in AunitNodes
    BY <2>2
  <2>20. Len(actor.results) \in Nat /\ actor.results \in Seq(AunitNodes)
    BY <1>0 DEF AunitTypes, AunitActors
  <2> HIDE DEF results, class, at
  <2>5. old \in AunitNodes /\ old.alerts \in AunitAlerts
    BY <2>2, <2>4 DEF AunitNodes
  <2>6. /\ old.alerts \o element.alerts \in AunitAlerts
        /\ Aunit!ErrorAlerts(old.alerts \o element.alerts)
             = Aunit!ErrorAlerts(old.alerts) + (IF Aunit!AnyError(element.alerts) THEN 1 ELSE 0)
    BY <2>3, <2>5, AlertsAdded
  <2>7. /\ new = [old EXCEPT !.alerts = old.alerts \o element.alerts]
        /\ after \in [1 .. n -> AunitNodes]
        /\ \A k \in 1 .. n : k # at => after[k] = results[k]
    <3>1. after = [k \in 1 .. n |-> IF k = at THEN [old EXCEPT !.alerts = old.alerts \o element.alerts] ELSE results[k]]
      BY <2>2, <2>4
    <3>2. [old EXCEPT !.alerts = old.alerts \o element.alerts] \in AunitNodes
      BY <2>5, <2>6 DEF AunitNodes
    <3> HIDE DEF after, old
    <3> QED
      BY <2>2, <2>4, <3>1, <3>2
  <2>8. after \in Seq(AunitNodes) /\ Len(after) = n /\ DOMAIN after = 1 .. n
    BY <2>4, <2>7
  <2>9. new.place = old.place /\ new.count = old.count /\ new.alerts = old.alerts \o element.alerts
    BY <2>5, <2>7 DEF AunitNodes
  <2> HIDE DEF after, old, new
  <2>10. \A k \in 1 .. n : after[k].place = results[k].place /\ after[k].count = results[k].count
    BY <2>7, <2>9 DEF old, new
  <2>11. actor'.results = after /\ actor'.class = class /\ actor' \in AunitActors
    <3>1. class \in Nat
      BY <2>2
    <3> QED
      BY <1>0, <2>1, <2>8, <3>1 DEF AunitTypes, AunitActors
  <2>12. AunitTypes'
    BY <1>0, <1>1, <1>3, <2>11 DEF AunitTypes
  <2>13. AunitNodesAre'
    <3>1. n > 0 /\ n \in 1 .. n
      BY <2>2, <2>4
    <3>2. class = 0 => after[n].place \in {"run", "program"}
      BY <2>2, <2>10, <3>1
    <3>3. class # 0 => after[class].place = "class"
      BY <2>2, <2>4, <2>10
    <3>4. \A k \in 1 .. n : after[k].place # "method" => after[k].count = 1
      BY <2>2, <2>10
    <3>5. class = 0 => place'.doc[Len(place'.doc)].place \in {"run", "program"}
      BY <1>3, <2>2
    <3> QED
      BY <1>3, <2>2, <2>8, <2>11, <3>1, <3>2, <3>3, <3>4, <3>5 DEF AunitNodesAre
  <2>14. Aunit!ErrorCount(element) \in Nat
    BY <2>3 DEF Aunit!ErrorCount
  <2>15. Weight(new) = Weight(old) + Aunit!ErrorCount(element) /\ Weight(old) \in Nat
    <3>1. Weight(old) \in Nat /\ Aunit!ErrorAlerts(old.alerts) \in Nat
      BY <2>5, NodeWeighs, HumanAtMost
    <3>2. CASE element.place = "method"
      <4>1. old = Aunit!Node("method", <<>>, element.count)
        BY <2>2, <3>2 DEF old
      <4>2. old.place = "method" /\ old.alerts = <<>> /\ old.count = element.count
        BY <4>1 DEF Aunit!Node
      <4>3. new.alerts = element.alerts
        BY <2>3, <2>9, <4>2 DEF AunitAlerts
      <4>4. ~Aunit!AnyError(<<>>)
        BY DEF Aunit!AnyError
      <4>5. Weight(new) = Aunit!ErrorCount(element)
        BY <2>9, <4>2, <4>3 DEF Weight, Aunit!Testcase, Aunit!ErrorCount
      <4>6. Weight(old) = 0
        BY <4>2, <4>4 DEF Weight, Aunit!Testcase
      <4> QED
        BY <2>14, <4>5, <4>6
    <3>3. CASE element.place # "method"
      <4>1. old.place # "method" /\ new.place # "method"
        BY <2>2, <2>9, <3>3 DEF old
      <4>2. Aunit!ErrorCount(element) = IF Aunit!AnyError(element.alerts) THEN 1 ELSE 0
        BY <2>3, <3>3 DEF Aunit!ErrorCount
      <4> QED
        BY <2>6, <2>9, <3>1, <4>1, <4>2 DEF Weight
    <3> QED
      BY <3>2, <3>3
  <2>16. Aunit!Total(Weights(after)) = Aunit!Total(Weights(results)) + Aunit!ErrorCount(element)
    <3>1. Weights(results) \in [1 .. n -> Nat] /\ \A k \in 1 .. n : Weights(results)[k] = Weight(results[k])
      BY <2>2, WeightsAre
    <3>2. Weights(after) \in [1 .. n -> Nat] /\ \A k \in 1 .. n : Weights(after)[k] = Weight(after[k])
      BY <2>8, WeightsAre
    <3>3. \A k \in 1 .. n : Weights(after)[k] = IF k = at THEN Weights(results)[k] + Aunit!ErrorCount(element)
                                                ELSE Weights(results)[k]
      BY <2>7, <2>15, <3>1, <3>2 DEF old, new
    <3> QED
      BY <2>2, <2>4, <2>14, <3>1, <3>2, <3>3, TotalGrows
  <2>17. Aunit!Total(ErrorCounts(place'.doc)) = Aunit!Total(ErrorCounts(doc)) + Aunit!ErrorCount(element)
    <3>1. ErrorCounts(doc) \in [1 .. Len(doc) -> Nat]
          /\ \A k \in 1 .. Len(doc) : ErrorCounts(doc)[k] = Aunit!ErrorCount(doc[k])
      BY <1>2, ErrorCountsAre
    <3>2. ErrorCounts(place'.doc) \in [1 .. Len(doc) + 1 -> Nat]
          /\ \A k \in 1 .. Len(doc) + 1 : ErrorCounts(place'.doc)[k] = Aunit!ErrorCount(place'.doc[k])
      BY <1>3, ErrorCountsAre
    <3>3. \A k \in 1 .. Len(doc) : ErrorCounts(place'.doc)[k] = ErrorCounts(doc)[k]
      BY <1>2, <1>3, <3>1, <3>2
    <3>4. ErrorCounts(place'.doc)[Len(doc) + 1] = Aunit!ErrorCount(element)
      BY <1>2, <1>3, <3>2
    <3> HIDE DEF doc
    <3> QED
      BY <1>2, <3>1, <3>2, <3>3, <3>4, TotalAppends
  <2>18. (Aunit!FailedTests # {})' => \E k \in 1 .. n : after[k].place = "method" /\ Aunit!AnyError(after[k].alerts)
    <3> SUFFICES ASSUME (Aunit!FailedTests # {})'
                 PROVE  \E k \in 1 .. n : after[k].place = "method" /\ Aunit!AnyError(after[k].alerts)
      OBVIOUS
    <3>1. PICK k \in 1 .. Len(doc) + 1 : place'.doc[k].place = "method" /\ Aunit!AnyError(place'.doc[k].alerts)
      BY <1>2, <1>3 DEF Aunit!FailedTests
    <3>2. CASE k = Len(doc) + 1
      <4>1. element.place = "method" /\ Aunit!AnyError(element.alerts)
        BY <1>3, <3>1, <3>2
      <4>2. old.place = "method" /\ old.alerts = <<>>
        BY <2>2, <4>1 DEF old, Aunit!Node
      <4>3. new.place = "method" /\ new.alerts = element.alerts
        BY <2>3, <2>9, <4>2 DEF AunitAlerts
      <4> QED
        BY <2>2, <4>1, <4>3 DEF new
    <3>3. CASE k \in 1 .. Len(doc)
      <4>1. k \in Aunit!FailedTests
        BY <1>2, <1>3, <3>1, <3>3 DEF Aunit!FailedTests
      <4>2. PICK j \in DOMAIN actor.results : actor.results[j].place = "method" /\ Aunit!AnyError(actor.results[j].alerts)
        BY <1>0, <1>8, <4>1 DEF AunitRead
      <4>3. j \in 1 .. Len(actor.results)
        BY <2>20
      <4>4. j \in 1 .. n /\ results[j] = actor.results[j]
        BY <2>2, <4>3
      <4>5. j # at
        <5>1. element.place = "method" => at = Len(actor.results) + 1
          BY <2>2
        <5>2. element.place # "method" => old.place # "method"
          BY <2>2 DEF old
        <5> QED
          BY <2>20, <4>2, <4>3, <4>4, <5>1, <5>2 DEF old
      <4>6. after[j] = actor.results[j]
        BY <2>7, <4>4, <4>5
      <4> QED
        BY <4>2, <4>4, <4>6
    <3> QED
      BY <1>2, <3>1, <3>2, <3>3
  <2>19. AunitRead'
    <3>1. Aunit!Total(Weights(actor.results)) = Aunit!Total(ErrorCounts(doc))
      BY <1>0, <1>8 DEF AunitRead
    <3>2. Aunit!Total(Weights(after)) = Aunit!Total(ErrorCounts(place'.doc))
      BY <2>2, <2>16, <2>17, <3>1
    <3>3. (Aunit!Total(Weights(actor.results)) = Aunit!Total(ErrorCounts(place.doc)))'
      BY <2>11, <3>2
    <3>4. (Aunit!FailedTests # {} => \E k \in DOMAIN actor.results :
              actor.results[k].place = "method" /\ Aunit!AnyError(actor.results[k].alerts))'
      BY <2>8, <2>11, <2>18
    <3> QED
      BY <3>3, <3>4 DEF AunitRead
  <2> QED
    BY <1>6, <2>12, <2>13, <2>19 DEF AunitInv
<1> QED
  BY <1>7, <1>8


\* Steps that keep the nodes and the answer.
LEMMA AunitKeeps ==
    ASSUME AunitInv, place' = place, actor'.results = actor.results, actor'.class = actor.class,
           actor'.args = actor.args
    PROVE  AunitNodesAre' /\ AunitRead'
<1>1. Aunit!FromServer' <=> Aunit!FromServer
  BY DEF Aunit!FromServer, Aunit!WithCoverage
<1>2. AunitNodesAre /\ AunitRead
  BY DEF AunitInv
<1> QED
  BY <1>1, <1>2 DEF AunitNodesAre, AunitRead, Aunit!FailedTests

LEMMA AunitInitInv == ASSUME Aunit!Init PROVE AunitInv
<1>1. PICK args \in Aunit!Args :
         actor = [args |-> args, pc |-> "resolve", results |-> <<Aunit!Node("run", <<>>, 1)>>,
                   class |-> 0, exit |-> -1, failed |-> FALSE]
  BY DEF Aunit!Init
<1>2. place = [doc |-> <<>>] /\ history = [tested |-> 0]
  BY DEF Aunit!Init
<1> DEFINE node == Aunit!Node("run", <<>>, 1)
<1>3. node \in AunitNodes /\ node.place = "run" /\ node.alerts = <<>> /\ node.count = 1 /\ <<>> \in AunitAlerts
  BY DEF Aunit!Node, AunitNodes, AunitAlerts
<1> HIDE DEF node
<1>4. actor.results = <<node>> /\ actor.class = 0 /\ actor.pc = "resolve" /\ ~actor.failed
  BY <1>1 DEF node
<1>5. <<node>> \in Seq(AunitNodes) /\ Len(<<node>>) = 1 /\ <<node>>[1] = node /\ DOMAIN <<node>> = 1 .. 1
  BY <1>3
<1>6. AunitTypes
  <2>1. actor \in AunitActors
    BY <1>1, <1>5 DEF AunitActors, node
  <2>2. place \in [doc: Seq(Aunit!Elements)] /\ Len(place.doc) <= MaxElements
    BY <1>2, BoundsAssumption
  <2> QED
    BY <1>2, <2>1, <2>2 DEF AunitTypes
<1>7. AunitNodesAre
  BY <1>2, <1>3, <1>4, <1>5 DEF AunitNodesAre
<1>8. AunitRead
  <2>1. Aunit!Total(Weights(actor.results)) = 0
    <3>1. Weights(<<node>>) \in [1 .. 1 -> Nat] /\ \A k \in 1 .. 1 : Weights(<<node>>)[k] = Weight(<<node>>[k])
      BY <1>5, WeightsAre
    <3>2. Aunit!ErrorAlerts(<<>>) = 0
      <4>1. <<>> \in AunitAlerts /\ Len(<<>>) = 0
        BY <1>3
      <4>2. Marks(<<>>) \in [1 .. 0 -> Nat] /\ Aunit!ErrorAlerts(<<>>) = Aunit!Total(Marks(<<>>))
        BY <4>1, MarksAre
      <4> QED
        BY <4>2, TotalOfNothing
    <3>3. \A k \in 1 .. 1 : Weights(<<node>>)[k] = 0
      BY <1>3, <1>5, <3>1, <3>2 DEF Weight
    <3> DEFINE w == Weights(<<node>>)
    <3>4. w \in [1 .. 1 -> Nat] /\ (\A k \in 1 .. 1 : w[k] = 0) /\ 1 \in Nat
      BY <3>1, <3>3
    <3>5. Weights(actor.results) = w
      BY <1>4
    <3> HIDE DEF w
    <3>6. Aunit!Total(w) = 0
      BY <3>4, TotalOfNothing
    <3> QED
      BY <3>5, <3>6
  <2>2. Aunit!Total(ErrorCounts(place.doc)) = 0
    <3>1. place.doc = <<>> /\ place.doc \in Seq(Aunit!Elements) /\ Len(place.doc) = 0
      BY <1>2
    <3>2. ErrorCounts(place.doc) \in [1 .. 0 -> Nat]
      BY <3>1, ErrorCountsAre
    <3> QED
      BY <3>2, TotalOfNothing
  <2>3. Aunit!FailedTests = {}
    BY <1>2 DEF Aunit!FailedTests
  <2> QED
    BY <2>1, <2>2, <2>3 DEF AunitRead
<1>9. AunitEnd
  BY <1>4 DEF AunitEnd
<1> QED
  BY <1>6, <1>7, <1>8, <1>9 DEF AunitInv

LEMMA AunitSteps ==
    ASSUME AunitInv, Aunit!Resolve \/ Aunit!Execute \/ Aunit!EndParse \/ Aunit!Coverage
    PROVE  AunitInv'
<1>0. AunitTypes /\ AunitEnd
  BY DEF AunitInv
<1>1. place' = place
  BY DEF Aunit!Resolve, Aunit!Execute, Aunit!EndParse, Aunit!Coverage
<1>2. (\E to \in {"run", "parse", "print", "done"} : Aunit!Goto(to)) \/ Aunit!Abort
  BY DEF Aunit!Resolve, Aunit!Execute, Aunit!EndParse, Aunit!Coverage
<1>3. /\ actor'.results = actor.results /\ actor'.class = actor.class /\ actor'.args = actor.args
      /\ actor' \in AunitActors
  <2>1. CASE Aunit!Abort
    <3>1. actor' = [actor EXCEPT !.pc = "done", !.exit = 1, !.failed = TRUE] /\ 1 \in -1 .. 255
      BY <2>1 DEF Aunit!Abort
    <3> QED
      BY <1>0, <3>1 DEF AunitTypes, AunitActors
  <2>2. ASSUME NEW to \in {"run", "parse", "print", "done"}, Aunit!Goto(to)
        PROVE  /\ actor'.results = actor.results /\ actor'.class = actor.class
               /\ actor'.args = actor.args /\ actor' \in AunitActors
    BY <1>0, <2>2 DEF AunitTypes, AunitActors, Aunit!Goto
  <2> QED
    BY <1>2, <2>1, <2>2
<1>4. history' \in [tested: 0 .. 2]
  <2>1. actor.args.names \in 0 .. 2
    BY <1>0 DEF AunitTypes, AunitActors, Aunit!Args
  <2> QED
    BY <1>0, <2>1 DEF AunitTypes, Aunit!Resolve, Aunit!Execute, Aunit!EndParse, Aunit!Coverage
<1>5. AunitTypes'
  BY <1>0, <1>1, <1>3, <1>4 DEF AunitTypes
<1>6. Aunit!FromServer' <=> Aunit!FromServer
  BY <1>3 DEF Aunit!FromServer, Aunit!WithCoverage
<1>7. \A output : Aunit!Failures(output)' = Aunit!Failures(output)
  BY <1>3 DEF Aunit!Failures
<1>8. AunitEnd'
  <2>1. CASE Aunit!Abort
    <3>1. actor'.failed /\ actor'.pc = "done"
      BY <1>0, <2>1 DEF Aunit!Abort, AunitTypes, AunitActors
    <3> QED
      BY <3>1 DEF AunitEnd
  <2>2. CASE Aunit!Resolve /\ ~Aunit!Abort
    <3>1. /\ actor'.pc = "run" /\ actor'.failed = actor.failed /\ actor.pc = "resolve"
          /\ history'.tested = (IF actor.args.type = "transport" /\ ~actor.args.compat
                                 THEN 1 ELSE actor.args.names)
      BY <1>0, <2>2 DEF Aunit!Resolve, Aunit!Goto, AunitTypes, AunitActors
    <3> QED
      BY <1>0, <1>3, <3>1 DEF AunitEnd
  <2>3. CASE (Aunit!Execute \/ Aunit!EndParse) /\ ~Aunit!Abort
    <3>1. /\ actor'.pc \in {"parse", "print"} /\ actor'.failed = actor.failed /\ actor.pc \in {"run", "parse"}
          /\ history' = history
      BY <1>0, <2>3 DEF Aunit!Execute, Aunit!EndParse, Aunit!Goto, AunitTypes, AunitActors
    <3> QED
      BY <1>0, <1>3, <3>1 DEF AunitEnd
  <2>4. CASE Aunit!Coverage /\ ~Aunit!Abort
    <3>1. /\ actor'.pc = "done" /\ actor'.failed = actor.failed /\ actor.pc = "coverage"
          /\ actor'.exit = actor.exit /\ history' = history
      BY <1>0, <2>4 DEF Aunit!Coverage, Aunit!Goto, AunitTypes, AunitActors
    <3>2. ~actor.failed
      BY <1>0, <3>1 DEF AunitEnd
    <3>3. actor.exit = IF Aunit!FromServer \/ actor.args.result = "coverage" THEN 0
                        ELSE Aunit!ExitCode(Aunit!Failures(actor.args.output))
      BY <1>0, <3>1, <3>2 DEF AunitEnd
    <3>4. (actor.exit = IF Aunit!FromServer \/ actor.args.result = "coverage" THEN 0
                         ELSE Aunit!ExitCode(Aunit!Failures(actor.args.output)))'
      BY <1>3, <1>6, <3>1, <3>3 DEF Aunit!ExitCode, Aunit!Failures
    <3> QED
      BY <1>0, <1>3, <3>1, <3>2, <3>4 DEF AunitEnd
  <2> QED
    BY <2>1, <2>2, <2>3, <2>4
<1> QED
  BY <1>1, <1>3, <1>5, <1>8, AunitKeeps DEF AunitInv

\* The number of failures is one, and what is read is what it counts.
LEMMA FailuresAre ==
    ASSUME AunitTypes, AunitNodesAre, AunitRead, NEW output
    PROVE  /\ Aunit!Failures(output) \in Nat
           /\ ~Aunit!FromServer => Aunit!Failures(output) <= Aunit!Errors
           /\ ~Aunit!FromServer /\ Aunit!FailedTests # {} => Aunit!Failures(output) >= 1
           /\ Aunit!Errors \in Nat
           /\ Aunit!Errors # 0 => \E k \in DOMAIN place.doc : Aunit!AnyError(place.doc[k].alerts)
<1> DEFINE nodes == actor.results
           n == Len(nodes)
           w == [k \in DOMAIN nodes |-> Aunit!Count(nodes[k], output)]
<1>1. nodes \in Seq(AunitNodes) /\ n \in Nat /\ DOMAIN nodes = 1 .. n /\ \A k \in 1 .. n : nodes[k] \in AunitNodes
  BY DEF AunitTypes, AunitActors
<1>2. /\ \A k \in 1 .. n : nodes[k].place # "method" => nodes[k].count = 1
  BY <1>1 DEF AunitNodesAre
<1>3. Weights(nodes) \in [1 .. n -> Nat] /\ \A k \in 1 .. n : Weights(nodes)[k] = Weight(nodes[k])
  BY <1>1, WeightsAre
<1>4. ASSUME NEW k \in 1 .. n
      PROVE  /\ w[k] \in Nat /\ w[k] <= Weights(nodes)[k]
             /\ nodes[k].place = "method" /\ Aunit!AnyError(nodes[k].alerts) => w[k] >= 1
  <2>1. w[k] = Aunit!Count(nodes[k], output)
    BY <1>1
  <2>2. nodes[k] \in AunitNodes /\ (nodes[k].place # "method" => nodes[k].count = 1)
    BY <1>1, <1>2
  <2> HIDE DEF w
  <2> QED
    BY <1>3, <2>1, <2>2, CountAtMost
<1>5. w \in [1 .. n -> Nat] /\ Aunit!Failures(output) = Aunit!Total(w)
  <2>1. w = [k \in 1 .. n |-> w[k]]
    BY <1>1
  <2>2. Aunit!Failures(output) = Aunit!Total(w)
    BY DEF Aunit!Failures
  <2> HIDE DEF w
  <2> QED
    BY <1>4, <2>1, <2>2
<1> HIDE DEF w
<1>6. Aunit!Total(w) \in Nat /\ Aunit!Total(w) <= Aunit!Total(Weights(nodes)) /\ \A k \in 1 .. n : w[k] <= Aunit!Total(w)
  BY <1>1, <1>3, <1>4, <1>5, TotalAtMost, TotalIs
<1>7. /\ ErrorCounts(place.doc) \in [1 .. Len(place.doc) -> Nat] /\ Len(place.doc) \in Nat
      /\ \A k \in 1 .. Len(place.doc) : ErrorCounts(place.doc)[k] = Aunit!ErrorCount(place.doc[k])
      /\ DOMAIN place.doc = 1 .. Len(place.doc)
  <2>1. place.doc \in Seq(Aunit!Elements)
    BY DEF AunitTypes
  <2> QED
    BY <2>1, ErrorCountsAre
<1>8. Aunit!Errors = Aunit!Total(ErrorCounts(place.doc))
  BY DEF Aunit!Errors, ErrorCounts
<1>9. Aunit!Errors \in Nat
  BY <1>7, <1>8, TotalIs
<1>10. ASSUME Aunit!Errors # 0 PROVE \E k \in DOMAIN place.doc : Aunit!AnyError(place.doc[k].alerts)
  <2>1. PICK k \in 1 .. Len(place.doc) : Aunit!ErrorCount(place.doc[k]) # 0
    BY <1>7, <1>8, <1>10, TotalOfNothing
  <2> QED
    BY <1>7, <2>1 DEF Aunit!ErrorCount
<1>11. ASSUME ~Aunit!FromServer PROVE Aunit!Total(Weights(nodes)) = Aunit!Errors
  BY <1>8, <1>11 DEF AunitRead
<1>12. ASSUME ~Aunit!FromServer, Aunit!FailedTests # {} PROVE Aunit!Failures(output) >= 1
  <2>1. PICK k \in 1 .. n : nodes[k].place = "method" /\ Aunit!AnyError(nodes[k].alerts)
    BY <1>1, <1>12 DEF AunitRead
  <2>2. w[k] >= 1 /\ w[k] \in Nat /\ w[k] <= Aunit!Total(w)
    BY <1>4, <1>6, <2>1
  <2> QED
    BY <1>5, <1>6, <2>2
<1> QED
  BY <1>5, <1>6, <1>9, <1>10, <1>11, <1>12

LEMMA AunitReports ==
    ASSUME AunitInv, Aunit!Report
    PROVE  AunitInv'
<1>0. AunitTypes /\ AunitNodesAre /\ AunitRead /\ AunitEnd
  BY DEF AunitInv
<1> DEFINE exit == IF Aunit!FromServer \/ actor.args.result = "coverage" THEN 0
                   ELSE Aunit!ExitCode(Aunit!Failures(actor.args.output))
           to == IF Aunit!WithCoverage THEN "coverage" ELSE "done"
<1>1. /\ actor.pc = "print" /\ place' = place /\ history' = history
      /\ actor' = [actor EXCEPT !.exit = exit, !.pc = to]
  BY DEF Aunit!Report
<1>2. exit \in 0 .. 255 /\ exit \in -1 .. 255
  <2>1. Aunit!Failures(actor.args.output) \in Nat
    BY <1>0, FailuresAre
  <2>2. Aunit!ExitCode(Aunit!Failures(actor.args.output)) \in 0 .. 255
    BY <2>1 DEF Aunit!ExitCode
  <2>3. exit \in 0 .. 255
    BY <2>2
  <2> HIDE DEF exit
  <2> QED
    BY <2>3
<1> HIDE DEF exit
<1>3. /\ actor'.results = actor.results /\ actor'.class = actor.class /\ actor'.args = actor.args
      /\ actor'.failed = actor.failed /\ actor'.exit = exit /\ actor'.pc = to
      /\ actor' \in AunitActors
  BY <1>0, <1>1, <1>2 DEF AunitTypes, AunitActors
<1>4. AunitTypes'
  BY <1>0, <1>1, <1>3 DEF AunitTypes
<1>5. Aunit!FromServer' <=> Aunit!FromServer
  BY <1>3 DEF Aunit!FromServer, Aunit!WithCoverage
<1>6. (actor.exit = IF Aunit!FromServer \/ actor.args.result = "coverage" THEN 0
                     ELSE Aunit!ExitCode(Aunit!Failures(actor.args.output)))'
  BY <1>3, <1>5 DEF exit, Aunit!ExitCode, Aunit!Failures
<1>7. AunitEnd'
  <2>1. ~actor.failed /\ actor.pc # "resolve"
    BY <1>0, <1>1 DEF AunitEnd
  <2> QED
    BY <1>0, <1>1, <1>3, <1>6, <2>1 DEF AunitEnd
<1> QED
  BY <1>1, <1>3, <1>4, <1>7, AunitKeeps DEF AunitInv

LEMMA AunitTells ==
    ASSUME AunitInv
    PROVE  Aunit!ExitTellsTheTests /\ Aunit!TypeOK
<1>0. AunitTypes /\ AunitNodesAre /\ AunitRead /\ AunitEnd
  BY DEF AunitInv
<1>1. Aunit!ExitTellsTheTests
  <2> SUFFICES ASSUME Aunit!Done
               PROVE  /\ actor.exit = 0 /\ Aunit!FailedTests # {} =>
                            \/ Aunit!FromServer
                            \/ actor.args.result = "coverage"
                            \/ Aunit!Errors >= 256
                      /\ actor.exit # 0 => \E k \in DOMAIN place.doc : Aunit!AnyError(place.doc[k].alerts)
                      /\ history.tested = actor.args.names \/ actor.args.type = "transport"
    BY DEF Aunit!ExitTellsTheTests
  <2> DEFINE failures == Aunit!Failures(actor.args.output)
  <2>1. /\ actor.exit = IF Aunit!FromServer \/ actor.args.result = "coverage" THEN 0 ELSE Aunit!ExitCode(failures)
        /\ history.tested = actor.args.names \/ actor.args.type = "transport"
    BY <1>0 DEF Aunit!Done, AunitEnd
  <2>2. /\ failures \in Nat
        /\ ~Aunit!FromServer => failures <= Aunit!Errors
        /\ ~Aunit!FromServer /\ Aunit!FailedTests # {} => failures >= 1
        /\ Aunit!Errors \in Nat
        /\ Aunit!Errors # 0 => \E k \in DOMAIN place.doc : Aunit!AnyError(place.doc[k].alerts)
    BY <1>0, FailuresAre
  <2> HIDE DEF failures
  <2>3. Aunit!ExitCode(failures) = 0 /\ failures >= 1 => failures >= 256
    BY <2>2 DEF Aunit!ExitCode
  <2>4. Aunit!ExitCode(failures) # 0 => failures # 0
    BY DEF Aunit!ExitCode
  <2> QED
    BY <2>1, <2>2, <2>3, <2>4
<1>2. Aunit!TypeOK
  <2>1. Aunit!Places = {"run", "program", "class", "method"}
    BY DEF Aunit!Places
  <2>2. \A k \in DOMAIN actor.results : actor.results[k].place \in Aunit!Places
    <3>1. actor.results \in Seq(AunitNodes)
      BY <1>0 DEF AunitTypes, AunitActors
    <3>2. \A k \in DOMAIN actor.results : actor.results[k] \in AunitNodes
      BY <3>1
    <3> QED
      BY <2>1, <3>2 DEF AunitNodes
  <2> QED
    BY <1>0, <2>2 DEF Aunit!TypeOK, AunitTypes, AunitActors, AunitNodesAre
<1> QED
  BY <1>1, <1>2

AunitPart == part = "aunit" => AunitInv

LEMMA AunitAlways == CommandsSpec => []AunitPart
<1>1. CommandsInit => AunitPart
  BY PartInit, AunitInitInv DEF AunitPart
<1>2. ASSUME AunitPart, [CommandsNext]_all PROVE AunitPart'
  <2>1. CASE part = "aunit" /\ UNCHANGED small
    <3>1. /\ AunitInv /\ actor' = actor /\ place' = place /\ history' = history
      BY <1>2, <2>1 DEF small, AunitPart
    <3>2. AunitNodesAre' /\ AunitRead'
      BY <3>1, AunitKeeps
    <3>3. AunitTypes'
      BY <3>1 DEF AunitInv, AunitTypes
    <3>4. AunitEnd'
      BY <3>1 DEF AunitInv, AunitEnd, Aunit!FromServer, Aunit!WithCoverage, Aunit!Failures
    <3> QED
      BY <3>2, <3>3, <3>4 DEF AunitPart, AunitInv
  <2>2. CASE part = "aunit" /\ Aunit!Next
    BY <1>2, <2>2, PartStep, AunitSteps, AunitElement, AunitReports DEF AunitPart, Aunit!Next
  <2> QED
    BY <1>2, <2>1, <2>2, PartStep DEF AunitPart
<1> QED
  BY <1>1, <1>2, PTL DEF CommandsSpec

\* For every bound of the answer and every set of names: exit code 0 of aunit hides a
\* failed test only where it is said to, and another exit code is due to an error; and
\* the exit code of atc tells whether a finding of the objects that were asked for is
\* severe, unless it was cut off.
THEOREM ExitsTellTheResult == CommandsSpec => []ExitTellsTheResult
<1>1. AunitPart /\ AtcPart => ExitTellsTheResult
  <2>1. ASSUME AunitPart, part = "aunit" PROVE Aunit!ExitTellsTheTests
    BY <2>1, AunitTells DEF AunitPart
  <2>2. ASSUME AtcPart, part = "atc" PROVE Atc!ExitTellsTheFindings
    BY <2>2, AtcTells DEF AtcPart
  <2> QED
    BY <2>1, <2>2 DEF ExitTellsTheResult
<1> QED
  BY <1>1, AunitAlways, AtcAlways, PTL

-----------------------------------------------------------------------------
(***************************************************************************)
(* PackageTree. A way is a path that leads from the named package to one   *)
(* below it in the tree of the beginning; since a package is in one other, *)
(* a way is told by where it ends, and passes no package twice, whatever   *)
(* the tree is. The walk keeps this: no package of the queue is below      *)
(* another of the queue, and what is not below any of them was found and   *)
(* listed, once. Then the deletion keeps that all that is left is where it *)
(* was and that the deepest package comes first.                           *)
(***************************************************************************)
LEMMA SameSeq ==
    ASSUME NEW S, NEW s \in Seq(S), NEW t \in Seq(S), Len(s) = Len(t),
           \A i \in 1 .. Len(s) : s[i] = t[i]
    PROVE  s = t
OBVIOUS

\* The ways from the package that was named to those below it, in a tree of packages.
Trees == {t \in [Subs \cup Tree!Objects \cup {"top"} -> Tree!Homes \ {Tree!Gone}] : t["top"] = Tree!Elsewhere}
Ways(t) == {r \in Seq(Subs) : Tree!Leads(t, r)}
Line(r) == {"top"} \cup {r[i] : i \in DOMAIN r}

LEMMA NamesDiffer ==
    /\ "top" \notin Subs /\ Tree!Elsewhere \notin Subs /\ Tree!Gone \notin Subs
    /\ \A o \in Tree!Objects : o \notin Subs /\ o \notin Tree!Homes
BY SubsAssumption DEF Tree!Objects, Tree!Homes, Tree!Packages, Tree!Elsewhere, Tree!Gone

LEMMA WayBegins ==
    ASSUME NEW t \in Trees
    PROVE  <<>> \in Ways(t) /\ Tree!Named(<<>>) = "top" /\ Len(<<>>) = 0 /\ Line(<<>>) = {"top"}
BY DEF Ways, Tree!Leads, Tree!Named, Line

\* A way goes on to each package that is in the last.
LEMMA WayGoesOn ==
    ASSUME NEW t \in Trees, NEW r \in Ways(t), NEW p \in Subs, t[p] = Tree!Named(r)
    PROVE  /\ Append(r, p) \in Ways(t) /\ Len(Append(r, p)) = Len(r) + 1 /\ Tree!Named(Append(r, p)) = p
           /\ Line(Append(r, p)) = Line(r) \cup {p}
<1> DEFINE s == Append(r, p)
<1>1. /\ r \in Seq(Subs) /\ s \in Seq(Subs) /\ Len(s) = Len(r) + 1 /\ s[Len(r) + 1] = p
      /\ \A i \in 1 .. Len(r) : s[i] = r[i]
      /\ Len(r) \in Nat /\ DOMAIN r = 1 .. Len(r) /\ DOMAIN s = 1 .. Len(r) + 1 /\ s # <<>>
  BY DEF Ways
<1>2. \A i \in 1 .. Len(r) : t[r[i]] = IF i = 1 THEN "top" ELSE r[i - 1]
  BY <1>1 DEF Ways, Tree!Leads
<1>3. Tree!Named(r) = IF Len(r) = 0 THEN "top" ELSE r[Len(r)]
  BY <1>1 DEF Tree!Named
<1> HIDE DEF s
<1>4. ASSUME NEW i \in 1 .. Len(r) + 1
      PROVE  t[s[i]] = IF i = 1 THEN "top" ELSE s[i - 1]
  <2>1. CASE i \in 1 .. Len(r)
    BY <1>1, <1>2, <2>1
  <2>2. CASE i = Len(r) + 1
    BY <1>1, <1>3, <2>2
  <2> QED
    BY <1>1, <2>1, <2>2
<1>5. Tree!Named(s) = p
  BY <1>1 DEF Tree!Named
<1>6. {s[i] : i \in 1 .. Len(r) + 1} = {r[i] : i \in 1 .. Len(r)} \cup {p}
  BY <1>1
<1> QED
  BY <1>1, <1>4, <1>5, <1>6 DEF s, Ways, Tree!Leads, Line

\* Each part of a way from its beginning is one.
LEMMA WayParts ==
    ASSUME NEW t \in Trees, NEW r \in Ways(t), NEW n \in 0 .. Len(r)
    PROVE  /\ SubSeq(r, 1, n) \in Ways(t) /\ Len(SubSeq(r, 1, n)) = n
           /\ \A i \in 1 .. n : SubSeq(r, 1, n)[i] = r[i]
           /\ Tree!Named(SubSeq(r, 1, n)) = IF n = 0 THEN "top" ELSE r[n]
           /\ Line(SubSeq(r, 1, n)) \subseteq Line(r)
<1> DEFINE s == SubSeq(r, 1, n)
<1>1. /\ r \in Seq(Subs) /\ s \in Seq(Subs) /\ Len(s) = n /\ \A i \in 1 .. n : s[i] = r[i]
      /\ n \in Nat /\ Len(r) \in Nat /\ DOMAIN r = 1 .. Len(r) /\ DOMAIN s = 1 .. n
  BY DEF Ways
<1>2. \A i \in 1 .. Len(r) : t[r[i]] = IF i = 1 THEN "top" ELSE r[i - 1]
  BY <1>1 DEF Ways, Tree!Leads
<1> HIDE DEF s
<1>3. s = <<>> <=> n = 0
  BY <1>1
<1>4. \A i \in 1 .. n : t[s[i]] = IF i = 1 THEN "top" ELSE s[i - 1]
  BY <1>1, <1>2
<1>5. Tree!Named(s) = IF n = 0 THEN "top" ELSE r[n]
  BY <1>1, <1>3 DEF Tree!Named
<1>6. Line(s) \subseteq Line(r)
  BY <1>1 DEF Line
<1>7. s \in Ways(t)
  BY <1>1, <1>4 DEF Ways, Tree!Leads
<1> QED
  BY <1>1, <1>5, <1>6, <1>7 DEF s

\* A way is told by where it ends: a package is in one other.
LEMMA WayIsOne ==
    ASSUME NEW t \in Trees, NEW r \in Ways(t), NEW s \in Ways(t), Tree!Named(r) = Tree!Named(s)
    PROVE  r = s
<1> DEFINE T == {n \in Nat : \A x, y \in Ways(t) : Len(x) = n /\ Tree!Named(x) = Tree!Named(y) => x = y}
<1>1. ASSUME NEW x \in Ways(t)
      PROVE  /\ x \in Seq(Subs) /\ Len(x) \in Nat /\ (Len(x) = 0 <=> x = <<>>)
             /\ Tree!Named(x) = IF Len(x) = 0 THEN "top" ELSE x[Len(x)]
             /\ Len(x) # 0 => x[Len(x)] \in Subs
             /\ \A i \in 1 .. Len(x) : t[x[i]] = IF i = 1 THEN "top" ELSE x[i - 1]
  <2>1. x \in Seq(Subs) /\ Tree!Leads(t, x)
    BY DEF Ways
  <2> QED
    BY <2>1 DEF Tree!Named, Tree!Leads
<1>2. 0 \in T
  BY <1>1, NamesDiffer
<1>3. ASSUME NEW n \in T PROVE n + 1 \in T
  <2> SUFFICES ASSUME NEW x \in Ways(t), NEW y \in Ways(t), Len(x) = n + 1, Tree!Named(x) = Tree!Named(y)
               PROVE  x = y
    OBVIOUS
  <2> DEFINE m == Len(y) - 1
             x0 == SubSeq(x, 1, n)
             y0 == SubSeq(y, 1, m)
  <2>1. n \in Nat /\ Tree!Named(x) = x[n + 1] /\ x[n + 1] \in Subs
    BY <1>1
  <2>2. Len(y) # 0 /\ Len(y) \in Nat /\ Tree!Named(y) = y[Len(y)]
    <3>1. Tree!Named(y) \in Subs
      BY <2>1
    <3>2. Len(y) # 0
      BY <1>1, <3>1, NamesDiffer
    <3> QED
      BY <1>1, <3>2
  <2>3. m \in 0 .. Len(y) /\ n \in 0 .. Len(x) /\ Len(y) = m + 1 /\ m \in Nat
    BY <2>1, <2>2
  <2> HIDE DEF m
  <2>4. /\ x0 \in Ways(t) /\ Len(x0) = n /\ Tree!Named(x0) = (IF n = 0 THEN "top" ELSE x[n])
        /\ \A i \in 1 .. n : x0[i] = x[i]
    BY <2>3, WayParts
  <2>5. /\ y0 \in Ways(t) /\ Len(y0) = m /\ Tree!Named(y0) = (IF m = 0 THEN "top" ELSE y[m])
        /\ \A i \in 1 .. m : y0[i] = y[i]
    BY <2>3, WayParts
  <2> HIDE DEF x0, y0
  <2>6. x[n + 1] = y[m + 1]
    BY <2>1, <2>2, <2>3
  <2>7. t[x[n + 1]] = (IF n = 0 THEN "top" ELSE x[n])
    <3>1. n + 1 \in 1 .. Len(x) /\ (n + 1 = 1 <=> n = 0) /\ (n + 1) - 1 = n
      BY <2>1
    <3> QED
      BY <1>1, <3>1
  <2>8. t[y[m + 1]] = (IF m = 0 THEN "top" ELSE y[m])
    <3>1. m + 1 \in 1 .. Len(y) /\ (m + 1 = 1 <=> m = 0) /\ (m + 1) - 1 = m
      BY <2>3
    <3> QED
      BY <1>1, <3>1
  <2>9. x0 = y0
    <3>1. Tree!Named(x0) = Tree!Named(y0)
      BY <2>4, <2>5, <2>6, <2>7, <2>8
    <3> QED
      BY <2>4, <2>5, <3>1
  <2>10. n = m
    BY <2>4, <2>5, <2>9
  <2>11. ASSUME NEW i \in 1 .. Len(x) PROVE x[i] = y[i]
    <3>1. CASE i \in 1 .. n
      BY <2>4, <2>5, <2>9, <2>10, <3>1
    <3>2. CASE i = n + 1
      BY <2>6, <2>10, <3>2
    <3> QED
      BY <2>1, <3>1, <3>2
  <2>12. x \in Seq(Subs) /\ y \in Seq(Subs) /\ Len(x) = Len(y)
    BY <1>1, <2>3, <2>10
  <2> QED
    BY <2>11, <2>12, SameSeq
<1>4. T = Nat
  <2> HIDE DEF T
  <2>1. T \in SUBSET Nat
    BY DEF T
  <2> QED
    BY <1>2, <1>3, <2>1, Induction
<1>5. Len(r) \in T
  BY <1>1, <1>4
<1> QED
  BY <1>5

\* No package is twice on a way.
LEMMA WayOnce ==
    ASSUME NEW t \in Trees, NEW r \in Ways(t), NEW i \in 1 .. Len(r), NEW j \in 1 .. Len(r), r[i] = r[j]
    PROVE  i = j
<1>1. Len(r) \in Nat
  BY DEF Ways
<1>2. i \in 0 .. Len(r) /\ j \in 0 .. Len(r) /\ i # 0 /\ j # 0
  BY <1>1
<1> DEFINE x == SubSeq(r, 1, i)
           y == SubSeq(r, 1, j)
<1>3. x \in Ways(t) /\ Len(x) = i /\ Tree!Named(x) = r[i]
  BY <1>2, WayParts
<1>4. y \in Ways(t) /\ Len(y) = j /\ Tree!Named(y) = r[j]
  BY <1>2, WayParts
<1> HIDE DEF x, y
<1>5. x = y
  BY <1>3, <1>4, WayIsOne
<1> QED
  BY <1>3, <1>4, <1>5

\* There are ways of a bounded length only, since there are finitely many packages.
LEMMA WaysAre ==
    ASSUME NEW t \in Trees
    PROVE  \A r : r \in Ways(t) <=> r \in Tree!Paths /\ Tree!Leads(t, r)
<1> DEFINE n == Cardinality(Subs)
<1>1. n \in Nat
  BY SubsAssumption, FS_CardinalityType
<1>2. ASSUME NEW r \in Ways(t) PROVE Len(r) \in 0 .. n
  <2>1. r \in [1 .. Len(r) -> Subs] /\ Len(r) \in Nat
    BY DEF Ways
  <2>2. \A i, j \in 1 .. Len(r) : r[i] = r[j] => i = j
    BY WayOnce
  <2>3. r \in Injection(1 .. Len(r), Subs)
    BY <2>1, <2>2 DEF Injection, IsInjective
  <2>4. Cardinality(1 .. Len(r)) <= n
    BY <2>3, SubsAssumption, FS_Injection
  <2>5. Cardinality(1 .. Len(r)) = Len(r)
    <3> DEFINE m == Len(r)
    <3>1. 1 \in Int /\ m \in Int /\ m \in Nat
      BY <2>1
    <3> HIDE DEF m
    <3>2. Cardinality(1 .. m) = IF 1 > m THEN 0 ELSE m - 1 + 1
      BY <3>1, FS_Interval
    <3>3. Cardinality(1 .. m) = m
      BY <3>1, <3>2
    <3> QED
      BY <3>3 DEF m
  <2> QED
    BY <1>1, <2>1, <2>4, <2>5
<1> HIDE DEF n
<1>3. Tree!Paths = {<<>>} \cup UNION {[1 .. m -> Subs] : m \in 1 .. n}
  BY DEF Tree!Paths, n, Tree!Cardinality, Cardinality
<1>4. ASSUME NEW r \in Ways(t) PROVE r \in Tree!Paths /\ Tree!Leads(t, r)
  <2>1. r \in Seq(Subs) /\ Tree!Leads(t, r) /\ Len(r) \in Nat /\ r \in [1 .. Len(r) -> Subs]
    BY DEF Ways
  <2>2. Len(r) = 0 => r = <<>>
    BY <2>1
  <2>3. Len(r) # 0 => Len(r) \in 1 .. n
    BY <1>1, <1>2, <2>1
  <2> QED
    BY <1>3, <2>1, <2>2, <2>3
<1>5. ASSUME NEW r \in Tree!Paths, Tree!Leads(t, r) PROVE r \in Ways(t)
  <2>1. r = <<>> \/ \E m \in 1 .. n : r \in [1 .. m -> Subs]
    BY <1>3
  <2>2. ASSUME NEW m \in 1 .. n, r \in [1 .. m -> Subs] PROVE r \in Seq(Subs)
    BY <1>1, <2>2
  <2>3. <<>> \in Seq(Subs)
    OBVIOUS
  <2>4. r \in Seq(Subs)
    BY <2>1, <2>2, <2>3
  <2> QED
    BY <1>5, <2>4 DEF Ways
<1> QED
  BY <1>4, <1>5

\* A way that passes a package and ends elsewhere goes on to one that is in it.
LEMMA WayPasses ==
    ASSUME NEW t \in Trees, NEW r \in Ways(t), NEW q \in Ways(t), Tree!Named(q) \in Line(r), r # q
    PROVE  \E p \in Subs : t[p] = Tree!Named(q) /\ p \in Line(r)
<1>1. /\ r \in Seq(Subs) /\ Len(r) \in Nat /\ DOMAIN r = 1 .. Len(r)
      /\ \A i \in 1 .. Len(r) : r[i] \in Subs /\ t[r[i]] = IF i = 1 THEN "top" ELSE r[i - 1]
  BY DEF Ways, Tree!Leads
<1>2. Tree!Named(q) # Tree!Named(r)
  BY WayIsOne
<1>3. Tree!Named(r) = IF Len(r) = 0 THEN "top" ELSE r[Len(r)]
  BY <1>1 DEF Tree!Named
<1>4. CASE Tree!Named(q) = "top"
  <2>1. Len(r) # 0 /\ 1 \in 1 .. Len(r)
    BY <1>1, <1>2, <1>3, <1>4
  <2>2. t[r[1]] = "top" /\ r[1] \in Subs
    BY <1>1, <2>1
  <2>3. r[1] \in Line(r)
    BY <1>1, <2>1 DEF Line
  <2> QED
    BY <1>4, <2>2, <2>3
<1>5. CASE Tree!Named(q) # "top"
  <2>1. PICK i \in 1 .. Len(r) : Tree!Named(q) = r[i]
    BY <1>1, <1>5 DEF Line
  <2>2. i # Len(r)
    BY <1>2, <1>3, <2>1
  <2>3. i + 1 \in 1 .. Len(r) /\ i + 1 # 1 /\ (i + 1) - 1 = i
    <3>1. Len(r) \in Nat
      BY <1>1
    <3> QED
      BY <2>2, <3>1
  <2>4. t[r[i + 1]] = r[i] /\ r[i + 1] \in Subs /\ r[i + 1] \in Line(r)
    BY <1>1, <2>3 DEF Line
  <2> QED
    BY <2>1, <2>4
<1> QED
  BY <1>4, <1>5

\* It has all of the way to that package in it.
LEMMA WayThrough ==
    ASSUME NEW t \in Trees, NEW r \in Ways(t), NEW q \in Ways(t), Tree!Named(q) \in Line(r)
    PROVE  Line(q) \subseteq Line(r)
<1>1. r \in Seq(Subs) /\ Len(r) \in Nat /\ DOMAIN r = 1 .. Len(r)
  BY DEF Ways
<1>2. CASE Tree!Named(q) = "top"
  <2>1. q = <<>>
    BY <1>2, WayBegins, WayIsOne
  <2> QED
    BY <2>1, WayBegins DEF Line
<1>3. CASE Tree!Named(q) # "top"
  <2>1. PICK i \in 1 .. Len(r) : Tree!Named(q) = r[i]
    BY <1>1, <1>3 DEF Line
  <2> DEFINE s == SubSeq(r, 1, i)
  <2>2. i \in 0 .. Len(r) /\ i # 0
    BY <1>1
  <2>3. s \in Ways(t) /\ Tree!Named(s) = r[i] /\ Line(s) \subseteq Line(r)
    BY <2>2, WayParts
  <2> HIDE DEF s
  <2> QED
    BY <2>1, <2>3, WayIsOne
<1> QED
  BY <1>2, <1>3

LEMMA WayEnds ==
    ASSUME NEW t \in Trees, NEW r \in Ways(t)
    PROVE  Tree!Named(r) \in Line(r) /\ Tree!Named(r) \in Tree!Packages /\ Len(r) \in Nat
<1>1. r \in Seq(Subs) /\ Len(r) \in Nat /\ DOMAIN r = 1 .. Len(r) /\ (r = <<>> <=> Len(r) = 0)
  BY DEF Ways
<1>2. Tree!Named(r) = IF Len(r) = 0 THEN "top" ELSE r[Len(r)]
  BY <1>1 DEF Tree!Named
<1> QED
  BY <1>1, <1>2 DEF Line, Tree!Packages

\* A package that is in another is not on the way to it.
LEMMA WayBelow ==
    ASSUME NEW t \in Trees, NEW r \in Ways(t), NEW p \in Subs, t[p] = Tree!Named(r)
    PROVE  p \notin Line(r)
<1> DEFINE s == Append(r, p)
<1>1. r \in Seq(Subs) /\ Len(r) \in Nat /\ DOMAIN r = 1 .. Len(r)
  BY DEF Ways
<1>2. s \in Ways(t) /\ Len(s) = Len(r) + 1
  BY WayGoesOn
<1>3. s[Len(r) + 1] = p /\ \A i \in 1 .. Len(r) : s[i] = r[i]
  BY <1>1
<1> HIDE DEF s
<1>4. ASSUME NEW i \in 1 .. Len(r), r[i] = p PROVE FALSE
  <2>1. s[i] = s[Len(r) + 1] /\ i \in 1 .. Len(s) /\ Len(r) + 1 \in 1 .. Len(s)
    BY <1>1, <1>2, <1>3, <1>4
  <2>2. i = Len(r) + 1
    BY <1>2, <2>1, WayOnce
  <2> QED
    BY <1>1, <2>2
<1> QED
  BY <1>1, <1>4, NamesDiffer DEF Line

-----------------------------------------------------------------------------
\* Sorting keeps what is sorted and puts the deepest first.
LEMMA DeepestFirst ==
    ASSUME NEW n \in Nat, NEW s, DOMAIN s = 1 .. n, \A i \in 1 .. n : s[i][1] \in Nat
    PROVE  \E at \in [1 .. n -> 1 .. n] :
              /\ Tree!Deepest(s) = [k \in 1 .. n |-> s[at[k]]]
              /\ \A i \in 1 .. n : \E k \in 1 .. n : at[k] = i
              /\ \A j, k \in 1 .. n : at[j] = at[k] => j = k
              /\ \A j, k \in 1 .. n : j < k => s[at[j]][1] >= s[at[k]][1]
<1> DEFINE N == 1 .. n
           B(i) == Tree!Before(s, i)
           to == [i \in N |-> Cardinality(B(i))]
           at == [k \in N |-> CHOOSE i \in DOMAIN s : Cardinality(Tree!Before(s, i)) = k]
           ahead(i, j) == s[j][1] > s[i][1] \/ (s[j][1] = s[i][1] /\ j <= i)
<1>1. IsFiniteSet(N) /\ \A i \in N : i \in Nat
  BY FS_Interval
<1>2. ASSUME NEW i \in N PROVE B(i) = {j \in N : ahead(i, j)} /\ B(i) \subseteq N /\ i \in B(i)
  BY <1>1 DEF Tree!Before
<1>3. Cardinality(N) = n
  <2>1. 1 \in Int /\ n \in Int
    OBVIOUS
  <2>2. Cardinality(1 .. n) = IF 1 > n THEN 0 ELSE n - 1 + 1
    BY <2>1, FS_Interval
  <2> QED
    BY <2>2
<1> HIDE DEF B
<1>4. ASSUME NEW i \in N, NEW j \in N, ahead(i, j), i # j PROVE to[j] < to[i]
  <2>1. B(j) \subseteq B(i)
    <3>1. ASSUME NEW k \in N, ahead(j, k) PROVE ahead(i, k)
      BY <1>1, <1>4, <3>1
    <3> QED
      BY <1>2, <3>1
  <2>2. i \notin B(j)
    <3>1. ~ahead(j, i)
      BY <1>1, <1>4
    <3> QED
      BY <1>2, <3>1
  <2>3. B(j) # B(i)
    BY <1>2, <2>2
  <2>4. IsFiniteSet(B(i)) /\ IsFiniteSet(B(j))
    BY <1>1, <1>2, FS_Subset
  <2>5. Cardinality(B(j)) <= Cardinality(B(i)) /\ Cardinality(B(j)) # Cardinality(B(i))
    BY <2>1, <2>3, <2>4, FS_Subset
  <2>6. Cardinality(B(j)) \in Nat /\ Cardinality(B(i)) \in Nat
    BY <2>4, FS_CardinalityType
  <2> QED
    BY <2>5, <2>6
<1>5. ASSUME NEW i \in N PROVE to[i] \in N
  <2>1. IsFiniteSet(B(i)) /\ Cardinality(B(i)) <= n
    BY <1>1, <1>2, <1>3, FS_Subset
  <2>2. Cardinality(B(i)) \in Nat /\ Cardinality(B(i)) # 0
    BY <1>2, <2>1, FS_CardinalityType, FS_EmptySet
  <2> QED
    BY <2>1, <2>2
<1>6. ASSUME NEW i \in N, NEW j \in N PROVE ahead(i, j) \/ ahead(j, i)
  BY <1>1
<1>7. ASSUME NEW i \in N, NEW j \in N, to[i] = to[j] PROVE i = j
  <2>1. to[i] \in N /\ to[j] \in N
    BY <1>5
  <2>2. ~(to[i] < to[j]) /\ ~(to[j] < to[i])
    BY <1>7, <2>1
  <2> QED
    BY <1>4, <1>6, <2>2
<1>8. to \in [N -> N]
  BY <1>5
<1> HIDE DEF to, ahead
<1>9. \A k \in N : \E i \in N : to[i] = k
  <2>1. to \in Injection(N, N)
    BY <1>7, <1>8 DEF Injection, IsInjective
  <2>2. to \in Surjection(N, N)
    BY <1>1, <2>1, FS_Injection
  <2> QED
    BY <2>2 DEF Surjection
<1>10. \A k \in N : at[k] \in N /\ to[at[k]] = k
  <2> SUFFICES ASSUME NEW k \in N PROVE at[k] \in N /\ to[at[k]] = k
    OBVIOUS
  <2>1. \E i \in DOMAIN s : Cardinality(Tree!Before(s, i)) = k
    BY <1>9 DEF to, B
  <2>2. at[k] \in DOMAIN s /\ Cardinality(Tree!Before(s, at[k])) = k
    BY <2>1
  <2> HIDE DEF at
  <2> QED
    BY <2>2 DEF to, B
<1>11. at \in [N -> N]
  BY <1>10
<1>12. Tree!Deepest(s) = [k \in N |-> s[at[k]]]
  BY DEF Tree!Deepest, Tree!Cardinality, Cardinality
<1> HIDE DEF at
<1>13. \A i \in N : at[to[i]] = i /\ to[i] \in N
  BY <1>5, <1>7, <1>10
<1>14. ASSUME NEW j \in N, NEW k \in N, j < k PROVE s[at[j]][1] >= s[at[k]][1]
  <2>1. at[j] \in N /\ at[k] \in N /\ to[at[j]] = j /\ to[at[k]] = k
    BY <1>10
  <2>2. ~(k < j) /\ j # k
    BY <1>1, <1>14
  <2>3. ahead(at[k], at[j])
    BY <1>4, <1>6, <2>1, <2>2
  <2> QED
    BY <1>1, <2>1, <2>3 DEF ahead
<1>15. \A j, k \in N : at[j] = at[k] => j = k
  BY <1>10
<1>16. \A i \in N : \E k \in N : at[k] = i
  BY <1>13
<1> QED
  BY <1>11, <1>12, <1>14, <1>15, <1>16

-----------------------------------------------------------------------------
(* The walk, and what it has found. *)
TreeActors == [cmd: Tree!Commands, pc: {"packages", "objects", "visit", "deleteObject", "deletePackage",
                                   "deleteTop", "request", "done"},
               queue: Seq(Seq(Subs)), path: Seq(Subs), here: Seq(Tree!Objects),
               listed: SUBSET (Tree!Objects \X Seq(Subs)), found: Seq(Nat \X Subs), files: {actor.files},
               exit: {"none", "ok", "error"}]
TreeServers == [Subs \cup Tree!Objects \cup {"top"} -> Tree!Homes]
TreeHistories == [began: Trees, calm: BOOLEAN, errors: BOOLEAN, undone: SUBSET (Tree!Parts \X Tree!Objects)]
Walking == actor.pc \in {"packages", "objects", "visit"}
DeletesAll == actor.cmd.do = "delete" /\ actor.cmd.recursive

TreeTypes ==
    /\ actor \in TreeActors /\ place \in TreeServers /\ history \in TreeHistories
    /\ actor.pc = "packages" => actor.queue # <<>>
    /\ actor.pc = "done" <=> actor.exit # "none"
    /\ actor.pc = "visit" => actor.cmd.do = "checkout"
    /\ actor.pc = "request" => actor.cmd.do \in {"check", "activate"}
    /\ actor.pc \in {"deleteObject", "deletePackage"} => DeletesAll
    /\ actor.pc = "deleteTop" => actor.cmd.do = "delete"
    /\ Walking /\ actor.cmd.do = "delete" => actor.cmd.recursive

\* The top is deleted when nothing is in it, and then nothing gets there.
TreeTop ==
    /\ place["top"] = Tree!Gone => \A x \in DOMAIN place : place[x] # "top"
    /\ actor.cmd.do = "delete" /\ actor.exit = "ok" => place["top"] = Tree!Gone

\* All that was listed has its files, except what is left of the package at hand.
FiledIn(files, undone, l) ==
    /\ <<l[2], Tree!Sources(l[1]), l[1]>> \in files \/ <<"source", l[1]>> \in undone
    /\ \/ <<"attributes", l[1]>> \in undone
       \/ \E q \in Tree!Objects : Tree!Attributes(q) = Tree!Attributes(l[1]) /\ <<l[2], Tree!Attributes(q), q>> \in files
Filed(l) == FiledIn(actor.files, history.undone, l)
Left(l) == actor.pc = "visit" /\ l[2] = actor.path /\ \E i \in DOMAIN actor.here : actor.here[i] = l[1]
TreeFiles == actor.cmd.do = "checkout" /\ actor.exit # "error" =>
                 \A l \in actor.listed : l[1] # "other" => Left(l) \/ Filed(l)

\* Some package on the way is still in the queue.
Pending(queue, r) == \E k \in DOMAIN queue : Tree!Named(queue[k]) \in Line(r)
At(r) == actor.pc = "objects" /\ actor.path = r

Right(t, listed) == \A l \in listed : l[2] \in Ways(t) /\ t[l[1]] = Tree!Named(l[2])
Full(t, queue, listed) == \A r \in Ways(t), o \in Tree!Objects :
    t[o] = Tree!Named(r) /\ ~Pending(queue, r) => <<o, r>> \in listed
Everything(t, listed) == \A r \in Ways(t), o \in Tree!Objects : t[o] = Tree!Named(r) => <<o, r>> \in listed

\* No package of the queue is in another one of the queue.
Apart(t, queue) ==
    /\ \A k \in DOMAIN queue : queue[k] \in Ways(t)
    /\ \A j, k \in DOMAIN queue : j # k => Tree!Named(queue[j]) \notin Line(queue[k])

\* Each package in one whose way has nothing pending was found, and once.
FoundOnce(found) == \A j, k \in DOMAIN found : found[j][2] = found[k][2] => j = k
FoundBy(t, queue, found) ==
    /\ \A k \in DOMAIN found : \E r \in Ways(t) :
           ~Pending(queue, r) /\ found[k][1] = Len(r) + 1 /\ t[found[k][2]] = Tree!Named(r)
    /\ FoundOnce(found)
    /\ \A r \in Ways(t), p \in Subs :
           t[p] = Tree!Named(r) /\ ~Pending(queue, r) =>
               \E k \in DOMAIN found : found[k] = <<Len(r) + 1, p>>

QueueInv ==
    /\ place = history.began /\ Apart(history.began, actor.queue)
    /\ actor.pc # "packages" => actor.path \in Ways(history.began) /\ ~Pending(actor.queue, actor.path)
ListedInv ==
    /\ Right(history.began, actor.listed)
    /\ \A r \in Ways(history.began), o \in Tree!Objects :
           history.began[o] = Tree!Named(r) /\ ~Pending(actor.queue, r) => <<o, r>> \in actor.listed \/ At(r)
FoundInv == FoundBy(history.began, actor.queue, actor.found)
WalkInv == history.calm /\ actor.cmd.recursive /\ Walking => QueueInv /\ ListedInv /\ FoundInv

\* What is left to delete is where it was, the rest is gone, the deepest first.
Deleting == actor.pc \in {"deleteObject", "deletePackage", "deleteTop"}
PlacesInv ==
    /\ \A x \in DOMAIN place : place[x] \in {history.began[x], Tree!Gone}
    /\ place["top"] = history.began["top"]
ObjectsInv ==
    /\ Right(history.began, actor.listed)
    /\ \A l \in actor.listed : place[l[1]] = history.began[l[1]]
    /\ \A r \in Ways(history.began), o \in Tree!Objects :
           history.began[o] = Tree!Named(r) => <<o, r>> \in actor.listed \/ place[o] = Tree!Gone
    /\ actor.pc # "deleteObject" => actor.listed = {}
Known(t, found) == \A k \in DOMAIN found : \E r \in Ways(t) :
                       found[k][1] = Len(r) + 1 /\ t[found[k][2]] = Tree!Named(r)
Falling(found) == \A j, k \in DOMAIN found : j < k => found[j][1] >= found[k][1]
Kept(t, now, found) == \A r \in Ways(t), p \in Subs :
    t[p] = Tree!Named(r) => now[p] = Tree!Gone \/ \E k \in DOMAIN found : found[k] = <<Len(r) + 1, p>>
PackagesInv ==
    /\ Known(history.began, actor.found)
    /\ \A k \in DOMAIN actor.found : place[actor.found[k][2]] = history.began[actor.found[k][2]]
    /\ FoundOnce(actor.found) /\ Falling(actor.found) /\ Kept(history.began, place, actor.found)
    /\ actor.pc = "deleteTop" => actor.found = <<>>
DeleteInv == history.calm /\ DeletesAll /\ Deleting => PlacesInv /\ ObjectsInv /\ PackagesInv

Deleted == \A r \in Ways(history.began), o \in Tree!Objects : history.began[o] = Tree!Named(r) => place[o] = Tree!Gone
EndInv ==
    history.calm =>
        /\ actor.cmd.do = "delete" /\ ~actor.cmd.recursive /\ actor.pc = "deleteTop" => place = history.began
        /\ actor.cmd.do # "delete" /\ actor.cmd.recursive /\ actor.pc \in {"request", "done"} =>
              Right(history.began, actor.listed) /\ Everything(history.began, actor.listed)
        /\ DeletesAll => actor.exit # "error"
        /\ actor.cmd.do = "delete" /\ actor.exit = "ok" => Deleted

TreeInv == TreeTypes /\ TreeTop /\ TreeFiles /\ Tree!CheckedMeansNoError /\ WalkInv /\ DeleteInv /\ EndInv

LEMMA JoinIs ==
    ASSUME NEW S, NEW s \in Seq(S), NEW n \in Nat, NEW new \in [1 .. n -> S]
    PROVE  /\ s \o new \in Seq(S) /\ Len(s \o new) = Len(s) + n
           /\ \A i \in 1 .. Len(s) : (s \o new)[i] = s[i]
           /\ \A i \in 1 .. n : (s \o new)[Len(s) + i] = new[i]
<1> DEFINE both == s \o new
<1>1. new \in Seq(S) /\ Len(new) = n /\ Len(s) \in Nat
  OBVIOUS
<1>2. both \in Seq(S) /\ Len(both) = Len(s) + Len(new)
      /\ \A i \in 1 .. Len(both) : both[i] = IF i <= Len(s) THEN s[i] ELSE new[i - Len(s)]
  BY <1>1
<1> HIDE DEF both
<1>3. \A i \in 1 .. Len(s) : both[i] = s[i]
  BY <1>1, <1>2
<1>4. ASSUME NEW i \in 1 .. n PROVE both[Len(s) + i] = new[i]
  <2>1. Len(s) + i \in 1 .. Len(both) /\ ~(Len(s) + i <= Len(s)) /\ (Len(s) + i) - Len(s) = i
    BY <1>1, <1>2
  <2> QED
    BY <1>2, <2>1
<1> QED
  BY <1>1, <1>2, <1>3, <1>4 DEF both

\* The queue after the packages in its first have taken the place of that.
Goes(queue, n, subs, next) ==
    /\ Len(next) = Len(queue) - 1 + n /\ DOMAIN next = 1 .. Len(next)
    /\ \A i \in 1 .. Len(queue) - 1 : next[i] = queue[i + 1]
    /\ \A i \in 1 .. n : next[Len(queue) - 1 + i] = Append(queue[1], subs[i])

LEMMA QueueGoes ==
    ASSUME NEW queue \in Seq(Seq(Subs)), queue # <<>>, NEW n \in Nat, NEW subs \in [1 .. n -> Subs]
    PROVE  /\ Tail(queue) \o [i \in DOMAIN subs |-> Append(queue[1], subs[i])] \in Seq(Seq(Subs))
           /\ Goes(queue, n, subs, Tail(queue) \o [i \in DOMAIN subs |-> Append(queue[1], subs[i])])
<1> DEFINE S == Seq(Subs)
           tail == Tail(queue)
           kids == [i \in 1 .. n |-> Append(queue[1], subs[i])]
           next == tail \o kids
<1>1. queue[1] \in S /\ Len(queue) \in Nat
  OBVIOUS
<1>2. kids \in [1 .. n -> S]
  BY <1>1
<1>3. tail \in Seq(S) /\ Len(tail) = Len(queue) - 1 /\ \A i \in 1 .. Len(queue) - 1 : tail[i] = queue[i + 1]
  OBVIOUS
<1>4. \A i \in 1 .. n : kids[i] = Append(queue[1], subs[i])
  OBVIOUS
<1>5. DOMAIN subs = 1 .. n
  OBVIOUS
<1> HIDE DEF S, tail, kids
<1>6. /\ next \in Seq(S) /\ Len(next) = Len(tail) + n
      /\ \A i \in 1 .. Len(tail) : next[i] = tail[i]
      /\ \A i \in 1 .. n : next[Len(tail) + i] = kids[i]
  <2>1. tail \in Seq(S)
    BY <1>3
  <2> QED
    BY <1>2, <2>1, JoinIs
<1> HIDE DEF next
<1>7. DOMAIN next = 1 .. Len(next)
  BY <1>6
<1>8. Goes(queue, n, subs, next)
  BY <1>3, <1>4, <1>6, <1>7 DEF Goes
<1> QED
  BY <1>5, <1>6, <1>8 DEF S, next, tail, kids

LEMMA QueueApart ==
    ASSUME NEW t \in Trees, NEW queue \in Seq(Seq(Subs)), queue # <<>>, Apart(t, queue),
           NEW n \in Nat, NEW subs \in [1 .. n -> Subs], \A i, j \in 1 .. n : i # j => subs[i] # subs[j],
           {subs[i] : i \in 1 .. n} = {p \in Subs : t[p] = Tree!Named(queue[1])},
           NEW next, Goes(queue, n, subs, next)
    PROVE  /\ Apart(t, next)
           /\ \A r \in Ways(t) : Pending(next, r) <=> Pending(queue, r) /\ r # queue[1]
           /\ queue[1] \in Ways(t) /\ Pending(queue, queue[1])
<1> DEFINE m == Len(queue) - 1
           path == queue[1]
           Kid(i) == Append(path, subs[i])
<1>1. m \in Nat /\ Len(queue) = m + 1 /\ DOMAIN queue = 1 .. m + 1 /\ 1 \in DOMAIN queue
  OBVIOUS
<1>2. /\ DOMAIN next = 1 .. m + n
      /\ \A i \in 1 .. m : next[i] = queue[i + 1]
      /\ \A i \in 1 .. n : next[m + i] = Kid(i)
  BY <1>1 DEF Goes
<1>3. /\ \A k \in 1 .. m + 1 : queue[k] \in Ways(t)
      /\ \A j, k \in 1 .. m + 1 : j # k => Tree!Named(queue[j]) \notin Line(queue[k])
  BY <1>1 DEF Apart
<1> HIDE DEF m
<1>4. path \in Ways(t) /\ Tree!Named(path) \in Line(path)
  BY <1>1, <1>3, WayEnds
<1> HIDE DEF path
<1>5. ASSUME NEW i \in 1 .. n
      PROVE  /\ subs[i] \in Subs /\ t[subs[i]] = Tree!Named(path)
             /\ Kid(i) \in Ways(t) /\ Tree!Named(Kid(i)) = subs[i] /\ Line(Kid(i)) = Line(path) \cup {subs[i]}
             /\ subs[i] \notin Line(path)
  <2>1. subs[i] \in Subs /\ t[subs[i]] = Tree!Named(path)
    BY DEF path
  <2> QED
    BY <1>4, <2>1, WayGoesOn, WayBelow
<1> HIDE DEF Kid
<1>6. ASSUME NEW k \in 1 .. m
      PROVE  /\ next[k] \in Ways(t) /\ Tree!Named(next[k]) \notin Line(path) /\ Tree!Named(path) \notin Line(next[k])
  <2>1. k + 1 \in 1 .. m + 1 /\ 1 \in 1 .. m + 1 /\ k + 1 # 1
    BY <1>1
  <2> QED
    BY <1>2, <1>3, <2>1 DEF path
<1>7. ASSUME NEW k \in DOMAIN next PROVE k \in 1 .. m \/ \E i \in 1 .. n : k = m + i
  <2>1. k \in 1 .. m \/ k - m \in 1 .. n
    BY <1>1, <1>2
  <2>2. k = m + (k - m)
    BY <1>1, <1>2
  <2> QED
    BY <2>1, <2>2
<1>8. ASSUME NEW k \in DOMAIN next PROVE next[k] \in Ways(t)
  BY <1>2, <1>5, <1>6, <1>7
<1>9. ASSUME NEW j \in DOMAIN next, NEW k \in DOMAIN next, j # k
      PROVE  Tree!Named(next[j]) \notin Line(next[k])
  <2>1. CASE j \in 1 .. m /\ k \in 1 .. m
    <3>1. j + 1 \in 1 .. m + 1 /\ k + 1 \in 1 .. m + 1 /\ j + 1 # k + 1
      <4>1. m \in Nat
        BY <1>1
      <4> QED
        BY <1>9, <2>1, <4>1
    <3> QED
      BY <1>2, <1>3, <2>1, <3>1
  <2>2. ASSUME j \in 1 .. m, NEW i \in 1 .. n, k = m + i PROVE Tree!Named(next[j]) \notin Line(next[k])
    <3>1. next[k] = Kid(i) /\ Kid(i) \in Ways(t) /\ Tree!Named(Kid(i)) = subs[i]
          /\ Line(Kid(i)) = Line(path) \cup {subs[i]}
      BY <1>2, <1>5, <2>2
    <3>2. next[j] \in Ways(t) /\ Tree!Named(next[j]) \notin Line(path) /\ Tree!Named(path) \notin Line(next[j])
      BY <1>6, <2>2
    <3>3. Tree!Named(next[j]) # subs[i]
      <4>1. Tree!Named(path) \in Line(Kid(i))
        BY <1>4, <3>1
      <4> QED
        BY <3>1, <3>2, <4>1, WayIsOne
    <3> QED
      BY <3>1, <3>2, <3>3
  <2>3. ASSUME k \in 1 .. m, NEW i \in 1 .. n, j = m + i PROVE Tree!Named(next[j]) \notin Line(next[k])
    <3>1. next[j] = Kid(i) /\ Kid(i) \in Ways(t) /\ Line(Kid(i)) = Line(path) \cup {subs[i]}
      BY <1>2, <1>5, <2>3
    <3>2. next[k] \in Ways(t) /\ Tree!Named(path) \notin Line(next[k])
      BY <1>6, <2>3
    <3>3. ASSUME Tree!Named(Kid(i)) \in Line(next[k]) PROVE FALSE
      <4>1. Line(Kid(i)) \subseteq Line(next[k])
        BY <3>1, <3>2, <3>3, WayThrough
      <4> QED
        BY <1>4, <3>1, <3>2, <4>1
    <3> QED
      BY <3>1, <3>3
  <2>4. ASSUME NEW i \in 1 .. n, j = m + i, NEW l \in 1 .. n, k = m + l
        PROVE  Tree!Named(next[j]) \notin Line(next[k])
    <3>1. i # l
      BY <1>9, <2>4
    <3>2. subs[i] # subs[l]
      BY <3>1
    <3> QED
      BY <1>2, <1>5, <2>4, <3>2
  <2> QED
    BY <1>7, <2>1, <2>2, <2>3, <2>4
<1>10. ASSUME NEW r \in Ways(t), Pending(next, r) PROVE Pending(queue, r) /\ r # path
  <2>1. PICK k \in DOMAIN next : Tree!Named(next[k]) \in Line(r)
    BY <1>10 DEF Pending
  <2>2. CASE k \in 1 .. m
    <3>1. k + 1 \in DOMAIN queue /\ next[k] = queue[k + 1]
      BY <1>1, <1>2, <2>2
    <3> QED
      BY <1>6, <2>1, <2>2, <3>1 DEF Pending
  <2>3. ASSUME NEW i \in 1 .. n, k = m + i PROVE Pending(queue, r) /\ r # path
    <3>1. next[k] = Kid(i) /\ Kid(i) \in Ways(t) /\ Line(Kid(i)) = Line(path) \cup {subs[i]}
          /\ Tree!Named(Kid(i)) = subs[i] /\ subs[i] \notin Line(path)
      BY <1>2, <1>5, <2>3
    <3>2. Line(Kid(i)) \subseteq Line(r)
      BY <2>1, <3>1, WayThrough
    <3>3. Tree!Named(path) \in Line(r) /\ 1 \in DOMAIN queue /\ queue[1] = path
      BY <1>1, <1>4, <3>1, <3>2 DEF path
    <3> QED
      BY <2>1, <3>1, <3>3 DEF Pending
  <2> QED
    BY <1>7, <2>2, <2>3
<1>11. ASSUME NEW r \in Ways(t), Pending(queue, r), r # path PROVE Pending(next, r)
  <2>1. PICK k \in 1 .. m + 1 : Tree!Named(queue[k]) \in Line(r)
    BY <1>1, <1>11 DEF Pending
  <2>2. CASE k # 1
    <3>1. k - 1 \in 1 .. m /\ (k - 1) + 1 = k /\ k - 1 \in DOMAIN next
      BY <1>1, <1>2, <2>2
    <3>2. next[k - 1] = queue[k]
      BY <1>2, <3>1
    <3> QED
      BY <2>1, <3>1, <3>2 DEF Pending
  <2>3. CASE k = 1
    <3>1. Tree!Named(path) \in Line(r)
      BY <2>1, <2>3 DEF path
    <3>2. PICK p \in Subs : t[p] = Tree!Named(path) /\ p \in Line(r)
      BY <1>4, <1>11, <3>1, WayPasses
    <3>3. PICK i \in 1 .. n : subs[i] = p
      BY <3>2 DEF path
    <3>4. m + i \in DOMAIN next /\ Tree!Named(next[m + i]) = p
      BY <1>1, <1>2, <1>5, <3>3
    <3> QED
      BY <3>2, <3>4 DEF Pending
  <2> QED
    BY <2>2, <2>3
<1>12. Pending(queue, path)
  BY <1>1, <1>4 DEF Pending, path
<1>13. Apart(t, next)
  BY <1>8, <1>9 DEF Apart
<1> QED
  BY <1>4, <1>10, <1>11, <1>12, <1>13 DEF path


\* What was found grows by the packages in one, which is pending no longer.
Leaves(t, queue, path, next) ==
    /\ path \in Ways(t) /\ Pending(queue, path)
    /\ \A r \in Ways(t) : Pending(next, r) <=> Pending(queue, r) /\ r # path
Kids(t, path, n, subs) ==
    /\ subs \in [1 .. n -> Subs] /\ \A i, j \in 1 .. n : i # j => subs[i] # subs[j]
    /\ {subs[i] : i \in 1 .. n} = {p \in Subs : t[p] = Tree!Named(path)}
Grows(found, path, n, subs, more) ==
    /\ DOMAIN more = 1 .. Len(found) + n /\ \A i \in 1 .. Len(found) : more[i] = found[i]
    /\ \A i \in 1 .. n : more[Len(found) + i] = <<Len(path) + 1, subs[i]>>

LEMMA FoundGoes ==
    ASSUME NEW t \in Trees, NEW queue, NEW path, NEW next, Leaves(t, queue, path, next),
           NEW n \in Nat, NEW subs, Kids(t, path, n, subs),
           NEW found \in Seq(Nat \X Subs), FoundBy(t, queue, found),
           NEW more, Grows(found, path, n, subs, more)
    PROVE  FoundBy(t, next, more)
<1> USE DEF Leaves, Kids, Grows
<1> DEFINE m == Len(found)
<1>1. /\ m \in Nat /\ DOMAIN found = 1 .. m /\ DOMAIN more = 1 .. m + n
      /\ \A k \in 1 .. m : more[k] = found[k]
      /\ \A i \in 1 .. n : more[m + i] = <<Len(path) + 1, subs[i]>>
  OBVIOUS
<1> HIDE DEF m
<1>2. /\ \A k \in 1 .. m : \E r \in Ways(t) :
             ~Pending(queue, r) /\ found[k][1] = Len(r) + 1 /\ t[found[k][2]] = Tree!Named(r)
      /\ \A j, k \in 1 .. m : found[j][2] = found[k][2] => j = k
      /\ \A r \in Ways(t), p \in Subs :
             t[p] = Tree!Named(r) /\ ~Pending(queue, r) => \E k \in 1 .. m : found[k] = <<Len(r) + 1, p>>
  BY <1>1 DEF FoundBy, FoundOnce
<1>3. ASSUME NEW k \in 1 .. m + n PROVE k \in 1 .. m \/ \E i \in 1 .. n : k = m + i
  <2>1. k \in 1 .. m \/ k - m \in 1 .. n
    BY <1>1
  <2>2. k = m + (k - m)
    BY <1>1
  <2> QED
    BY <2>1, <2>2
<1>4. ASSUME NEW i \in 1 .. n
      PROVE  /\ subs[i] \in Subs /\ t[subs[i]] = Tree!Named(path)
             /\ more[m + i][1] = Len(path) + 1 /\ more[m + i][2] = subs[i]
  BY <1>1
<1>5. ASSUME NEW k \in 1 .. m + n
      PROVE  \E r \in Ways(t) : ~Pending(next, r) /\ more[k][1] = Len(r) + 1 /\ t[more[k][2]] = Tree!Named(r)
  <2>1. CASE k \in 1 .. m
    BY <1>1, <1>2, <2>1
  <2>2. ASSUME NEW i \in 1 .. n, k = m + i
        PROVE  more[k][1] = Len(path) + 1 /\ t[more[k][2]] = Tree!Named(path) /\ ~Pending(next, path)
    BY <1>4, <2>2
  <2> QED
    BY <1>3, <2>1, <2>2
<1>6. ASSUME NEW j \in 1 .. m, NEW i \in 1 .. n PROVE more[j][2] # more[m + i][2]
  <2> SUFFICES ASSUME found[j][2] = subs[i] PROVE FALSE
    BY <1>1, <1>4
  <2>1. PICK r \in Ways(t) : ~Pending(queue, r) /\ t[found[j][2]] = Tree!Named(r)
    BY <1>2
  <2>2. Tree!Named(r) = Tree!Named(path)
    BY <1>4, <2>1
  <2> QED
    BY <2>1, <2>2, WayIsOne
<1>7. ASSUME NEW j \in 1 .. m + n, NEW k \in 1 .. m + n, more[j][2] = more[k][2] PROVE j = k
  <2>1. CASE j \in 1 .. m /\ k \in 1 .. m
    BY <1>1, <1>2, <1>7, <2>1
  <2>2. CASE j \in 1 .. m /\ \E i \in 1 .. n : k = m + i
    BY <1>6, <1>7, <2>2
  <2>3. CASE k \in 1 .. m /\ \E i \in 1 .. n : j = m + i
    BY <1>6, <1>7, <2>3
  <2>4. ASSUME NEW i \in 1 .. n, j = m + i, NEW l \in 1 .. n, k = m + l PROVE j = k
    BY <1>4, <1>7, <2>4
  <2> QED
    BY <1>3, <2>1, <2>2, <2>3, <2>4
<1>8. ASSUME NEW r \in Ways(t), NEW p \in Subs, t[p] = Tree!Named(r), ~Pending(next, r)
      PROVE  \E k \in 1 .. m + n : more[k] = <<Len(r) + 1, p>>
  <2>1. CASE r # path
    <3>1. PICK k \in 1 .. m : found[k] = <<Len(r) + 1, p>>
      BY <1>2, <1>8, <2>1
    <3>2. k \in 1 .. m + n /\ more[k] = found[k]
      BY <1>1
    <3> QED
      BY <3>1, <3>2
  <2>2. CASE r = path
    <3>1. PICK i \in 1 .. n : subs[i] = p
      BY <1>8, <2>2
    <3>2. m + i \in 1 .. m + n /\ more[m + i] = <<Len(path) + 1, subs[i]>>
      BY <1>1
    <3> QED
      BY <2>2, <3>1, <3>2
  <2> QED
    BY <2>1, <2>2
<1>9. FoundOnce(more)
  BY <1>1, <1>7 DEF FoundOnce
<1>10. DOMAIN more = 1 .. m + n
  BY <1>1
<1>11. ASSUME NEW k \in DOMAIN more
       PROVE  \E r \in Ways(t) : ~Pending(next, r) /\ more[k][1] = Len(r) + 1 /\ t[more[k][2]] = Tree!Named(r)
  <2>1. k \in 1 .. m + n
    BY <1>10
  <2> QED
    BY <1>5, <2>1
<1>12. ASSUME NEW r \in Ways(t), NEW p \in Subs, t[p] = Tree!Named(r), ~Pending(next, r)
       PROVE  \E k \in DOMAIN more : more[k] = <<Len(r) + 1, p>>
  BY <1>8, <1>10, <1>12
<1> QED
  BY <1>9, <1>11, <1>12, Zenon DEF FoundBy

-----------------------------------------------------------------------------
\* A request that fails ends the command, which is not calm any more.
LEMMA TreeFails ==
    ASSUME TreeInv, actor.pc # "done", Tree!Fail
    PROVE  TreeInv'
<1>1. /\ actor' = [actor EXCEPT !.pc = "done", !.exit = "error"] /\ place' = place
      /\ history' = [history EXCEPT !.calm = FALSE]
  BY DEF Tree!Fail, Tree!Exit
<1>2. actor \in TreeActors /\ history \in TreeHistories
  BY DEF TreeInv, TreeTypes
<1>3. /\ actor'.pc = "done" /\ actor'.exit = "error" /\ actor'.cmd = actor.cmd
      /\ actor' \in TreeActors'
  BY <1>1, <1>2 DEF TreeActors
<1>4. history' \in TreeHistories /\ ~history'.calm
  BY <1>1, <1>2 DEF TreeHistories
<1>5. TreeTypes'
  BY <1>1, <1>3, <1>4 DEF TreeInv, TreeTypes, Walking, DeletesAll
<1>6. TreeTop' /\ TreeFiles' /\ Tree!CheckedMeansNoError'
  BY <1>1, <1>3 DEF TreeInv, TreeTop, TreeFiles, Tree!CheckedMeansNoError
<1> QED
  BY <1>4, <1>5, <1>6 DEF TreeInv, WalkInv, DeleteInv, EndInv

LEMMA TreeOrders ==
    ASSUME NEW S \in SUBSET (Subs \cup Tree!Objects), NEW s \in Tree!Orders(S)
    PROVE  \E n \in Nat : /\ s \in [1 .. n -> S] /\ \A i, j \in 1 .. n : i # j => s[i] # s[j]
                          /\ {s[i] : i \in 1 .. n} = S
<1> DEFINE n == Cardinality(S)
<1>1. IsFiniteSet(S)
  <2>1. IsFiniteSet(Tree!Objects)
    <3>1. IsFiniteSet({}) /\ Tree!Objects = ((({} \cup {"prog"}) \cup {"intf"}) \cup {"other"})
      BY FS_EmptySet DEF Tree!Objects
    <3>2. IsFiniteSet({} \cup {"prog"})
      BY <3>1, FS_AddElement
    <3>3. IsFiniteSet(({} \cup {"prog"}) \cup {"intf"})
      BY <3>2, FS_AddElement
    <3>4. IsFiniteSet((({} \cup {"prog"}) \cup {"intf"}) \cup {"other"})
      BY <3>3, FS_AddElement
    <3> QED
      BY <3>1, <3>4
  <2>2. IsFiniteSet(Subs \cup Tree!Objects)
    BY <2>1, SubsAssumption, FS_Union
  <2> QED
    BY <2>2, FS_Subset
<1>2. n \in Nat
  BY <1>1, FS_CardinalityType
<1>3. s \in [1 .. n -> S] /\ \A i, j \in 1 .. n : i # j => s[i] # s[j]
  BY DEF Tree!Orders, Tree!Cardinality, Cardinality
<1>4. {s[i] : i \in 1 .. n} = S
  <2> HIDE DEF n
  <2>1. s \in Injection(1 .. n, S)
    BY <1>3 DEF Injection, IsInjective
  <2>2. Cardinality(1 .. n) = n
    <3>1. 1 \in Int /\ n \in Int
      BY <1>2
    <3>2. Cardinality(1 .. n) = IF 1 > n THEN 0 ELSE n - 1 + 1
      BY <3>1, FS_Interval
    <3> QED
      BY <1>2, <3>2
  <2>3. s \in Surjection(1 .. n, S)
    BY <1>1, <2>1, <2>2, FS_Injection DEF n
  <2> QED
    BY <1>3, <2>3 DEF Surjection
<1> QED
  BY <1>2, <1>3, <1>4


\* The packages in the first of the queue are put to its end.
LEMMA TreePackages ==
    ASSUME TreeInv, Tree!WalkPackages
    PROVE  TreeInv'
<1> DEFINE path == actor.queue[1]
           t == history.began
<1>1. /\ actor \in TreeActors /\ place \in TreeServers /\ history \in TreeHistories
      /\ actor.pc = "packages" /\ actor.queue # <<>> /\ actor.exit = "none" /\ Walking
      /\ actor.cmd.do = "delete" => actor.cmd.recursive
  BY DEF TreeInv, TreeTypes, Tree!WalkPackages, Walking
<1>2. /\ actor.queue \in Seq(Seq(Subs)) /\ path \in Seq(Subs) /\ actor.found \in Seq(Nat \X Subs)
      /\ t \in Trees /\ Len(path) \in Nat
  BY <1>1 DEF TreeActors, TreeHistories
<1> SUFFICES ASSUME NEW subs \in Tree!Orders({p \in Subs : place[p] = Tree!Named(path)}),
                    actor' = [actor EXCEPT !.pc = "objects", !.path = path,
                                 !.queue = Tail(@) \o [i \in DOMAIN subs |-> Append(path, subs[i])],
                                 !.found = @ \o [i \in DOMAIN subs |-> <<Len(path) + 1, subs[i]>>]],
                    UNCHANGED <<place, history>>
             PROVE  TreeInv'
  <2>1. actor.pc # "done"
    BY <1>1
  <2>2. ASSUME Tree!Fail PROVE TreeInv'
    BY <2>1, <2>2, TreeFails
  <2> QED
    BY <2>2 DEF Tree!WalkPackages
<1> HIDE DEF path
<1>3. PICK n \in Nat : /\ subs \in [1 .. n -> {p \in Subs : place[p] = Tree!Named(path)}]
                       /\ \A i, j \in 1 .. n : i # j => subs[i] # subs[j]
                       /\ {subs[i] : i \in 1 .. n} = {p \in Subs : place[p] = Tree!Named(path)}
  <2>1. {p \in Subs : place[p] = Tree!Named(path)} \in SUBSET (Subs \cup Tree!Objects)
    OBVIOUS
  <2> QED
    BY <2>1, TreeOrders
<1> DEFINE next == Tail(actor.queue) \o [i \in DOMAIN subs |-> Append(path, subs[i])]
           new == [i \in 1 .. n |-> <<Len(path) + 1, subs[i]>>]
           more == actor.found \o new
<1>4. next \in Seq(Seq(Subs)) /\ Goes(actor.queue, n, subs, next) /\ subs \in [1 .. n -> Subs]
  <2>1. subs \in [1 .. n -> Subs]
    BY <1>3
  <2> QED
    BY <1>1, <1>2, <2>1, QueueGoes DEF path
<1>5. /\ more \in Seq(Nat \X Subs) /\ DOMAIN more = 1 .. Len(actor.found) + n
      /\ \A i \in 1 .. Len(actor.found) : more[i] = actor.found[i]
      /\ \A i \in 1 .. n : more[Len(actor.found) + i] = <<Len(path) + 1, subs[i]>>
  <2>1. new \in [1 .. n -> Nat \X Subs] /\ \A i \in 1 .. n : new[i] = <<Len(path) + 1, subs[i]>>
    BY <1>2, <1>4
  <2> HIDE DEF new
  <2>2. /\ more \in Seq(Nat \X Subs) /\ Len(more) = Len(actor.found) + n
        /\ \A i \in 1 .. Len(actor.found) : more[i] = actor.found[i]
        /\ \A i \in 1 .. n : more[Len(actor.found) + i] = new[i]
    <3> DEFINE S == Nat \X Subs
               found == actor.found
    <3>1. found \in Seq(S)
      BY <1>2
    <3>2. new \in [1 .. n -> S]
      BY <2>1
    <3> HIDE DEF S, found
    <3>3. /\ found \o new \in Seq(S) /\ Len(found \o new) = Len(found) + n
          /\ \A i \in 1 .. Len(found) : (found \o new)[i] = found[i]
          /\ \A i \in 1 .. n : (found \o new)[Len(found) + i] = new[i]
      BY <3>1, <3>2, JoinIs
    <3> QED
      BY <3>3 DEF S, found
  <2> HIDE DEF more
  <2>3. DOMAIN more = 1 .. Len(more)
    BY <2>2
  <2> QED
    BY <2>1, <2>2, <2>3
<1>6. actor' = [actor EXCEPT !.pc = "objects", !.path = path, !.queue = next, !.found = more]
  <2>1. DOMAIN subs = 1 .. n
    BY <1>3
  <2> QED
    BY <2>1
<1> HIDE DEF next, more, new
<1>7. /\ actor' \in TreeActors' /\ actor'.pc = "objects" /\ actor'.path = path /\ actor'.queue = next
      /\ actor'.found = more /\ actor'.cmd = actor.cmd /\ actor'.exit = "none"
      /\ actor'.listed = actor.listed /\ actor'.files = actor.files
  BY <1>1, <1>2, <1>4, <1>5, <1>6 DEF TreeActors
<1>8. TreeTypes'
  BY <1>1, <1>7 DEF TreeTypes, Walking, DeletesAll
<1>9. TreeTop' /\ Tree!CheckedMeansNoError'
  BY <1>7 DEF TreeInv, TreeTop, Tree!CheckedMeansNoError
<1>10. TreeFiles'
  <2>1. TreeFiles /\ \A l : ~Left(l)
    BY <1>1 DEF TreeInv, Left
  <2>2. \A l \in actor.listed : Filed(l) => Filed(l)'
    BY <1>7 DEF Filed, FiledIn
  <2> QED
    BY <1>1, <1>7, <2>1, <2>2 DEF TreeFiles
<1>11. WalkInv'
  <2> SUFFICES ASSUME history.calm, actor.cmd.recursive
               PROVE  QueueInv' /\ ListedInv' /\ FoundInv'
    BY <1>7 DEF WalkInv
  <2>1. QueueInv /\ ListedInv /\ FoundInv
    BY <1>1 DEF TreeInv, WalkInv
  <2>2. place = t /\ Apart(t, actor.queue)
    BY <2>1 DEF QueueInv
  <2>3. /\ Apart(t, next) /\ path \in Ways(t) /\ Pending(actor.queue, path)
        /\ \A r \in Ways(t) : Pending(next, r) <=> Pending(actor.queue, r) /\ r # path
    <3>1. {subs[i] : i \in 1 .. n} = {p \in Subs : t[p] = Tree!Named(actor.queue[1])}
      BY <1>3, <2>2 DEF path
    <3> QED
      BY <1>1, <1>2, <1>3, <1>4, <2>2, <3>1, QueueApart DEF path
  <2>4. QueueInv'
    BY <1>7, <2>2, <2>3 DEF QueueInv
  <2>5. ListedInv'
    <3>1. \A r \in Ways(t), o \in Tree!Objects :
             t[o] = Tree!Named(r) /\ ~Pending(actor.queue, r) => <<o, r>> \in actor.listed
      BY <1>1, <2>1 DEF ListedInv, At
    <3> QED
      BY <1>7, <2>1, <2>3, <3>1 DEF ListedInv, Right, At
  <2>6. FoundBy(t, next, more)
    <3>1. {subs[i] : i \in 1 .. n} = {p \in Subs : t[p] = Tree!Named(path)}
      BY <1>3, <2>2
    <3>2. FoundBy(t, actor.queue, actor.found)
      BY <2>1 DEF FoundInv
    <3> DEFINE queue == actor.queue
               found == actor.found
    <3>3. t \in Trees /\ found \in Seq(Nat \X Subs) /\ FoundBy(t, queue, found)
      BY <1>2, <3>2
    <3>4. Leaves(t, queue, path, next)
      BY <2>3 DEF Leaves
    <3>5. Kids(t, path, n, subs)
      BY <1>3, <1>4, <3>1 DEF Kids
    <3>6. Grows(found, path, n, subs, more)
      BY <1>5 DEF Grows
    <3> HIDE DEF t, queue, found
    <3> QED
      BY <3>3, <3>4, <3>5, <3>6, FoundGoes
  <2>7. FoundInv'
    BY <1>7, <2>6 DEF FoundInv
  <2> QED
    BY <2>4, <2>5, <2>7
<1>12. DeleteInv' /\ EndInv'
  BY <1>7 DEF DeleteInv, Deleting, EndInv
<1> QED
  BY <1>8, <1>9, <1>10, <1>11, <1>12 DEF TreeInv


LEMMA DeepestIs ==
    ASSUME NEW found \in Seq(Nat \X Subs)
    PROVE  Tree!Deepest(found) \in Seq(Nat \X Subs)
<1> DEFINE n == Len(found)
           N == 1 .. n
           deep == Tree!Deepest(found)
<1>1. n \in Nat /\ DOMAIN found = N /\ \A i \in N : found[i] \in Nat \X Subs /\ found[i][1] \in Nat
  OBVIOUS
<1> HIDE DEF n
<1>2. PICK at \in [1 .. n -> 1 .. n] :
              /\ Tree!Deepest(found) = [k \in 1 .. n |-> found[at[k]]]
              /\ \A i \in 1 .. n : \E k \in 1 .. n : at[k] = i
              /\ \A j, k \in 1 .. n : at[j] = at[k] => j = k
              /\ \A j, k \in 1 .. n : j < k => found[at[j]][1] >= found[at[k]][1]
  BY <1>1, DeepestFirst
<1> HIDE DEF deep, N
<1>3. deep \in [N -> Nat \X Subs]
  BY <1>1, <1>2 DEF N, deep
<1> QED
  BY <1>1, <1>3 DEF N, deep

\* When nothing is pending, all that was found is kept by sorting it.
LEMMA FoundSorted ==
    ASSUME NEW t \in Trees, NEW now \in TreeServers, NEW found \in Seq(Nat \X Subs), FoundBy(t, <<>>, found)
    PROVE  /\ Known(t, Tree!Deepest(found))
           /\ FoundOnce(Tree!Deepest(found)) /\ Falling(Tree!Deepest(found)) /\ Kept(t, now, Tree!Deepest(found))
<1> DEFINE n == Len(found)
           N == 1 .. n
           deep == Tree!Deepest(found)
<1>1. /\ n \in Nat /\ DOMAIN found = N /\ \A i \in N : found[i] \in Nat \X Subs
      /\ \A i \in N : found[i][1] \in Nat /\ i \in Nat
  OBVIOUS
<1>2. \A r : ~Pending(<<>>, r)
  BY DEF Pending
<1>3. /\ \A k \in N : \E r \in Ways(t) : found[k][1] = Len(r) + 1 /\ t[found[k][2]] = Tree!Named(r)
      /\ \A j, k \in N : found[j][2] = found[k][2] => j = k
      /\ \A r \in Ways(t), p \in Subs : t[p] = Tree!Named(r) => \E k \in N : found[k] = <<Len(r) + 1, p>>
  BY <1>1, <1>2 DEF FoundBy, FoundOnce
<1> HIDE DEF n
<1>4. PICK at \in [1 .. n -> 1 .. n] :
              /\ Tree!Deepest(found) = [k \in 1 .. n |-> found[at[k]]]
              /\ \A i \in 1 .. n : \E k \in 1 .. n : at[k] = i
              /\ \A j, k \in 1 .. n : at[j] = at[k] => j = k
              /\ \A j, k \in 1 .. n : j < k => found[at[j]][1] >= found[at[k]][1]
  BY <1>1, DeepestFirst
<1>5. /\ DOMAIN deep = N /\ \A k \in N : at[k] \in N /\ deep[k] = found[at[k]]
      /\ deep = [k \in N |-> found[at[k]]]
  BY <1>4
<1> HIDE DEF deep, N
<1>8. Known(t, deep)
  <2>1. ASSUME NEW k \in N
        PROVE  \E r \in Ways(t) : deep[k][1] = Len(r) + 1 /\ t[deep[k][2]] = Tree!Named(r)
    <3>1. at[k] \in N /\ deep[k] = found[at[k]]
      BY <1>5
    <3>2. PICK r \in Ways(t) : found[at[k]][1] = Len(r) + 1 /\ t[found[at[k]][2]] = Tree!Named(r)
      BY <1>3, <3>1
    <3> QED
      BY <3>1, <3>2
  <2> QED
    BY <1>5, <2>1 DEF Known
<1>9. FoundOnce(deep)
  <2>1. \A j, k \in N : at[j] = at[k] => j = k
    BY <1>4 DEF N
  <2>2. ASSUME NEW j \in N, NEW k \in N, deep[j][2] = deep[k][2] PROVE j = k
    <3>1. at[j] \in N /\ at[k] \in N /\ deep[j] = found[at[j]] /\ deep[k] = found[at[k]]
      BY <1>5
    <3>2. at[j] = at[k]
      BY <1>3, <2>2, <3>1
    <3> QED
      BY <2>1, <3>2
  <2> QED
    BY <1>5, <2>2 DEF FoundOnce
<1>10. Falling(deep)
  <2> SUFFICES ASSUME NEW j \in N, NEW k \in N, j < k PROVE deep[j][1] >= deep[k][1]
    BY <1>5 DEF Falling
  <2>1. found[at[j]][1] >= found[at[k]][1]
    BY <1>4 DEF N
  <2> QED
    BY <1>5, <2>1
<1>11. ASSUME NEW r \in Ways(t), NEW p \in Subs, t[p] = Tree!Named(r)
       PROVE  \E k \in N : deep[k] = <<Len(r) + 1, p>>
  <2>1. PICK i \in N : found[i] = <<Len(r) + 1, p>>
    BY <1>3, <1>11
  <2>2. PICK k \in N : at[k] = i
    BY <1>4 DEF N
  <2> QED
    BY <1>5, <2>1, <2>2
<1>12. Kept(t, now, deep)
  BY <1>5, <1>11 DEF Kept
<1> QED
  BY <1>8, <1>9, <1>10, <1>12 DEF deep

\* After a package, with what is listed and written by then.
LEMMA TreeWalked ==
    ASSUME TreeInv, actor.pc \in {"objects", "visit"}, UNCHANGED <<place, history>>,
           NEW listed \in SUBSET (Tree!Objects \X Seq(Subs)), NEW files,
           actor' = Tree!Walked([actor EXCEPT !.listed = listed, !.files = files]),
           actor.cmd.do = "checkout" => \A l \in listed : l[1] # "other" => FiledIn(files, history.undone, l),
           history.calm /\ actor.cmd.recursive =>
               Right(history.began, listed) /\ Full(history.began, actor.queue, listed)
    PROVE  TreeInv'
<1> DEFINE c == [actor EXCEPT !.listed = listed, !.files = files]
           t == history.began
<1>1. /\ actor \in TreeActors /\ place \in TreeServers /\ history \in TreeHistories
      /\ actor.exit = "none" /\ Walking /\ actor.pc # "done"
      /\ actor.cmd.do = "delete" => actor.cmd.recursive
  BY DEF TreeInv, TreeTypes, Walking
<1>2. /\ actor.queue \in Seq(Seq(Subs)) /\ actor.found \in Seq(Nat \X Subs) /\ t \in Trees
      /\ actor.cmd \in Tree!Commands
  BY <1>1 DEF TreeActors, TreeHistories
<1>3. /\ c.cmd = actor.cmd /\ c.queue = actor.queue /\ c.path = actor.path /\ c.found = actor.found
      /\ c.listed = listed /\ c.files = files /\ c.exit = "none"
      /\ c \in [cmd: Tree!Commands, pc: {"packages", "objects", "visit", "deleteObject", "deletePackage",
                                   "deleteTop", "request", "done"},
               queue: Seq(Seq(Subs)), path: Seq(Subs), here: Seq(Tree!Objects),
               listed: SUBSET (Tree!Objects \X Seq(Subs)), found: Seq(Nat \X Subs), files: {files},
               exit: {"none", "ok", "error"}]
  BY <1>1 DEF TreeActors
<1>4. actor' = Tree!Walked(c)
  OBVIOUS
<1>5. history.calm /\ actor.cmd.recursive => QueueInv /\ FoundInv /\ place = t
  BY <1>1 DEF TreeInv, WalkInv, QueueInv
<1> HIDE DEF c
<1>6. ASSUME actor'.cmd = actor.cmd, actor'.listed = listed, actor'.files = files, actor'.exit \in {"none", "ok"},
             actor.cmd.do = "delete" => actor'.exit = "none", actor'.exit = "ok" => actor.cmd.do # "check"
      PROVE  TreeTop' /\ TreeFiles' /\ Tree!CheckedMeansNoError'
  <2>1. TreeTop
    BY DEF TreeInv
  <2>2. TreeTop' /\ Tree!CheckedMeansNoError'
    BY <1>6, <2>1 DEF TreeTop, Tree!CheckedMeansNoError
  <2>3. TreeFiles'
    BY <1>6 DEF TreeFiles, Filed
  <2> QED
    BY <2>2, <2>3
<1>7. CASE actor.queue # <<>> /\ actor.cmd.recursive
  <2>1. actor' = [c EXCEPT !.pc = "packages"]
    BY <1>3, <1>4, <1>7 DEF Tree!Walked
  <2>2. /\ actor' \in TreeActors' /\ actor'.pc = "packages" /\ actor'.cmd = actor.cmd
        /\ actor'.queue = actor.queue /\ actor'.found = actor.found /\ actor'.listed = listed
        /\ actor'.files = files /\ actor'.exit = "none"
    BY <1>3, <2>1 DEF TreeActors
  <2>3. TreeTypes'
    BY <1>1, <1>7, <2>2 DEF TreeTypes, Walking, DeletesAll
  <2>4. WalkInv'
    <3> SUFFICES ASSUME history.calm PROVE QueueInv' /\ ListedInv' /\ FoundInv'
      BY DEF WalkInv
    <3>1. QueueInv'
      BY <1>5, <1>7, <2>2 DEF QueueInv
    <3>2. FoundInv'
      BY <1>5, <1>7, <2>2 DEF FoundInv
    <3>3. ListedInv'
      BY <1>7, <2>2 DEF ListedInv, Right, Full
    <3> QED
      BY <3>1, <3>2, <3>3
  <2>5. DeleteInv' /\ EndInv'
    BY <2>2 DEF DeleteInv, Deleting, EndInv
  <2> QED
    BY <1>6, <2>2, <2>3, <2>4, <2>5 DEF TreeInv
<1>8. CASE ~(actor.queue # <<>> /\ actor.cmd.recursive)
  <2>1. history.calm /\ actor.cmd.recursive => Right(t, listed) /\ Everything(t, listed)
    BY <1>8 DEF Full, Everything, Pending
  <2>2. CASE actor.cmd.do = "delete"
    <3>1. actor' = [c EXCEPT !.pc = "deleteObject", !.found = Tree!Deepest(@)] /\ actor.queue = <<>> /\ actor.cmd.recursive
      BY <1>1, <1>3, <1>4, <1>8, <2>2 DEF Tree!Walked
    <3> DEFINE deep == Tree!Deepest(actor.found)
    <3>2. /\ deep \in Seq(Nat \X Subs)
          /\ history.calm => /\ Known(t, deep) /\ FoundOnce(deep) /\ Falling(deep) /\ Kept(t, place, deep)
                          /\ \A k \in DOMAIN deep : place[deep[k][2]] = t[deep[k][2]]
      <4>1. deep \in Seq(Nat \X Subs)
        BY <1>2, DeepestIs
      <4>2. ASSUME history.calm
            PROVE  Known(t, deep) /\ FoundOnce(deep) /\ Falling(deep) /\ Kept(t, place, deep)
        <5>1. FoundBy(t, <<>>, actor.found)
          BY <1>5, <3>1, <4>2 DEF FoundInv
        <5> QED
          BY <1>1, <1>2, <5>1, FoundSorted
      <4>3. ASSUME history.calm PROVE place = t
        BY <1>5, <3>1, <4>3
      <4> HIDE DEF deep
      <4> QED
        BY <4>1, <4>2, <4>3
    <3> HIDE DEF deep
    <3>3. /\ actor' \in TreeActors' /\ actor'.pc = "deleteObject" /\ actor'.cmd = actor.cmd
          /\ actor'.queue = <<>> /\ actor'.found = deep /\ actor'.listed = listed
          /\ actor'.files = files /\ actor'.exit = "none"
      <4>1. actor' = [c EXCEPT !.pc = "deleteObject", !.found = deep]
        BY <1>3, <3>1 DEF deep
      <4> QED
        BY <1>3, <3>1, <3>2, <4>1 DEF TreeActors
    <3>4. TreeTypes'
      BY <1>1, <2>2, <3>1, <3>3 DEF TreeTypes, Walking, DeletesAll
    <3>5. DeleteInv'
      <4> SUFFICES ASSUME history.calm PROVE PlacesInv' /\ ObjectsInv' /\ PackagesInv'
        BY DEF DeleteInv
      <4>1. place = t /\ Right(t, listed) /\ Everything(t, listed)
        BY <1>5, <2>1, <3>1
      <4>2. PlacesInv'
        BY <4>1 DEF PlacesInv
      <4>3. ObjectsInv'
        BY <3>3, <4>1 DEF ObjectsInv, Right, Everything
      <4>4. PackagesInv'
        BY <3>2, <3>3 DEF PackagesInv
      <4> QED
        BY <4>2, <4>3, <4>4
    <3>6. WalkInv' /\ EndInv'
      BY <2>2, <3>3 DEF WalkInv, Walking, EndInv
    <3> QED
      BY <1>6, <2>2, <3>3, <3>4, <3>5, <3>6 DEF TreeInv
  <2>3. CASE actor.cmd.do \in {"activate", "check"}
    <3>1. actor' = [c EXCEPT !.pc = "request"] /\ actor.cmd.recursive
      BY <1>2, <1>3, <1>4, <1>8, <2>3 DEF Tree!Walked, Tree!Commands
    <3>2. /\ actor' \in TreeActors' /\ actor'.pc = "request" /\ actor'.cmd = actor.cmd
          /\ actor'.listed = listed /\ actor'.files = files /\ actor'.exit = "none"
      BY <1>3, <3>1 DEF TreeActors
    <3>3. TreeTypes'
      BY <1>1, <2>3, <3>2 DEF TreeTypes, Walking, DeletesAll
    <3>4. WalkInv' /\ DeleteInv'
      BY <3>2 DEF WalkInv, Walking, DeleteInv, Deleting
    <3>5. EndInv'
      BY <2>1, <2>3, <3>1, <3>2 DEF EndInv, DeletesAll
    <3> QED
      BY <1>6, <2>3, <3>2, <3>3, <3>4, <3>5 DEF TreeInv
  <2>4. CASE actor.cmd.do \notin {"delete", "activate", "check"}
    <3>1. actor' = [c EXCEPT !.pc = "done", !.exit = "ok"]
      BY <1>3, <1>4, <1>8, <2>4 DEF Tree!Walked
    <3>2. /\ actor' \in TreeActors' /\ actor'.pc = "done" /\ actor'.cmd = actor.cmd
          /\ actor'.listed = listed /\ actor'.files = files /\ actor'.exit = "ok"
      BY <1>3, <3>1 DEF TreeActors
    <3>3. TreeTypes'
      BY <1>1, <2>4, <3>2 DEF TreeTypes, Walking, DeletesAll
    <3>4. WalkInv' /\ DeleteInv'
      BY <3>2 DEF WalkInv, Walking, DeleteInv, Deleting
    <3>5. EndInv'
      BY <2>1, <2>4, <3>2 DEF EndInv, DeletesAll
    <3> QED
      BY <1>6, <2>4, <3>2, <3>3, <3>4, <3>5 DEF TreeInv
  <2> QED
    BY <2>2, <2>3, <2>4
<1> QED
  BY <1>7, <1>8


\* The objects of the package at hand are listed with its way.
LEMMA TreeObjects ==
    ASSUME TreeInv, Tree!WalkObjects
    PROVE  TreeInv'
<1> DEFINE path == actor.path
           t == history.began
<1>1. /\ actor \in TreeActors /\ place \in TreeServers /\ history \in TreeHistories
      /\ actor.pc = "objects" /\ actor.exit = "none" /\ Walking
      /\ actor.cmd.do = "delete" => actor.cmd.recursive
  BY DEF TreeInv, TreeTypes, Tree!WalkObjects, Walking
<1>2. /\ path \in Seq(Subs) /\ t \in Trees /\ actor.listed \in SUBSET (Tree!Objects \X Seq(Subs))
  BY <1>1 DEF TreeActors, TreeHistories
<1>3. SUFFICES ASSUME NEW here \in Tree!Orders({o \in Tree!Objects : place[o] = Tree!Named(actor.path)}),
                    LET c == [actor EXCEPT !.listed = @ \cup {<<here[i], actor.path>> : i \in DOMAIN here}]
                    IN  actor' = IF actor.cmd.do = "checkout" THEN [c EXCEPT !.pc = "visit", !.here = here]
                                  ELSE Tree!Walked(c),
                    UNCHANGED <<place, history>>
             PROVE  TreeInv'
  <2>1. actor.pc # "done"
    BY <1>1
  <2>2. ASSUME Tree!Fail PROVE TreeInv'
    BY <2>1, <2>2, TreeFails
  <2> QED
    BY <2>2 DEF Tree!WalkObjects
<1>4. PICK n \in Nat : /\ here \in [1 .. n -> {o \in Tree!Objects : place[o] = Tree!Named(path)}]
                       /\ \A i, j \in 1 .. n : i # j => here[i] # here[j]
                       /\ {here[i] : i \in 1 .. n} = {o \in Tree!Objects : place[o] = Tree!Named(path)}
  <2>1. {o \in Tree!Objects : place[o] = Tree!Named(path)} \in SUBSET (Subs \cup Tree!Objects)
    OBVIOUS
  <2> QED
    BY <2>1, TreeOrders
<1> DEFINE new == {<<here[i], path>> : i \in DOMAIN here}
           listed == actor.listed \cup new
           c == [actor EXCEPT !.listed = listed]
<1>5. DOMAIN here = 1 .. n /\ here \in [1 .. n -> Tree!Objects] /\ here \in Seq(Tree!Objects)
  BY <1>4
<1>6. new \subseteq Tree!Objects \X Seq(Subs) /\ listed \in SUBSET (Tree!Objects \X Seq(Subs))
  BY <1>2, <1>5
<1>7. \A o \in Tree!Objects : place[o] = Tree!Named(path) => <<o, path>> \in listed
  BY <1>4, <1>5
<1>8. \A l \in new : l[2] = path /\ place[l[1]] = Tree!Named(path) /\ \E i \in DOMAIN here : l[1] = here[i]
  BY <1>4, <1>5
<1>9. actor' = IF actor.cmd.do = "checkout" THEN [c EXCEPT !.pc = "visit", !.here = here] ELSE Tree!Walked(c)
  BY <1>3
<1> HIDE DEF c, new
<1>10. ASSUME history.calm, actor.cmd.recursive
       PROVE  /\ Right(t, listed) /\ Full(t, actor.queue, listed)
              /\ QueueInv /\ FoundInv
  <2>1. QueueInv /\ ListedInv /\ FoundInv
    BY <1>1, <1>10 DEF TreeInv, WalkInv
  <2>2. place = t /\ path \in Ways(t) /\ Right(t, actor.listed)
    BY <1>1, <2>1 DEF QueueInv, ListedInv
  <2>3. Right(t, listed)
    BY <1>8, <2>2 DEF Right
  <2>4. \A r \in Ways(t), o \in Tree!Objects :
           t[o] = Tree!Named(r) /\ ~Pending(actor.queue, r) => <<o, r>> \in actor.listed \/ path = r
    BY <1>1, <2>1 DEF ListedInv, At
  <2>5. Full(t, actor.queue, listed)
    BY <1>7, <2>2, <2>4 DEF Full
  <2> QED
    BY <2>1, <2>3, <2>5
<1>11. actor.cmd.do = "checkout" => \A l \in actor.listed : l[1] # "other" => Filed(l)
  BY <1>1 DEF TreeInv, TreeFiles, Left
<1>12. CASE actor.cmd.do = "checkout"
  <2>1. actor' = [actor EXCEPT !.listed = listed, !.pc = "visit", !.here = here]
    BY <1>9, <1>12 DEF c
  <2> HIDE DEF listed
  <2>2. /\ actor' \in TreeActors' /\ actor'.pc = "visit" /\ actor'.cmd = actor.cmd /\ actor'.path = path
        /\ actor'.queue = actor.queue /\ actor'.found = actor.found /\ actor'.listed = listed
        /\ actor'.files = actor.files /\ actor'.exit = "none" /\ actor'.here = here
        /\ place' = place /\ history' = history
    BY <1>1, <1>3, <1>5, <1>6, <2>1 DEF TreeActors
  <2>3. TreeTypes'
    BY <1>1, <1>12, <2>2 DEF TreeTypes, Walking, DeletesAll
  <2>4. TreeTop' /\ Tree!CheckedMeansNoError'
    BY <2>2 DEF TreeInv, TreeTop, Tree!CheckedMeansNoError
  <2>5. TreeFiles'
    <3> SUFFICES ASSUME NEW l \in listed, l[1] # "other" PROVE Left(l)' \/ Filed(l)'
      BY <2>2 DEF TreeFiles
    <3>1. CASE l \in new
      BY <1>8, <2>2, <3>1 DEF Left
    <3>2. CASE l \in actor.listed
      BY <1>11, <1>12, <2>2, <3>2 DEF Filed, FiledIn
    <3> QED
      BY <3>1, <3>2 DEF listed
  <2>6. WalkInv'
    <3> SUFFICES ASSUME history.calm, actor.cmd.recursive PROVE QueueInv' /\ ListedInv' /\ FoundInv'
      BY <2>2 DEF WalkInv
    <3>1. QueueInv'
      BY <1>1, <1>10, <2>2 DEF QueueInv
    <3>2. ListedInv'
      BY <1>10, <2>2 DEF ListedInv, Right, Full
    <3>3. FoundInv'
      BY <1>10, <2>2 DEF FoundInv
    <3> QED
      BY <3>1, <3>2, <3>3
  <2>7. DeleteInv' /\ EndInv'
    BY <2>2 DEF DeleteInv, Deleting, EndInv
  <2> QED
    BY <2>3, <2>4, <2>5, <2>6, <2>7 DEF TreeInv
<1>13. CASE actor.cmd.do # "checkout"
  <2>1. c = [actor EXCEPT !.listed = listed, !.files = actor.files]
    BY <1>1 DEF c, TreeActors
  <2>2. actor' = Tree!Walked([actor EXCEPT !.listed = listed, !.files = actor.files])
    BY <1>9, <1>13, <2>1
  <2>3. history.calm /\ actor.cmd.recursive => Right(t, listed) /\ Full(t, actor.queue, listed)
    BY <1>10
  <2> DEFINE files == actor.files
  <2>4. actor' = Tree!Walked([actor EXCEPT !.listed = listed, !.files = files])
    BY <2>2
  <2>5. listed \in SUBSET (Tree!Objects \X Seq(Subs))
    BY <1>6
  <2> HIDE DEF listed, files
  <2> QED
    BY <1>1, <1>3, <1>13, <2>3, <2>4, <2>5, TreeWalked
<1> QED
  BY <1>12, <1>13


\* Files of an object keep those of the others, except its attributes.
FilesWith(files, path, o, done) ==
    {f \in files : "attributes" \in done => f[1] # path \/ f[2] # Tree!Attributes(o)}
    \cup {<<path, IF p = "source" THEN Tree!Sources(o) ELSE Tree!Attributes(o), o>> : p \in done}

LEMMA FilesGo ==
    ASSUME NEW files, NEW undone, NEW path, NEW o \in Tree!Objects, NEW done \in SUBSET Tree!Parts,
           NEW after, undone \subseteq after, \A p \in Tree!Parts \ done : <<p, o>> \in after
    PROVE  /\ \A l : l[2] = path /\ l[1] = o => FiledIn(FilesWith(files, path, o, done), after, l)
           /\ \A l : FiledIn(files, undone, l) =>
                     FiledIn(FilesWith(files, path, o, done), after, l)
<1> DEFINE more == FilesWith(files, path, o, done)
<1> USE DEF FilesWith
<1>1. /\ "attributes" \in done => <<path, Tree!Attributes(o), o>> \in more
      /\ "source" \in done => <<path, Tree!Sources(o), o>> \in more
      /\ \A f \in files : ("attributes" \in done => f[1] # path \/ f[2] # Tree!Attributes(o)) => f \in more
      /\ "attributes" \notin done => <<"attributes", o>> \in after
      /\ "source" \notin done => <<"source", o>> \in after
  BY DEF Tree!Parts
<1> HIDE DEF more
<1>2. ASSUME NEW l, l[2] = path, l[1] = o PROVE FiledIn(more, after, l)
  BY <1>1, <1>2 DEF FiledIn
<1>3. ASSUME NEW l, FiledIn(files, undone, l) PROVE FiledIn(more, after, l)
  <2>1. <<l[2], Tree!Sources(l[1]), l[1]>> \in files => <<l[2], Tree!Sources(l[1]), l[1]>> \in more
    <3>1. Tree!Sources(l[1]) # Tree!Attributes(o)
      BY DEF Tree!Sources, Tree!Attributes
    <3> QED
      BY <1>1, <3>1
  <2>5. CASE <<"attributes", l[1]>> \in undone
    BY <1>3, <2>1, <2>5 DEF FiledIn
  <2> SUFFICES ASSUME <<"attributes", l[1]>> \notin undone PROVE FiledIn(more, after, l)
    BY <2>5
  <2>2. PICK q \in Tree!Objects : Tree!Attributes(q) = Tree!Attributes(l[1]) /\ <<l[2], Tree!Attributes(q), q>> \in files
    BY <1>3 DEF FiledIn
  <2>3. CASE "attributes" \in done /\ l[2] = path /\ Tree!Attributes(q) = Tree!Attributes(o)
    <3>1. Tree!Attributes(o) = Tree!Attributes(l[1]) /\ <<l[2], Tree!Attributes(o), o>> \in more
      BY <1>1, <2>2, <2>3
    <3> QED
      BY <1>3, <2>1, <3>1 DEF FiledIn
  <2>4. CASE ~("attributes" \in done /\ l[2] = path /\ Tree!Attributes(q) = Tree!Attributes(o))
    <3>1. <<l[2], Tree!Attributes(q), q>> \in more
      BY <1>1, <2>2, <2>4
    <3> QED
      BY <1>3, <2>1, <2>2, <3>1 DEF FiledIn
  <2> QED
    BY <2>3, <2>4
<1> QED
  BY <1>2, <1>3 DEF more

\* A file of the package or of one of its objects.
LEMMA TreeVisit ==
    ASSUME TreeInv, Tree!Visit
    PROVE  TreeInv'
<1>1. /\ actor \in TreeActors /\ place \in TreeServers /\ history \in TreeHistories
      /\ actor.pc = "visit" /\ actor.exit = "none" /\ Walking /\ actor.cmd.do = "checkout"
  BY DEF TreeInv, TreeTypes, Tree!Visit, Walking
<1>2. actor.here \in Seq(Tree!Objects) /\ actor.listed \in SUBSET (Tree!Objects \X Seq(Subs))
  BY <1>1 DEF TreeActors
<1>3. \A l \in actor.listed : l[1] # "other" => Left(l) \/ Filed(l)
  BY <1>1 DEF TreeInv, TreeFiles
<1>4. ASSUME actor.here = <<>>, UNCHANGED <<place, history>>,
             NEW files, actor.files \subseteq files, actor' = Tree!Walked([actor EXCEPT !.files = files])
      PROVE  TreeInv'
  <2>1. [actor EXCEPT !.files = files] = [actor EXCEPT !.listed = actor.listed, !.files = files]
    BY <1>1 DEF TreeActors
  <2> DEFINE listed == actor.listed
  <2>2. actor' = Tree!Walked([actor EXCEPT !.listed = listed, !.files = files])
    BY <1>4, <2>1
  <2>3. \A l \in listed : l[1] # "other" => FiledIn(files, history.undone, l)
    BY <1>3, <1>4 DEF Left, Filed, FiledIn
  <2>4. history.calm /\ actor.cmd.recursive => Right(history.began, listed) /\ Full(history.began, actor.queue, listed)
    BY <1>1 DEF TreeInv, WalkInv, ListedInv, At, Full
  <2>5. listed \in SUBSET (Tree!Objects \X Seq(Subs)) /\ actor.pc \in {"objects", "visit"}
    BY <1>1, <1>2
  <2> HIDE DEF listed
  <2> QED
    BY <1>4, <2>2, <2>3, <2>4, <2>5, TreeWalked
<1>5. ASSUME actor.here # <<>>, UNCHANGED place, NEW files,
             actor' = [actor EXCEPT !.here = Tail(@), !.files = files],
             NEW undone \in SUBSET (Tree!Parts \X Tree!Objects), NEW still \in BOOLEAN, still => history.calm,
             history' = [history EXCEPT !.undone = undone, !.calm = still],
             \A l \in actor.listed : l[1] # "other" /\ ((l[2] = actor.path /\ l[1] = Head(actor.here)) \/ Filed(l)) =>
                 FiledIn(files, undone, l)
      PROVE  TreeInv'
  <2>1. Tail(actor.here) \in Seq(Tree!Objects) /\ Len(actor.here) \in Nat
    BY <1>2, <1>5
  <2>2. /\ actor' \in TreeActors' /\ actor'.pc = "visit" /\ actor'.cmd = actor.cmd /\ actor'.path = actor.path
        /\ actor'.queue = actor.queue /\ actor'.found = actor.found /\ actor'.listed = actor.listed
        /\ actor'.files = files /\ actor'.exit = "none" /\ actor'.here = Tail(actor.here)
    BY <1>1, <1>5, <2>1 DEF TreeActors
  <2>3. history' \in TreeHistories /\ history'.began = history.began /\ history'.errors = history.errors
        /\ history'.undone = undone /\ history'.calm = still /\ place' = place
    BY <1>1, <1>5 DEF TreeHistories
  <2>4. TreeTypes'
    BY <1>1, <2>2, <2>3 DEF TreeTypes, Walking, DeletesAll
  <2>5. TreeTop' /\ Tree!CheckedMeansNoError'
    BY <2>2, <2>3 DEF TreeInv, TreeTop, Tree!CheckedMeansNoError
  <2>6. TreeFiles'
    <3> SUFFICES ASSUME NEW l \in actor.listed, l[1] # "other" PROVE Left(l)' \/ Filed(l)'
      BY <2>2 DEF TreeFiles
    <3>1. CASE (l[2] = actor.path /\ l[1] = Head(actor.here)) \/ Filed(l)
      BY <1>5, <2>2, <2>3, <3>1 DEF Filed
    <3>2. CASE Left(l) /\ l[1] # Head(actor.here)
      <4>1. PICK i \in DOMAIN actor.here : actor.here[i] = l[1] /\ l[2] = actor.path
        BY <3>2 DEF Left
      <4>2. i \in 1 .. Len(actor.here) /\ i # 1
        BY <1>2, <1>5, <3>2, <4>1
      <4>3. i - 1 \in DOMAIN Tail(actor.here) /\ Tail(actor.here)[i - 1] = actor.here[i]
        BY <1>2, <1>5, <4>2
      <4> QED
        BY <2>2, <4>1, <4>3 DEF Left
    <3> QED
      BY <1>3, <3>1, <3>2 DEF Left
  <2>7. WalkInv'
    <3> SUFFICES ASSUME history.calm, actor.cmd.recursive PROVE QueueInv' /\ ListedInv' /\ FoundInv'
      BY <1>5, <2>2, <2>3 DEF WalkInv
    <3>1. QueueInv /\ ListedInv /\ FoundInv
      BY <1>1 DEF TreeInv, WalkInv
    <3>2. QueueInv'
      BY <1>1, <2>2, <2>3, <3>1 DEF QueueInv
    <3>3. ListedInv'
      BY <1>1, <2>2, <2>3, <3>1 DEF ListedInv, At
    <3>4. FoundInv'
      BY <2>2, <2>3, <3>1 DEF FoundInv
    <3> QED
      BY <3>2, <3>3, <3>4
  <2>8. DeleteInv' /\ EndInv'
    BY <1>1, <2>2 DEF DeleteInv, Deleting, EndInv, DeletesAll
  <2> QED
    BY <2>4, <2>5, <2>6, <2>7, <2>8 DEF TreeInv
<1>6. CASE actor.here # <<>> /\ Head(actor.here) = "other" /\ actor' = [actor EXCEPT !.here = Tail(@)]
           /\ UNCHANGED <<place, history>>
  <2> DEFINE files == actor.files
             undone == history.undone
             still == history.calm
  <2>1. actor' = [actor EXCEPT !.here = Tail(@), !.files = files]
    BY <1>1, <1>6 DEF TreeActors
  <2>2. history' = [history EXCEPT !.undone = undone, !.calm = still] /\ still \in BOOLEAN
        /\ undone \in SUBSET (Tree!Parts \X Tree!Objects)
    BY <1>1, <1>6 DEF TreeHistories
  <2>3. \A l \in actor.listed : l[1] # "other" /\ ((l[2] = actor.path /\ l[1] = Head(actor.here)) \/ Filed(l)) =>
                 FiledIn(files, undone, l)
    BY <1>6 DEF Filed
  <2>4. still => history.calm
    OBVIOUS
  <2> HIDE DEF files, undone, still
  <2> QED
    BY <1>5, <1>6, <2>1, <2>2, <2>3, <2>4
<1>7. ASSUME actor.here # <<>>, Head(actor.here) # "other", NEW done \in SUBSET Tree!Parts, UNCHANGED place,
             actor' = [actor EXCEPT !.here = Tail(@), !.files =
                 {f \in actor.files :
                      "attributes" \in done => f[1] # actor.path \/ f[2] # Tree!Attributes(Head(actor.here))}
                 \cup {<<actor.path, IF p = "source" THEN Tree!Sources(Head(actor.here))
                                    ELSE Tree!Attributes(Head(actor.here)), Head(actor.here)>> : p \in done}],
             history' = [history EXCEPT !.undone = @ \cup ((Tree!Parts \ done) \X {Head(actor.here)}),
                                        !.calm = @ /\ done = Tree!Parts]
      PROVE  TreeInv'
  <2> DEFINE o == Head(actor.here)
             path == actor.path
             files == FilesWith(actor.files, path, o, done)
             undone == history.undone \cup ((Tree!Parts \ done) \X {o})
             still == history.calm /\ done = Tree!Parts
  <2>1. o \in Tree!Objects
    BY <1>2, <1>7
  <2>2. actor' = [actor EXCEPT !.here = Tail(@), !.files = files]
    BY <1>7 DEF FilesWith
  <2>3. history' = [history EXCEPT !.undone = undone, !.calm = still] /\ still \in BOOLEAN
        /\ undone \in SUBSET (Tree!Parts \X Tree!Objects)
    BY <1>1, <1>7, <2>1 DEF TreeHistories
  <2>4. history.undone \subseteq undone /\ (\A p \in Tree!Parts \ done : <<p, o>> \in undone) /\ (still => history.calm)
    OBVIOUS
  <2> HIDE DEF undone, still, o, path
  <2>5. /\ \A l : l[2] = path /\ l[1] = o => FiledIn(files, undone, l)
        /\ \A l : FiledIn(actor.files, history.undone, l) => FiledIn(files, undone, l)
    BY <2>1, <2>4, FilesGo
  <2> HIDE DEF files
  <2>6. \A l \in actor.listed : l[1] # "other" /\ ((l[2] = actor.path /\ l[1] = Head(actor.here)) \/ Filed(l)) =>
                 FiledIn(files, undone, l)
    BY <2>5 DEF Filed, o, path
  <2> QED
    BY <1>5, <1>7, <2>2, <2>3, <2>4, <2>6
<1>8. CASE Tree!Fail
  BY <1>1, <1>8, TreeFails
<1>9. CASE /\ actor.here = <<>>
           /\ actor' = Tree!Walked([actor EXCEPT !.files = @ \cup {<<actor.path, <<"xml", "package">>, Tree!Named(actor.path)>>}])
           /\ UNCHANGED <<place, history>>
  <2> DEFINE files == actor.files \cup {<<actor.path, <<"xml", "package">>, Tree!Named(actor.path)>>}
  <2>1. actor' = Tree!Walked([actor EXCEPT !.files = files]) /\ actor.files \subseteq files
    BY <1>9
  <2> HIDE DEF files
  <2> QED
    BY <1>4, <1>9, <2>1
<1>10. \A done \in {Tree!Parts, {"attributes"}, {}} : done \in SUBSET Tree!Parts
  BY DEF Tree!Parts
<1> QED
  BY <1>6, <1>7, <1>8, <1>9, <1>10 DEF Tree!Visit


-----------------------------------------------------------------------------
\* What the server refuses to delete is an error, which a calm delete never meets.
LEMMA TreeRefused ==
    ASSUME TreeInv, actor.pc # "done", actor.cmd.do = "delete", history.calm => ~actor.cmd.recursive,
           Tree!Exit("error"), UNCHANGED <<place, history>>
    PROVE  TreeInv'
<1>1. actor' = [actor EXCEPT !.pc = "done", !.exit = "error"] /\ place' = place /\ history' = history
  BY DEF Tree!Exit
<1>2. actor \in TreeActors /\ place \in TreeServers /\ history \in TreeHistories
  BY DEF TreeInv, TreeTypes
<1>3. /\ actor' \in TreeActors' /\ actor'.pc = "done" /\ actor'.exit = "error" /\ actor'.cmd = actor.cmd
  BY <1>1, <1>2 DEF TreeActors
<1>4. TreeTypes'
  BY <1>1, <1>2, <1>3 DEF TreeTypes, Walking, DeletesAll
<1>5. TreeTop' /\ TreeFiles' /\ Tree!CheckedMeansNoError'
  BY <1>1, <1>3 DEF TreeInv, TreeTop, TreeFiles, Tree!CheckedMeansNoError
<1>6. WalkInv' /\ DeleteInv' /\ EndInv'
  BY <1>1, <1>3 DEF WalkInv, Walking, DeleteInv, Deleting, EndInv, DeletesAll
<1> QED
  BY <1>4, <1>5, <1>6 DEF TreeInv

\* One object or package is deleted, which is not the end of the command.
LEMMA TreeDeletes ==
    ASSUME TreeInv, actor.pc \in {"deleteObject", "deletePackage"},
           NEW x \in Subs \cup Tree!Objects, place' = [place EXCEPT ![x] = Tree!Gone], UNCHANGED history,
           NEW listed \in SUBSET (Tree!Objects \X Seq(Subs)), NEW found \in Seq(Nat \X Subs),
           actor' = [actor EXCEPT !.listed = listed, !.found = found],
           history.calm => PlacesInv' /\ ObjectsInv' /\ PackagesInv'
    PROVE  TreeInv'
<1>1. /\ actor \in TreeActors /\ place \in TreeServers /\ history \in TreeHistories /\ actor.cmd.do = "delete"
      /\ actor.exit = "none" /\ DeletesAll
  BY DEF TreeInv, TreeTypes, DeletesAll
<1>2. /\ actor' \in TreeActors' /\ actor'.pc = actor.pc /\ actor'.cmd = actor.cmd /\ actor'.exit = "none"
  BY <1>1 DEF TreeActors
<1>3. place' \in TreeServers /\ DOMAIN place' = DOMAIN place /\ "top" \in DOMAIN place
      /\ place'["top"] = place["top"] /\ \A y \in DOMAIN place : place'[y] \in {place[y], Tree!Gone}
  BY <1>1, NamesDiffer DEF TreeServers, Tree!Homes, Tree!Objects
<1>4. TreeTypes'
  BY <1>1, <1>2, <1>3 DEF TreeTypes, Walking, DeletesAll
<1>5. TreeTop'
  <2>1. Tree!Gone # "top"
    BY DEF Tree!Gone
  <2>2. TreeTop
    BY DEF TreeInv
  <2> QED
    BY <1>2, <1>3, <2>1, <2>2 DEF TreeTop
<1>6. TreeFiles' /\ Tree!CheckedMeansNoError'
  BY <1>1, <1>2 DEF TreeFiles, Tree!CheckedMeansNoError
<1>7. WalkInv' /\ DeleteInv' /\ EndInv'
  BY <1>1, <1>2 DEF WalkInv, Walking, DeleteInv, EndInv
<1> QED
  BY <1>4, <1>5, <1>6, <1>7 DEF TreeInv

LEMMA TreeDeleteObject ==
    ASSUME TreeInv, Tree!DeleteObject
    PROVE  TreeInv'
<1> DEFINE t == history.began
<1>1. /\ actor \in TreeActors /\ place \in TreeServers /\ history \in TreeHistories
      /\ actor.pc = "deleteObject" /\ actor.exit = "none" /\ DeletesAll /\ Deleting /\ t \in Trees
  BY DEF TreeInv, TreeTypes, Tree!DeleteObject, Deleting, TreeHistories
<1>2. actor.listed \in SUBSET (Tree!Objects \X Seq(Subs)) /\ actor.found \in Seq(Nat \X Subs)
  BY <1>1 DEF TreeActors
<1>3. history.calm => PlacesInv /\ ObjectsInv /\ PackagesInv
  BY <1>1 DEF TreeInv, DeleteInv
<1>4. CASE actor.listed = {} /\ actor' = [actor EXCEPT !.pc = "deletePackage"] /\ UNCHANGED <<place, history>>
  <2>1. /\ actor' \in TreeActors' /\ actor'.pc = "deletePackage" /\ actor'.cmd = actor.cmd
        /\ actor'.exit = "none" /\ actor'.listed = {} /\ actor'.found = actor.found
    BY <1>1, <1>4 DEF TreeActors
  <2>2. TreeTypes'
    BY <1>1, <1>4, <2>1 DEF TreeTypes, Walking, DeletesAll
  <2>3. TreeTop' /\ Tree!CheckedMeansNoError'
    BY <1>4, <2>1 DEF TreeInv, TreeTop, Tree!CheckedMeansNoError
  <2>4. TreeFiles'
    BY <2>1 DEF TreeFiles
  <2>5. DeleteInv'
    <3> SUFFICES ASSUME history.calm PROVE PlacesInv' /\ ObjectsInv' /\ PackagesInv'
      BY <1>4 DEF DeleteInv
    <3>1. PlacesInv'
      BY <1>3, <1>4 DEF PlacesInv
    <3>2. ObjectsInv'
      BY <1>3, <1>4, <2>1 DEF ObjectsInv, Right
    <3>3. PackagesInv'
      BY <1>3, <1>4, <2>1 DEF PackagesInv
    <3> QED
      BY <3>1, <3>2, <3>3
  <2>6. WalkInv' /\ EndInv'
    BY <1>1, <2>1 DEF WalkInv, Walking, EndInv, DeletesAll
  <2> QED
    BY <2>2, <2>3, <2>4, <2>5, <2>6 DEF TreeInv
<1>5. ASSUME NEW o \in actor.listed, Tree!Delete(o[1], [actor EXCEPT !.listed = @ \ {o}]) PROVE TreeInv'
  <2> DEFINE x == o[1]
             listed == actor.listed \ {o}
             found == actor.found
  <2>1. x \in Tree!Objects /\ x \in Subs \cup Tree!Objects /\ listed \in SUBSET (Tree!Objects \X Seq(Subs)) /\ o[2] \in Seq(Subs)
        /\ o = <<o[1], o[2]>>
    BY <1>2
  <2>2. ASSUME history.calm
        PROVE  place[x] # Tree!Gone /\ \A y \in DOMAIN place : place[y] # x
    <3>1. place[x] = t[x] /\ x \in Subs \cup Tree!Objects \cup {"top"}
      BY <1>3, <2>1, <2>2 DEF ObjectsInv
    <3>2. t[x] # Tree!Gone
      BY <1>1, <3>1 DEF Trees
    <3>3. \A y \in DOMAIN place : place[y] \in Tree!Homes
      BY <1>1 DEF TreeServers
    <3>4. x \notin Tree!Homes
      BY <2>1, NamesDiffer
    <3> QED
      BY <3>1, <3>2, <3>3, <3>4
  <2>3. CASE place[x] # Tree!Gone /\ \A y \in DOMAIN place : place[y] # x
    <3>1. /\ place' = [place EXCEPT ![x] = Tree!Gone] /\ UNCHANGED history
          /\ actor' = [actor EXCEPT !.listed = listed]
      BY <1>5, <2>3 DEF Tree!Delete
    <3>2. actor' = [actor EXCEPT !.listed = listed, !.found = found]
      BY <1>1, <3>1 DEF TreeActors
    <3>3. actor'.listed = listed /\ actor'.found = found /\ actor'.pc = "deleteObject" /\ history' = history
      BY <1>1, <3>1 DEF TreeActors
    <3>4. DOMAIN place' = DOMAIN place /\ DOMAIN place = Subs \cup Tree!Objects \cup {"top"} /\ place'[x] = Tree!Gone
          /\ (\A y \in DOMAIN place : y # x => place'[y] = place[y]) /\ x # "top" /\ x \notin Subs
      BY <1>1, <2>1, <3>1, NamesDiffer DEF TreeServers, Tree!Objects
    <3>5. ASSUME history.calm PROVE PlacesInv' /\ ObjectsInv' /\ PackagesInv'
      <4>1. PlacesInv /\ ObjectsInv /\ PackagesInv
        BY <1>3, <3>5
      <4> HIDE DEF x, listed, found
      <4>2. PlacesInv'
        BY <3>3, <3>4, <4>1 DEF PlacesInv
      <4>3. ASSUME NEW l \in listed PROVE l[1] # x /\ l \in actor.listed /\ l[1] \in Tree!Objects
        <5>1. l \in actor.listed /\ l # o /\ l = <<l[1], l[2]>> /\ l[1] \in Tree!Objects
          BY <1>2 DEF listed
        <5>2. o \in actor.listed
          OBVIOUS
        <5>3. l[2] \in Ways(t) /\ o[2] \in Ways(t) /\ t[l[1]] = Tree!Named(l[2]) /\ t[o[1]] = Tree!Named(o[2])
          BY <4>1, <5>1, <5>2 DEF ObjectsInv, Right
        <5>4. l[1] = o[1] => l[2] = o[2]
          BY <1>1, <5>3, WayIsOne
        <5> QED
          BY <2>1, <5>1, <5>4 DEF x
      <4>4. Right(t, listed)
        BY <4>1, <4>3 DEF ObjectsInv, Right
      <4>5. \A l \in listed : place'[l[1]] = t[l[1]]
        BY <3>4, <4>1, <4>3 DEF ObjectsInv
      <4>6. ASSUME NEW r \in Ways(t), NEW y \in Tree!Objects, t[y] = Tree!Named(r)
            PROVE  <<y, r>> \in listed \/ place'[y] = Tree!Gone
        <5>1. <<y, r>> \in actor.listed \/ place[y] = Tree!Gone
          BY <4>1, <4>6 DEF ObjectsInv
        <5>2. <<y, r>> = o => y = x
          BY <2>1 DEF x
        <5> QED
          BY <3>4, <5>1, <5>2 DEF listed
      <4>7. ObjectsInv'
        BY <3>3, <4>4, <4>5, <4>6 DEF ObjectsInv
      <4>8. \A k \in DOMAIN found : found[k][2] \in Subs
        BY <1>2 DEF found
      <4>9. Kept(t, place', found)
        BY <3>4, <4>1 DEF PackagesInv, Kept, found
      <4>10. \A k \in DOMAIN found : place'[found[k][2]] = t[found[k][2]]
        BY <3>4, <4>1, <4>8 DEF PackagesInv, found
      <4>11. Known(t, found) /\ FoundOnce(found) /\ Falling(found)
        BY <4>1 DEF PackagesInv, found
      <4>12. PackagesInv'
        BY <3>3, <4>9, <4>10, <4>11 DEF PackagesInv
      <4> QED
        BY <4>2, <4>7, <4>12
    <3>6. found \in Seq(Nat \X Subs)
      BY <1>2
    <3> HIDE DEF x, listed, found
    <3> QED
      BY <1>1, <2>1, <3>1, <3>2, <3>5, <3>6, TreeDeletes
  <2>4. CASE ~(place[x] # Tree!Gone /\ \A y \in DOMAIN place : place[y] # x)
    <3>1. Tree!Exit("error") /\ UNCHANGED <<place, history>>
      BY <1>5, <2>4 DEF Tree!Delete
    <3>2. ~history.calm
      BY <2>2, <2>4
    <3> QED
      BY <1>1, <3>1, <3>2, TreeRefused DEF DeletesAll
  <2> QED
    BY <2>3, <2>4
<1>6. CASE Tree!Fail
  BY <1>1, <1>6, TreeFails
<1> QED
  BY <1>4, <1>5, <1>6 DEF Tree!DeleteObject


\* When the objects are gone, a package has only those in it that are still to be deleted.
LEMMA TreeEmpties ==
    ASSUME TreeInv, history.calm, DeletesAll, actor.pc \in {"deletePackage", "deleteTop"},
           NEW r \in Ways(history.began), NEW y \in DOMAIN place, place[y] = Tree!Named(r)
    PROVE  y \in Subs /\ \E k \in DOMAIN actor.found : actor.found[k] = <<Len(r) + 1, y>>
<1> DEFINE t == history.began
<1>1. place \in TreeServers /\ history \in TreeHistories /\ t \in Trees
  BY DEF TreeInv, TreeTypes, TreeHistories
<1>2. PlacesInv /\ ObjectsInv /\ PackagesInv
  BY DEF TreeInv, DeleteInv, Deleting
<1>3. Tree!Named(r) \in Tree!Packages /\ Tree!Named(r) # Tree!Gone /\ Tree!Named(r) # Tree!Elsewhere
  BY <1>1, WayEnds, NamesDiffer DEF Tree!Packages, Tree!Gone, Tree!Elsewhere
<1>4. place[y] = t[y] /\ t[y] = Tree!Named(r) /\ place[y] # Tree!Gone
  BY <1>2, <1>3 DEF PlacesInv
<1>5. y \in Subs \cup Tree!Objects \cup {"top"} /\ y # "top"
  BY <1>1, <1>3, <1>4 DEF TreeServers, Trees
<1>6. y \notin Tree!Objects
  BY <1>2, <1>4 DEF ObjectsInv
<1>7. y \in Subs
  BY <1>5, <1>6
<1>8. \E k \in DOMAIN actor.found : actor.found[k] = <<Len(r) + 1, y>>
  BY <1>2, <1>4, <1>7 DEF PackagesInv, Kept
<1> QED
  BY <1>7, <1>8

LEMMA TreeDeletePackage ==
    ASSUME TreeInv, Tree!DeletePackage
    PROVE  TreeInv'
<1> DEFINE t == history.began
<1>1. /\ actor \in TreeActors /\ place \in TreeServers /\ history \in TreeHistories
      /\ actor.pc = "deletePackage" /\ actor.exit = "none" /\ DeletesAll /\ Deleting /\ t \in Trees
  BY DEF TreeInv, TreeTypes, Tree!DeletePackage, Deleting, TreeHistories
<1>2. actor.listed \in SUBSET (Tree!Objects \X Seq(Subs)) /\ actor.found \in Seq(Nat \X Subs)
  BY <1>1 DEF TreeActors
<1>3. history.calm => PlacesInv /\ ObjectsInv /\ PackagesInv
  BY <1>1 DEF TreeInv, DeleteInv
<1>4. CASE actor.found = <<>> /\ actor' = [actor EXCEPT !.pc = "deleteTop"] /\ UNCHANGED <<place, history>>
  <2>1. /\ actor' \in TreeActors' /\ actor'.pc = "deleteTop" /\ actor'.cmd = actor.cmd
        /\ actor'.exit = "none" /\ actor'.listed = actor.listed /\ actor'.found = <<>>
    BY <1>1, <1>4 DEF TreeActors
  <2>2. TreeTypes'
    BY <1>1, <1>4, <2>1 DEF TreeTypes, Walking, DeletesAll
  <2>3. TreeTop' /\ Tree!CheckedMeansNoError'
    BY <1>4, <2>1 DEF TreeInv, TreeTop, Tree!CheckedMeansNoError
  <2>4. TreeFiles'
    BY <1>1, <2>1 DEF TreeFiles, DeletesAll
  <2>5. DeleteInv'
    <3> SUFFICES ASSUME history.calm PROVE PlacesInv' /\ ObjectsInv' /\ PackagesInv'
      BY <1>4 DEF DeleteInv
    <3>1. PlacesInv'
      BY <1>3, <1>4 DEF PlacesInv
    <3>2. ObjectsInv'
      BY <1>1, <1>3, <1>4, <2>1 DEF ObjectsInv, Right
    <3>3. PackagesInv'
      BY <1>3, <1>4, <2>1 DEF PackagesInv
    <3> QED
      BY <3>1, <3>2, <3>3
  <2>6. WalkInv' /\ EndInv'
    BY <1>1, <2>1 DEF WalkInv, Walking, EndInv, DeletesAll
  <2> QED
    BY <2>2, <2>3, <2>4, <2>5, <2>6 DEF TreeInv
<1>5. ASSUME actor.found # <<>>, Tree!Delete(Head(actor.found)[2], [actor EXCEPT !.found = Tail(@)])
      PROVE  TreeInv'
  <2> DEFINE p == Head(actor.found)[2]
             n == Len(actor.found) - 1
             found == Tail(actor.found)
             listed == actor.listed
  <2>1. /\ n \in Nat /\ DOMAIN actor.found = 1 .. n + 1 /\ found \in Seq(Nat \X Subs) /\ DOMAIN found = 1 .. n
        /\ \A k \in 1 .. n : found[k] = actor.found[k + 1]
        /\ Head(actor.found) = actor.found[1] /\ p = actor.found[1][2] /\ p \in Subs
        /\ 1 \in DOMAIN actor.found /\ actor.found[1][1] \in Nat
    BY <1>2, <1>5
  <2>2. \A k \in 1 .. n : k + 1 \in DOMAIN actor.found /\ k + 1 # 1
    <3>1. n \in Nat /\ DOMAIN actor.found = 1 .. n + 1
      BY <2>1
    <3> QED
      BY <3>1
  <2> HIDE DEF p, n, found, listed
  <2>3. ASSUME history.calm
        PROVE  place[p] # Tree!Gone /\ \A y \in DOMAIN place : place[y] # p
    <3>1. PackagesInv
      BY <1>3, <2>3
    <3>2. place[p] = t[p]
      BY <2>1, <3>1 DEF PackagesInv
    <3>3. t[p] # Tree!Gone
      BY <1>1, <2>1 DEF Trees
    <3>4. PICK r \in Ways(t) : actor.found[1][1] = Len(r) + 1 /\ t[p] = Tree!Named(r)
      BY <2>1, <3>1 DEF PackagesInv, Known
    <3>5. Append(r, p) \in Ways(t) /\ Len(Append(r, p)) = Len(r) + 1 /\ Tree!Named(Append(r, p)) = p
      BY <1>1, <2>1, <3>4, WayGoesOn
    <3> DEFINE s == Append(r, p)
    <3> HIDE DEF s
    <3>6. ASSUME NEW y \in DOMAIN place, place[y] = p PROVE FALSE
      <4>1. PICK k \in DOMAIN actor.found : actor.found[k] = <<Len(s) + 1, y>>
        BY <1>1, <2>3, <3>5, <3>6, TreeEmpties DEF s
      <4>2. actor.found[k][1] = Len(r) + 2 /\ Len(r) \in Nat
        <5>1. Len(r) \in Nat /\ Len(s) = Len(r) + 1
          BY <1>1, <3>5, WayEnds DEF s
        <5>2. actor.found[k][1] = Len(s) + 1
          BY <4>1
        <5> QED
          BY <5>1, <5>2
      <4>3. k \in 1 .. n + 1 /\ (k = 1 \/ 1 < k)
        BY <2>1
      <4>4. actor.found[1][1] >= actor.found[k][1]
        <5>1. CASE 1 < k
          BY <2>1, <3>1, <5>1 DEF PackagesInv, Falling
        <5>2. CASE k = 1
          BY <2>1, <5>2
        <5> QED
          BY <4>3, <5>1, <5>2
      <4> QED
        BY <3>4, <4>2, <4>4
    <3> QED
      BY <3>2, <3>3, <3>6
  <2>4. CASE place[p] # Tree!Gone /\ \A y \in DOMAIN place : place[y] # p
    <3>1. place' = [place EXCEPT ![p] = Tree!Gone] /\ UNCHANGED history /\ actor' = [actor EXCEPT !.found = Tail(@)]
      BY <1>5, <2>4 DEF Tree!Delete, p
    <3>2. actor' = [actor EXCEPT !.listed = listed, !.found = found]
      BY <1>1, <3>1 DEF TreeActors, listed, found
    <3>3. actor'.listed = actor.listed /\ actor'.found = found /\ actor'.pc = "deletePackage" /\ history' = history
      BY <1>1, <3>1 DEF TreeActors, found
    <3>4. DOMAIN place' = DOMAIN place /\ DOMAIN place = Subs \cup Tree!Objects \cup {"top"} /\ place'[p] = Tree!Gone
          /\ (\A y \in DOMAIN place : y # p => place'[y] = place[y]) /\ p # "top" /\ p \notin Tree!Objects
      BY <1>1, <2>1, <3>1, NamesDiffer DEF TreeServers
    <3>5. ASSUME history.calm PROVE PlacesInv' /\ ObjectsInv' /\ PackagesInv'
      <4>1. PlacesInv /\ ObjectsInv /\ PackagesInv
        BY <1>3, <3>5
      <4>2. PlacesInv'
        BY <3>3, <3>4, <4>1 DEF PlacesInv
      <4>3. actor.listed = {}
        BY <1>1, <4>1 DEF ObjectsInv
      <4>4. ObjectsInv'
        BY <3>3, <3>4, <4>1, <4>3 DEF ObjectsInv, Right
      <4>5. ASSUME NEW k \in 1 .. n PROVE found[k][2] \in Subs /\ found[k][2] # p /\ place'[found[k][2]] = t[found[k][2]]
        <5>1. k + 1 \in DOMAIN actor.found /\ k + 1 # 1 /\ found[k] = actor.found[k + 1]
          BY <2>1, <2>2
        <5>2. found[k][2] # p
          BY <2>1, <4>1, <5>1 DEF PackagesInv, FoundOnce
        <5>3. place[found[k][2]] = t[found[k][2]]
          BY <4>1, <5>1 DEF PackagesInv
        <5>4. found[k][2] \in Subs
          BY <2>1
        <5> QED
          BY <3>4, <5>2, <5>3, <5>4
      <4>6. Known(t, found)
        <5> SUFFICES ASSUME NEW k \in 1 .. n
                     PROVE  \E r \in Ways(t) : found[k][1] = Len(r) + 1 /\ t[found[k][2]] = Tree!Named(r)
          BY <2>1 DEF Known
        <5>1. k + 1 \in DOMAIN actor.found /\ found[k] = actor.found[k + 1]
          BY <2>1, <2>2
        <5>2. PICK r \in Ways(t) : actor.found[k + 1][1] = Len(r) + 1 /\ t[actor.found[k + 1][2]] = Tree!Named(r)
          BY <4>1, <5>1 DEF PackagesInv, Known
        <5> QED
          BY <5>1, <5>2
      <4>7. FoundOnce(found)
        <5> SUFFICES ASSUME NEW i \in 1 .. n, NEW j \in 1 .. n, found[i][2] = found[j][2] PROVE i = j
          BY <2>1 DEF FoundOnce
        <5>1. i + 1 = j + 1
          <6>1. i + 1 \in DOMAIN actor.found /\ found[i] = actor.found[i + 1]
                /\ j + 1 \in DOMAIN actor.found /\ found[j] = actor.found[j + 1]
            BY <2>1, <2>2
          <6>2. \A k, l \in DOMAIN actor.found : actor.found[k][2] = actor.found[l][2] => k = l
            BY <4>1 DEF PackagesInv, FoundOnce
          <6> QED
            BY <6>1, <6>2
        <5> QED
          BY <5>1
      <4>8. Falling(found)
        <5> SUFFICES ASSUME NEW i \in 1 .. n, NEW j \in 1 .. n, i < j PROVE found[i][1] >= found[j][1]
          BY <2>1 DEF Falling
        <5>1. i + 1 < j + 1
          OBVIOUS
        <5> QED
          BY <2>1, <2>2, <4>1, <5>1 DEF PackagesInv, Falling
      <4>9. ASSUME NEW r \in Ways(t), NEW q \in Subs, t[q] = Tree!Named(r), place'[q] # Tree!Gone
            PROVE  \E k \in 1 .. n : found[k] = <<Len(r) + 1, q>>
        <5>1. q # p /\ place[q] # Tree!Gone
          BY <3>4, <4>9
        <5>2. PICK k \in DOMAIN actor.found : actor.found[k] = <<Len(r) + 1, q>>
          BY <4>1, <4>9, <5>1 DEF PackagesInv, Kept
        <5>3. k # 1
          BY <2>1, <5>1, <5>2
        <5>4. k \in 1 .. n + 1 /\ n \in Nat
          BY <2>1
        <5>5. k - 1 \in 1 .. n /\ (k - 1) + 1 = k
          BY <5>3, <5>4
        <5>6. found[k - 1] = actor.found[k]
          BY <2>1, <5>5
        <5> QED
          BY <5>2, <5>5, <5>6
      <4>10. Kept(t, place', found)
        BY <2>1, <4>9 DEF Kept
      <4>11. PackagesInv'
        BY <2>1, <3>3, <4>5, <4>6, <4>7, <4>8, <4>10 DEF PackagesInv
      <4> QED
        BY <4>2, <4>4, <4>11
    <3>6. p \in Subs \cup Tree!Objects /\ listed \in SUBSET (Tree!Objects \X Seq(Subs)) /\ found \in Seq(Nat \X Subs)
      BY <1>2, <2>1 DEF listed
    <3> QED
      BY <1>1, <3>1, <3>2, <3>5, <3>6, TreeDeletes
  <2>5. CASE ~(place[p] # Tree!Gone /\ \A y \in DOMAIN place : place[y] # p)
    <3>1. Tree!Exit("error") /\ UNCHANGED <<place, history>>
      BY <1>5, <2>5 DEF Tree!Delete, p
    <3>2. ~history.calm
      BY <2>3, <2>5
    <3> QED
      BY <1>1, <3>1, <3>2, TreeRefused DEF DeletesAll
  <2> QED
    BY <2>4, <2>5
<1>6. CASE Tree!Fail
  BY <1>1, <1>6, TreeFails
<1> QED
  BY <1>4, <1>5, <1>6 DEF Tree!DeletePackage

LEMMA TreeDeleteTop ==
    ASSUME TreeInv, Tree!DeleteTop
    PROVE  TreeInv'
<1> DEFINE t == history.began
<1>1. /\ actor \in TreeActors /\ place \in TreeServers /\ history \in TreeHistories /\ actor.cmd.do = "delete"
      /\ actor.pc = "deleteTop" /\ actor.exit = "none" /\ Deleting /\ t \in Trees /\ "top" \in DOMAIN place
  BY DEF TreeInv, TreeTypes, Tree!DeleteTop, Deleting, TreeHistories, TreeServers
<1>2. actor.cmd.recursive \in BOOLEAN
  BY <1>1 DEF TreeActors, Tree!Commands
<1>3. ASSUME history.calm, actor.cmd.recursive
      PROVE  place["top"] # Tree!Gone /\ \A y \in DOMAIN place : place[y] # "top"
  <2>1. PlacesInv /\ PackagesInv
    BY <1>1, <1>3 DEF TreeInv, DeleteInv, DeletesAll
  <2>2. place["top"] # Tree!Gone
    BY <1>1, <2>1 DEF PlacesInv, Trees, Tree!Elsewhere, Tree!Gone
  <2>3. actor.found = <<>>
    BY <1>1, <2>1 DEF PackagesInv
  <2>4. ASSUME NEW y \in DOMAIN place, place[y] = "top" PROVE FALSE
    <3> DEFINE r == <<>>
    <3>1. r \in Ways(t) /\ place[y] = Tree!Named(r)
      BY <1>1, <2>4, WayBegins
    <3> HIDE DEF r
    <3>2. \E k \in DOMAIN actor.found : actor.found[k] = <<Len(r) + 1, y>>
      BY <1>1, <1>3, <3>1, TreeEmpties DEF DeletesAll
    <3> QED
      BY <2>3, <3>2
  <2> QED
    BY <2>2, <2>4
<1>4. ASSUME history.calm, \A y \in DOMAIN place : place[y] # "top",
             NEW r \in Ways(t), NEW o \in Tree!Objects, t[o] = Tree!Named(r)
      PROVE  place[o] = Tree!Gone
  <2>1. CASE actor.cmd.recursive
    BY <1>1, <1>4, <2>1 DEF TreeInv, DeleteInv, DeletesAll, ObjectsInv
  <2>2. CASE ~actor.cmd.recursive
    <3>1. place = t /\ DOMAIN t = Subs \cup Tree!Objects \cup {"top"}
      BY <1>1, <1>4, <2>2 DEF TreeInv, EndInv, Trees
    <3>2. r \in Seq(Subs) /\ Len(r) \in Nat /\ Tree!Leads(t, r)
      BY DEF Ways
    <3>3. CASE Len(r) = 0
      BY <1>4, <3>1, <3>2, <3>3 DEF Tree!Named
    <3>4. CASE Len(r) # 0
      <4>1. 1 \in DOMAIN r /\ r[1] \in Subs
        BY <3>2, <3>4
      <4>2. t[r[1]] = "top"
        BY <3>2, <4>1 DEF Tree!Leads
      <4> QED
        BY <1>4, <3>1, <4>1, <4>2
    <3> QED
      BY <3>3, <3>4
  <2> QED
    BY <1>2, <2>1, <2>2
<1>5. ASSUME Tree!Delete("top", [actor EXCEPT !.pc = "done", !.exit = "ok"]) PROVE TreeInv'
  <2>1. CASE place["top"] # Tree!Gone /\ \A y \in DOMAIN place : place[y] # "top"
    <3>1. /\ place' = [place EXCEPT !["top"] = Tree!Gone] /\ history' = history
          /\ actor' = [actor EXCEPT !.pc = "done", !.exit = "ok"]
      BY <1>5, <2>1 DEF Tree!Delete
    <3>2. /\ actor' \in TreeActors' /\ actor'.pc = "done" /\ actor'.cmd = actor.cmd /\ actor'.exit = "ok"
      BY <1>1, <3>1 DEF TreeActors
    <3>3. /\ place' \in TreeServers /\ DOMAIN place' = DOMAIN place /\ place'["top"] = Tree!Gone
          /\ \A y \in DOMAIN place : place'[y] \in {place[y], Tree!Gone} /\ (place[y] = Tree!Gone => place'[y] = Tree!Gone)
          /\ DOMAIN place = Subs \cup Tree!Objects \cup {"top"}
      BY <1>1, <3>1 DEF TreeServers, Tree!Homes
    <3>4. TreeTypes'
      BY <1>1, <3>1, <3>2, <3>3 DEF TreeTypes, Walking, DeletesAll
    <3>5. TreeTop'
      <4>1. Tree!Gone # "top"
        BY DEF Tree!Gone
      <4> QED
        BY <2>1, <3>3, <4>1 DEF TreeTop
    <3>6. TreeFiles' /\ Tree!CheckedMeansNoError'
      BY <1>1, <3>2 DEF TreeFiles, Tree!CheckedMeansNoError
    <3>7. WalkInv' /\ DeleteInv'
      BY <3>2 DEF WalkInv, Walking, DeleteInv, Deleting
    <3>8. EndInv'
      BY <1>1, <1>4, <2>1, <3>1, <3>2, <3>3 DEF EndInv, Deleted
    <3> QED
      BY <3>4, <3>5, <3>6, <3>7, <3>8 DEF TreeInv
  <2>2. CASE ~(place["top"] # Tree!Gone /\ \A y \in DOMAIN place : place[y] # "top")
    <3>1. Tree!Exit("error") /\ UNCHANGED <<place, history>>
      BY <1>5, <2>2 DEF Tree!Delete
    <3>2. history.calm => ~actor.cmd.recursive
      BY <1>3, <2>2
    <3> QED
      BY <1>1, <3>1, <3>2, TreeRefused
  <2> QED
    BY <2>1, <2>2
<1>6. CASE Tree!Fail
  BY <1>1, <1>6, TreeFails
<1> QED
  BY <1>5, <1>6 DEF Tree!DeleteTop

-----------------------------------------------------------------------------
LEMMA TreeRequest ==
    ASSUME TreeInv, Tree!Request
    PROVE  TreeInv'
<1>1. /\ actor \in TreeActors /\ place \in TreeServers /\ history \in TreeHistories
      /\ actor.pc = "request" /\ actor.exit = "none" /\ actor.cmd.do \in {"check", "activate"}
      /\ history.calm \in BOOLEAN
  BY DEF TreeInv, TreeTypes, Tree!Request, TreeHistories
<1>2. PICK how \in {"ok", "error"} :
          /\ Tree!Exit(how) /\ place' = place
          /\ history' \in TreeHistories /\ history'.began = history.began /\ (history'.calm => history.calm)
          /\ how = "ok" /\ actor.cmd.do = "check" => ~history'.errors
  BY <1>1 DEF Tree!Request, TreeHistories
<1>3. actor' = [actor EXCEPT !.pc = "done", !.exit = how]
  BY <1>2 DEF Tree!Exit
<1>4. /\ actor' \in TreeActors' /\ actor'.pc = "done" /\ actor'.cmd = actor.cmd /\ actor'.exit = how
      /\ actor'.listed = actor.listed
  BY <1>1, <1>3 DEF TreeActors
<1>5. TreeTypes'
  BY <1>1, <1>2, <1>4 DEF TreeTypes, Walking, DeletesAll
<1>6. TreeTop'
  BY <1>1, <1>2, <1>4 DEF TreeInv, TreeTop
<1>7. TreeFiles' /\ Tree!CheckedMeansNoError'
  BY <1>1, <1>2, <1>4 DEF TreeFiles, Tree!CheckedMeansNoError
<1>8. WalkInv' /\ DeleteInv'
  BY <1>4 DEF WalkInv, Walking, DeleteInv, Deleting
<1>9. EndInv'
  BY <1>1, <1>2, <1>4 DEF TreeInv, EndInv, DeletesAll
<1> QED
  BY <1>5, <1>6, <1>7, <1>8, <1>9 DEF TreeInv

\* Somebody else moves something, and the command is not calm any more.
LEMMA TreeOthers ==
    ASSUME TreeInv, Tree!Others
    PROVE  TreeInv'
<1>1. /\ actor' = actor /\ actor.pc # "done" /\ history' = [history EXCEPT !.calm = FALSE]
      /\ \E x \in Subs \cup {"prog"}, to \in {"top", Tree!Elsewhere} :
            place["top"] # Tree!Gone /\ place' = [place EXCEPT ![x] = to]
  BY DEF Tree!Others
<1>2. /\ actor \in TreeActors /\ place \in TreeServers /\ history \in TreeHistories /\ actor.exit = "none"
  BY <1>1 DEF TreeInv, TreeTypes
<1>3. history' \in TreeHistories /\ ~history'.calm /\ history'.errors = history.errors /\ history'.undone = history.undone
  BY <1>1, <1>2 DEF TreeHistories
<1>4. place' \in TreeServers /\ place'["top"] # Tree!Gone
  BY <1>1, <1>2, NamesDiffer DEF TreeServers, Tree!Homes, Tree!Packages, Tree!Objects
<1>5. TreeTypes'
  BY <1>1, <1>2, <1>3, <1>4 DEF TreeInv, TreeTypes, Walking, DeletesAll, TreeActors
<1>6. TreeTop' /\ Tree!CheckedMeansNoError'
  BY <1>1, <1>2, <1>4 DEF TreeTop, Tree!CheckedMeansNoError
<1>7. TreeFiles'
  BY <1>1, <1>3 DEF TreeInv, TreeFiles, Left, Filed
<1> QED
  BY <1>3, <1>5, <1>6, <1>7 DEF TreeInv, WalkInv, DeleteInv, EndInv


LEMMA TreeBegins ==
    ASSUME Tree!Init
    PROVE  TreeInv
<1> DEFINE t == history.began
           queue == << <<>> >>
           way == <<>>
<1>1. PICK asked \in Tree!Commands :
          actor = [cmd |-> asked, pc |-> IF asked = [do |-> "delete", recursive |-> FALSE] THEN "deleteTop" ELSE "packages",
                    queue |-> << <<>> >>, path |-> <<>>, here |-> <<>>, listed |-> {},
                    found |-> <<>>, files |-> {}, exit |-> "none"]
  BY DEF Tree!Init
<1>2. /\ place \in [Subs \cup Tree!Objects \cup {"top"} -> Tree!Homes \ {Tree!Gone}] /\ place["top"] = Tree!Elsewhere
      /\ history = [began |-> place, calm |-> TRUE, errors |-> FALSE, undone |-> {}]
  BY DEF Tree!Init
<1>3. t \in Trees /\ history \in TreeHistories /\ place \in TreeServers /\ place = t
  BY <1>2 DEF Trees, TreeHistories, TreeServers
<1>4. queue \in Seq(Seq(Subs)) /\ queue # <<>> /\ DOMAIN queue = {1} /\ queue[1] = way /\ way \in Seq(Subs)
  OBVIOUS
<1>5. /\ actor.pc = IF asked = [do |-> "delete", recursive |-> FALSE] THEN "deleteTop" ELSE "packages"
      /\ actor.cmd = asked /\ actor.queue = queue /\ actor.listed = {} /\ actor.found = <<>>
      /\ actor.exit = "none"
  BY <1>1
<1>6. actor \in TreeActors
  <2>1. <<>> \in Seq(Tree!Objects) /\ <<>> \in Seq(Nat \X Subs) /\ {} \in SUBSET (Tree!Objects \X Seq(Subs))
    OBVIOUS
  <2> QED
    BY <1>1, <1>4, <2>1 DEF TreeActors
<1>7. way \in Ways(t) /\ Tree!Named(way) = "top"
  BY <1>3, WayBegins
<1> HIDE DEF queue, way
<1>8. asked.do = "delete" /\ ~asked.recursive <=> asked = [do |-> "delete", recursive |-> FALSE]
  <2>1. asked \in [do: {"list", "delete", "checkout", "check", "activate"}, recursive: BOOLEAN]
    BY DEF Tree!Commands
  <2>2. asked.recursive \in BOOLEAN /\ asked = [do |-> asked.do, recursive |-> asked.recursive]
    BY <2>1
  <2>3. ASSUME asked.do = "delete", ~asked.recursive PROVE asked = [do |-> "delete", recursive |-> FALSE]
    <3>1. asked.recursive = FALSE
      BY <2>2, <2>3
    <3> QED
      BY <2>2, <2>3, <3>1
  <2> QED
    BY <2>3
<1>9. TreeTypes
  BY <1>3, <1>4, <1>5, <1>6, <1>8 DEF TreeTypes, Walking, DeletesAll
<1>10. TreeTop /\ TreeFiles /\ Tree!CheckedMeansNoError
  BY <1>2, <1>5 DEF TreeTop, TreeFiles, Tree!CheckedMeansNoError, Tree!Elsewhere, Tree!Gone
<1>11. \A r : Pending(queue, r)
  BY <1>4, <1>7 DEF Pending, Line
<1>12. WalkInv
  <2> SUFFICES ASSUME Walking PROVE QueueInv /\ ListedInv /\ FoundInv
    BY DEF WalkInv
  <2>1. actor.pc = "packages"
    BY <1>5 DEF Walking
  <2>2. QueueInv
    BY <1>3, <1>4, <1>5, <1>7, <2>1 DEF QueueInv, Apart
  <2>3. ListedInv
    BY <1>5, <1>11 DEF ListedInv, Right
  <2>4. FoundInv
    BY <1>5, <1>11 DEF FoundInv, FoundBy, FoundOnce
  <2> QED
    BY <2>2, <2>3, <2>4
<1>13. DeleteInv /\ EndInv
  BY <1>3, <1>5, <1>8 DEF DeleteInv, Deleting, DeletesAll, EndInv
<1> QED
  BY <1>9, <1>10, <1>12, <1>13 DEF TreeInv

LEMMA TreeSteps ==
    ASSUME TreeInv, Tree!Next
    PROVE  TreeInv'
BY TreePackages, TreeObjects, TreeVisit, TreeDeleteObject, TreeDeletePackage, TreeDeleteTop, TreeRequest,
   TreeOthers DEF Tree!Next

LEMMA TreeGood ==
    ASSUME TreeInv
    PROVE  Tree!TreeAsReported
<1> DEFINE t == history.began
<1>1. /\ actor \in TreeActors /\ t \in Trees /\ (actor.pc = "done" <=> actor.exit # "none")
      /\ actor.exit \in {"none", "ok", "error"} /\ actor.listed \in SUBSET (Tree!Objects \X Seq(Subs))
      /\ (actor.exit = "ok" => actor.pc = "done")
  BY DEF TreeInv, TreeTypes, TreeActors, TreeHistories
<1>2. \A l : l \in Tree!Inside <=> /\ l[1] \in Tree!Objects /\ l[2] \in Ways(t) /\ l = <<l[1], l[2]>>
                              /\ t[l[1]] = Tree!Named(l[2])
  <2>1. \A r : r \in Ways(t) <=> r \in Tree!Paths /\ Tree!Leads(t, r)
    BY <1>1, WaysAre
  <2> HIDE DEF t
  <2>2. Tree!Inside = {l \in Tree!Objects \X Tree!Paths : Tree!Leads(t, l[2]) /\ t[l[1]] = Tree!Named(l[2])}
    BY DEF Tree!Inside, t
  <2> QED
    BY <2>1, <2>2
<1>3. Tree!CompleteIfCalm
  <2> SUFFICES ASSUME Tree!Done, history.calm
               PROVE  /\ actor.cmd.recursive /\ actor.cmd.do # "delete" => actor.listed = Tree!Inside
                      /\ actor.cmd = [do |-> "delete", recursive |-> TRUE] => actor.exit = "ok"
    BY DEF Tree!CompleteIfCalm
  <2>1. ASSUME actor.cmd.recursive, actor.cmd.do # "delete" PROVE actor.listed = Tree!Inside
    <3>1. Right(t, actor.listed) /\ Everything(t, actor.listed)
      BY <2>1 DEF TreeInv, EndInv, Tree!Done
    <3>2. ASSUME NEW l \in actor.listed PROVE l \in Tree!Inside
      <4>1. l[1] \in Tree!Objects /\ l = <<l[1], l[2]>> /\ l[2] \in Ways(t) /\ t[l[1]] = Tree!Named(l[2])
        BY <1>1, <3>1 DEF Right
      <4> QED
        BY <1>2, <4>1
    <3>3. ASSUME NEW l \in Tree!Inside PROVE l \in actor.listed
      <4>1. l[1] \in Tree!Objects /\ l = <<l[1], l[2]>> /\ l[2] \in Ways(t) /\ t[l[1]] = Tree!Named(l[2])
        BY <1>2
      <4>2. <<l[1], l[2]>> \in actor.listed
        BY <3>1, <4>1 DEF Everything
      <4> QED
        BY <4>1, <4>2
    <3> QED
      BY <3>2, <3>3
  <2>2. ASSUME actor.cmd = [do |-> "delete", recursive |-> TRUE] PROVE actor.exit = "ok"
    BY <1>1, <2>2 DEF TreeInv, EndInv, DeletesAll, Tree!Done
  <2> QED
    BY <2>1, <2>2
<1>4. Tree!DeletedMeansGone
  <2> SUFFICES ASSUME actor.cmd.do = "delete", actor.exit = "ok"
               PROVE  /\ place["top"] = Tree!Gone
                      /\ history.calm => \A o \in Tree!Inside : place[o[1]] = Tree!Gone
                      /\ \A x \in DOMAIN place : place[x] # "top"
    BY DEF Tree!DeletedMeansGone
  <2>1. place["top"] = Tree!Gone /\ \A x \in DOMAIN place : place[x] # "top"
    BY DEF TreeInv, TreeTop
  <2>2. ASSUME history.calm, NEW o \in Tree!Inside PROVE place[o[1]] = Tree!Gone
    <3>1. o[1] \in Tree!Objects /\ o[2] \in Ways(t) /\ t[o[1]] = Tree!Named(o[2])
      BY <1>2
    <3>2. Deleted
      BY <2>2 DEF TreeInv, EndInv
    <3> QED
      BY <3>1, <3>2 DEF Deleted
  <2> QED
    BY <2>1, <2>2
<1>5. Tree!CheckedOut
  <2> SUFFICES ASSUME actor.cmd.do = "checkout", actor.exit = "ok", NEW l \in actor.listed, l[1] # "other"
               PROVE  /\ \/ <<l[2], Tree!Sources(l[1]), l[1]>> \in actor.files
                         \/ <<"source", l[1]>> \in history.undone
                      /\ \/ <<"attributes", l[1]>> \in history.undone
                         \/ \E q \in Tree!Objects : /\ Tree!Attributes(q) = Tree!Attributes(l[1])
                                                   /\ <<l[2], Tree!Attributes(q), q>> \in actor.files
    BY DEF Tree!CheckedOut
  <2>1. Left(l) \/ Filed(l)
    BY DEF TreeInv, TreeFiles
  <2>2. ~Left(l)
    BY <1>1 DEF Left
  <2> QED
    BY <2>1, <2>2 DEF Filed, FiledIn
<1>6. Tree!CheckedMeansNoError
  BY DEF TreeInv
<1> QED
  BY <1>3, <1>4, <1>5, <1>6 DEF Tree!TreeAsReported

LEMMA TreeStutters ==
    ASSUME TreeInv, UNCHANGED small
    PROVE  TreeInv'
<1>1. actor' = actor /\ place' = place /\ history' = history
  BY DEF small
<1>2. TreeTypes'
  BY <1>1 DEF TreeInv, TreeTypes, TreeActors, Walking, DeletesAll
<1>3. TreeTop' /\ Tree!CheckedMeansNoError'
  BY <1>1 DEF TreeInv, TreeTop, Tree!CheckedMeansNoError
<1>4. TreeFiles'
  BY <1>1 DEF TreeInv, TreeFiles, Left, Filed
<1>5. WalkInv'
  <2>1. QueueInv => QueueInv'
    BY <1>1 DEF QueueInv
  <2>2. ListedInv => ListedInv'
    BY <1>1 DEF ListedInv, At
  <2>3. FoundInv => FoundInv'
    BY <1>1 DEF FoundInv
  <2> QED
    BY <1>1, <2>1, <2>2, <2>3 DEF TreeInv, WalkInv, Walking
<1>6. DeleteInv'
  <2>1. PlacesInv => PlacesInv'
    BY <1>1 DEF PlacesInv
  <2>2. ObjectsInv => ObjectsInv'
    BY <1>1 DEF ObjectsInv
  <2>3. PackagesInv => PackagesInv'
    BY <1>1 DEF PackagesInv
  <2> QED
    BY <1>1, <2>1, <2>2, <2>3 DEF TreeInv, DeleteInv, Deleting, DeletesAll
<1>7. EndInv'
  BY <1>1 DEF TreeInv, EndInv, DeletesAll, Deleted
<1> QED
  BY <1>2, <1>3, <1>4, <1>5, <1>6, <1>7 DEF TreeInv

TreePart == part = "tree" => TreeInv

LEMMA TreeAlways == CommandsSpec => []TreePart
<1> USE DEF TreePart
<1>1. CommandsInit => TreePart
  BY PartInit, TreeBegins
<1>2. ASSUME TreePart, [CommandsNext]_all
      PROVE  TreePart'
  <2>1. CASE UNCHANGED small
    <3>1. TreeInv => TreeInv'
      BY <2>1, TreeStutters
    <3> QED
      BY <1>2, <3>1, PartStep
  <2>2. CASE Tree!Next
    <3>1. TreeInv => TreeInv'
      BY <2>2, TreeSteps
    <3> QED
      BY <1>2, <3>1, PartStep
  <2> QED
    BY <1>2, <2>1, <2>2, PartStep
<1> QED
  BY <1>1, <1>2, PTL DEF CommandsSpec

\* For every set of sub packages, however deep they are nested: a walk that nobody
\* disturbs lists each object once with its path, and deletes everything from the
\* inside out without being refused; a package that is reported as deleted is gone
\* and empty, a checkout that ends well has written what it listed, and a check that
\* ends well has seen no error.
THEOREM WalksAreComplete == CommandsSpec => []TreeAsReported
<1>1. TreePart => TreeAsReported
  BY TreeGood DEF TreePart, TreeAsReported
<1> QED
  BY <1>1, TreeAlways, PTL
-----------------------------------------------------------------------------
(***************************************************************************)
(* The types of Activation. That the objects to be activated are objects   *)
(* that were named, and no more than were named, bounds the position.      *)
(***************************************************************************)
ActServer == inactive \subseteq Reports /\ deleted \subseteq inactive /\ ioc \subseteq Reports /\ requested \subseteq Reports
ActPlan ==
    /\ \A k \in 1 .. Len(todo) : \E i \in 1 .. Len(names) : todo[k] = names[i]
    /\ Len(todo) <= Len(names)
    /\ phase = "write" => Len(todo) < pos
ActPlaces ==
    /\ phase \in {"write", "activate", "confirm", "fetch", "results", "verdict", "done"}
    /\ rc \in {"none", "0", "1", "error"}
    /\ pos <= Len(names) + 1
    /\ phase = "verdict" => pos <= Len(todo)
    /\ written \subseteq 1 .. Len(names) /\ bad \subseteq 1 .. Len(todo)
ActScope == ActServer /\ ActPlan /\ ActPlaces

LEMMA ActScopeInit == ASSUME Act!Init PROVE ActScope
<1>1. names \in Seq(Reports) /\ pos = 1
  BY DEF Act!Init, Act!Lists
<1>2. Len(names) \in Nat
  BY <1>1
<1>3. ActServer /\ ActPlaces
  BY <1>1, <1>2 DEF Act!Init, ActServer, ActPlaces
<1>4. CASE todo = <<>>
  BY <1>1, <1>2, <1>3, <1>4 DEF ActPlan, ActScope
<1>5. CASE todo = names /\ phase # "write"
  BY <1>1, <1>2, <1>3, <1>5 DEF ActPlan, ActScope
<1> QED
  BY <1>4, <1>5 DEF Act!Init

LEMMA ActScopeRaises ==
    ASSUME ActScope, Act!Raise, UNCHANGED <<inactive, written>>
    PROVE  ActScope'
<1>1. ActServer' /\ ActPlan'
  BY DEF ActScope, ActServer, ActPlan, Act!Raise, Act!Exit, Act!options
<1>2. ActPlaces'
  BY DEF ActScope, ActPlaces, Act!Raise, Act!Exit, Act!options
<1> QED
  BY <1>1, <1>2 DEF ActScope

LEMMA ActScopeWrite ==
    ASSUME ActInv, ActScope, Act!Write
    PROVE  ActScope'
<1>1. /\ phase = "write" /\ pos \in 1 .. Len(names) /\ names[pos] \in Reports
      /\ names \in Seq(Reports) /\ todo \in Seq(Reports) /\ bad = {}
  BY DEF Act!Write, ActInv, ActTypes, ActWrites
<1>2. CASE Act!Raise /\ UNCHANGED <<inactive, written>>
  BY <1>2, ActScopeRaises
<1>3. CASE /\ inactive' = inactive \cup {names[pos]} /\ deleted' = deleted \ {names[pos]}
           /\ written' = written \cup {pos}
           /\ todo' = Act!Remember(names[pos])
           /\ pos' = pos + 1
           /\ UNCHANGED <<Act!options, phase, ioc, messages, looked, stats, rc, requested, bad>>
  <2>1. UNCHANGED <<names, phase, ioc, rc, requested, bad>>
    BY <1>3 DEF Act!options
  <2>2. ActServer'
    BY <1>1, <1>3, <2>1 DEF ActScope, ActServer
  <2>3. ActPlan'
    <3>1. CASE todo' = todo
      BY <1>1, <1>3, <2>1, <3>1 DEF ActScope, ActPlan
    <3>2. CASE todo' = Append(todo, names[pos])
      <4>1. Len(todo') = Len(todo) + 1 /\ Len(todo) \in Nat
        BY <1>1, <3>2
      <4>2. ASSUME NEW k \in 1 .. Len(todo')
            PROVE  \E i \in 1 .. Len(names) : todo'[k] = names[i]
        <5>1. CASE k = Len(todo) + 1
          BY <1>1, <3>2, <5>1
        <5>2. CASE k \in 1 .. Len(todo)
          BY <1>1, <3>2, <5>2 DEF ActScope, ActPlan
        <5> QED
          BY <4>1, <5>1, <5>2
      <4> QED
        BY <1>1, <1>3, <2>1, <4>1, <4>2 DEF ActScope, ActPlan
    <3> QED
      BY <1>3, <3>1, <3>2 DEF Act!Remember
  <2>4. ActPlaces'
    BY <1>1, <1>3, <2>1 DEF ActScope, ActPlaces
  <2> QED
    BY <2>2, <2>3, <2>4 DEF ActScope
<1> QED
  BY <1>2, <1>3 DEF Act!Write

LEMMA ActScopeWritten ==
    ASSUME ActInv, ActScope, Act!Written
    PROVE  ActScope'
<1>1. /\ phase = "write" /\ pos' = 1 /\ names \in Seq(Reports) /\ bad = {} /\ phase' \in {"activate", "done"}
      /\ rc' = rc \/ rc' = "0"
  BY DEF Act!Written, Act!Exit, ActInv, ActTypes, ActWrites
<1>2. UNCHANGED <<names, todo, ioc, inactive, deleted, written, requested, bad>>
  BY DEF Act!Written, Act!options
<1>3. ActServer' /\ ActPlan'
  BY <1>1, <1>2 DEF ActScope, ActServer, ActPlan
<1>4. ActPlaces'
  BY <1>1, <1>2 DEF ActScope, ActPlaces
<1> QED
  BY <1>3, <1>4 DEF ActScope

\* Whatever is asked for is a set of objects, and the server activates no other.
LEMMA ActScopeActivates ==
    ASSUME ActScope, pos <= Len(todo), phase' = Act!NextPhase, NEW asked \in SUBSET Reports,
           Act!ServerActivates(asked), UNCHANGED <<names, pos, todo, ioc, rc, written, bad>>
    PROVE  ActScope'
<1>1. ActServer'
  BY DEF ActScope, ActServer, Act!ServerActivates
<1>2. phase' \in {"verdict", "fetch"}
  BY DEF Act!NextPhase
<1>3. ActPlan'
  BY <1>2 DEF ActScope, ActPlan
<1>4. ActPlaces'
  BY <1>2 DEF ActScope, ActPlaces
<1> QED
  BY <1>1, <1>3, <1>4 DEF ActScope

LEMMA ActScopePreaudit ==
    ASSUME ActInv, ActScope, Act!Preaudit
    PROVE  ActScope'
<1>1. phase = "activate" /\ pos \in 1 .. Len(todo) /\ todo \in Seq(Reports)
  BY DEF Act!Preaudit, ActInv, ActTypes
<1>2. CASE Act!Raise /\ UNCHANGED <<inactive, written>>
  BY <1>2, ActScopeRaises
<1>3. CASE /\ Act!ServerActivates(Act!Target) /\ phase' = Act!NextPhase
           /\ UNCHANGED <<Act!options, pos, todo, ioc, looked, stats, rc, written, bad>>
  <2>1. Act!Target \in SUBSET Reports
    BY <1>1 DEF Act!Target, Act!Range
  <2> QED
    BY <1>1, <1>3, <2>1, ActScopeActivates DEF Act!options
<1>4. CASE /\ ioc' \in SUBSET inactive /\ phase' = "confirm"
           /\ UNCHANGED <<Act!options, pos, todo, messages, looked, stats, rc, inactive,
                          deleted, written, requested, bad>>
  BY <1>1, <1>4 DEF ActScope, ActServer, ActPlan, ActPlaces, Act!options
<1> QED
  BY <1>2, <1>3, <1>4 DEF Act!Preaudit

LEMMA ActScopeConfirm ==
    ASSUME ActInv, ActScope, Act!Confirm
    PROVE  ActScope'
<1>1. phase = "confirm" /\ pos <= Len(todo)
  BY DEF Act!Confirm, ActInv, ActBooks
<1>2. CASE Act!Raise /\ UNCHANGED <<inactive, written>>
  BY <1>2, ActScopeRaises
<1>3. CASE /\ Act!ServerActivates(ioc \ deleted) /\ phase' = Act!NextPhase
           /\ UNCHANGED <<Act!options, pos, todo, ioc, looked, stats, rc, written, bad>>
  <2>1. ioc \ deleted \in SUBSET Reports
    BY DEF ActScope, ActServer
  <2> QED
    BY <1>1, <1>3, <2>1, ActScopeActivates DEF Act!options
<1> QED
  BY <1>2, <1>3 DEF Act!Confirm

LEMMA ActScopeFetch ==
    ASSUME ActScope, Act!Fetch
    PROVE  ActScope'
<1>1. CASE Act!Raise /\ UNCHANGED <<inactive, written>>
  BY <1>1, ActScopeRaises
<1>2. CASE /\ phase' = "results"
           /\ UNCHANGED <<Act!options, pos, todo, ioc, messages, stats, rc, inactive,
                          deleted, written, requested, bad>>
  BY <1>2 DEF ActScope, ActServer, ActPlan, ActPlaces, Act!options
<1> QED
  BY <1>1, <1>2 DEF Act!Fetch

LEMMA ActScopeResults ==
    ASSUME ActInv, ActScope, Act!HandleResults
    PROVE  ActScope'
<1>1. phase = "results" /\ pos \in 1 .. Len(todo) /\ todo \in Seq(Reports) /\ names \in Seq(Reports)
  BY DEF Act!HandleResults, ActInv, ActTypes, ActBooks
<1>2. UNCHANGED <<names, todo, ioc, inactive, deleted, written, requested>>
  BY DEF Act!HandleResults, Act!options
<1>3. bad' \subseteq bad \cup {pos}
  BY DEF Act!HandleResults
<1>4. \/ phase' = "activate" /\ pos' = pos + 1 /\ pos < Len(todo) /\ rc' = rc
      \/ phase' = "done" /\ pos' = pos /\ rc' \in {"0", "1"}
  BY DEF Act!HandleResults, Act!Exit
<1>5. ActServer' /\ ActPlan'
  BY <1>2, <1>4 DEF ActScope, ActServer, ActPlan
<1>6. ActPlaces'
  BY <1>1, <1>2, <1>3, <1>4 DEF ActScope, ActPlan, ActPlaces
<1> QED
  BY <1>5, <1>6 DEF ActScope

LEMMA ActScopeVerdict ==
    ASSUME ActInv, ActScope, Act!MassVerdict
    PROVE  ActScope'
<1>1. phase = "verdict" /\ pos \in Nat \ {0} /\ todo \in Seq(Reports) /\ names \in Seq(Reports)
  BY DEF Act!MassVerdict, ActInv, ActTypes
<1>2. UNCHANGED <<names, pos, todo, ioc, inactive, deleted, written, requested>>
  BY DEF Act!MassVerdict, Act!options
<1>3. bad' \subseteq bad \cup {pos} /\ phase' = "done" /\ rc' \in {"0", "error"}
  BY DEF Act!MassVerdict, Act!Exit
<1>4. ActServer' /\ ActPlan'
  BY <1>2, <1>3 DEF ActScope, ActServer, ActPlan
<1>5. ActPlaces'
  BY <1>1, <1>2, <1>3 DEF ActScope, ActPlaces
<1> QED
  BY <1>4, <1>5 DEF ActScope

LEMMA ActScopeNext ==
    ASSUME ActInv, ActScope, Act!Next
    PROVE  ActScope'
BY ActScopeWrite, ActScopeWritten, ActScopePreaudit, ActScopeConfirm, ActScopeFetch, ActScopeResults,
   ActScopeVerdict DEF Act!Next

LEMMA ActScopeAlways == CommandsSpec => [](part = "activation" => ActScope)
<1>1. CommandsInit => (part = "activation" => ActScope)
  BY PartInit, ActScopeInit
<1>2. ASSUME ActPart, part = "activation" => ActScope, [CommandsNext]_all
      PROVE  (part = "activation" => ActScope)'
  <2>1. CASE UNCHANGED activation
    BY <1>2, <2>1, PartStep DEF activation, ActScope, ActServer, ActPlan, ActPlaces
  <2>2. CASE part = "activation" /\ Act!Next
    BY <1>2, <2>2, PartStep, ActScopeNext DEF ActPart
  <2> QED
    BY <2>1, <2>2, <1>2, PartStep
<1> QED
  BY <1>1, <1>2, ActAlways, PTL DEF CommandsSpec

LEMMA ActTyped == ASSUME ActInv, ActScope PROVE Act!TypeOK
<1>1. /\ command \in Act!Commands /\ activateToo \in BOOLEAN
      /\ continueOnErrors \in BOOLEAN /\ warningsAsErrors \in BOOLEAN
      /\ messages \in Act!MessageLists /\ looked \in BOOLEAN
      /\ stats.errors \in Nat /\ stats.warnings \in Nat
  BY DEF ActInv, ActTypes, ActStats
<1>2. names \in Seq(Reports) /\ todo \in Seq(Reports) /\ pos \in Nat \ {0}
  BY DEF ActInv, ActTypes
<1>3. Act!Range(names) \subseteq Reports /\ Act!Range(todo) \subseteq Act!Range(names)
  BY <1>2 DEF ActScope, ActPlan, Act!Range
<1>4. /\ pos \in 1 .. (Len(names) + 1)
      /\ written \subseteq DOMAIN names /\ bad \subseteq DOMAIN todo
  BY <1>2 DEF ActScope, ActPlaces
<1>5. /\ phase \in {"write", "activate", "confirm", "fetch", "results", "verdict", "done"}
      /\ rc \in {"none", "0", "1", "error"}
  BY DEF ActScope, ActPlaces
<1>6. /\ ioc \subseteq Reports /\ deleted \subseteq inactive /\ inactive \subseteq Reports
      /\ requested \subseteq Reports
  BY DEF ActScope, ActServer
<1> QED
  BY <1>1, <1>3, <1>4, <1>5, <1>6 DEF Act!TypeOK

-----------------------------------------------------------------------------
(***************************************************************************)
(* The other parts keep their types with their invariants.                 *)
(***************************************************************************)
LEMMA CtsTyped == ASSUME CtsInv PROVE Cts!TypeOK
<1>1. ASSUME NEW c \in Clients, NEW i \in DOMAIN plan[c]
      PROVE  plan[c][i].on \in Cts!Requests
  <2>1. plan[c] \in Seq(CtsCalls)
    BY DEF CtsInv, CtsTypes
  <2>2. plan[c][i] \in CtsCalls
    BY <2>1
  <2> QED
    BY <2>2 DEF CtsCalls
<1> QED
  BY <1>1 DEF CtsInv, CtsTypes, ServerTypes, Cts!TypeOK

LEMMA RepoTyped == ASSUME RepoInv PROVE Repo!TypeOK
<1>1. history.before[System] \in Repo!Repository
  BY DEF RepoInv, RepoTypes, RepoHistories, RepoServers, Repo!Places
<1>2. DOMAIN history.before[System] = RepoFields
  BY <1>1 DEF Repo!Repository, RepoFields
<1>3. actor \in RepoActors /\ place \in RepoServers /\ history \in RepoHistories
  BY DEF RepoInv, RepoTypes
<1> QED
  BY <1>2, <1>3 DEF RepoActors, RepoServers, RepoHistories, Repo!TypeOK

LEMMA AtcTyped == ASSUME AtcInv PROVE Atc!TypeOK
BY DEF AtcInv, AtcTypes, AtcActors, AtcServers, Atc!TypeOK

LEMMA AunitTyped == ASSUME AunitInv PROVE Aunit!TypeOK
<1>1. actor \in AunitActors /\ Len(place.doc) <= MaxElements /\ history.tested \in 0 .. 2
  BY DEF AunitInv, AunitTypes
<1>2. ASSUME NEW k \in DOMAIN actor.results
      PROVE  actor.results[k].place \in Aunit!Places
  <2>1. actor.results \in Seq(AunitNodes)
    BY <1>1 DEF AunitActors
  <2>2. actor.results[k] \in AunitNodes
    BY <2>1
  <2> QED
    BY <2>2 DEF AunitNodes, Aunit!Places
<1>3. actor.class \in 0 .. Len(actor.results)
  BY DEF AunitInv, AunitNodesAre
<1> QED
  BY <1>1, <1>2, <1>3 DEF AunitActors, Aunit!TypeOK

LEMMA TreeTyped == ASSUME TreeInv PROVE Tree!TypeOK
BY DEF TreeInv, TreeTypes, TreeActors, TreeServers, TreeHistories, Tree!TypeOK

\* The parts of this module keep their types.
LargeParts == {"activation", "cts", "repo", "atc", "aunit", "tree"}
LEMMA LargePartsAreTyped == CommandsSpec => [](part \in LargeParts => TypesOK)
<1>1. /\ part = "activation" /\ ActPart /\ (part = "activation" => ActScope) => Act!TypeOK
      /\ part = "cts" /\ CtsPart => Cts!TypeOK
      /\ part = "repo" /\ RepoPart => Repo!TypeOK
      /\ part = "atc" /\ AtcPart => Atc!TypeOK
      /\ part = "aunit" /\ AunitPart => Aunit!TypeOK
      /\ part = "tree" /\ TreePart => Tree!TypeOK
  BY ActTyped, CtsTyped, RepoTyped, AtcTyped, AunitTyped, TreeTyped
  DEF ActPart, CtsPart, RepoPart, AtcPart, AunitPart, TreePart
<1>2. ActPart /\ (part = "activation" => ActScope) /\ CtsPart /\ RepoPart /\ AtcPart /\ AunitPart /\ TreePart
         => (part \in LargeParts => TypesOK)
  BY <1>1 DEF LargeParts, TypesOK
<1> QED
  BY <1>2, ActAlways, ActScopeAlways, CtsAlways, RepoAlways, AtcAlways, AunitAlways, TreeAlways, PTL
===============================================================================
