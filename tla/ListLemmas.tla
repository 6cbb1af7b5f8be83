----------------------------- MODULE ListLemmas -----------------------------
(***************************************************************************)
(* Facts about lists that more than one component rests on: command lines  *)
(* of which the last entry counts, sequences laid end to end, which the    *)
(* ops of a module and the commands of a program are, sums over sets, and  *)
(* what HostProgram lays end to end and adds up: a program and its offsets.*)
(***************************************************************************)
EXTENDS CommandLine, HostProgram, SequencesExt, FiniteSetsExt,
        SequenceTheorems, FiniteSetTheorems, WellFoundedInduction, TLAPS


-----------------------------------------------------------------------------
(* Induction over the numbers, with the set of those for which a fact holds.*)

(* Induction, with the numbers it holds of as a set. *)
LEMMA NatInd ==
  ASSUME NEW S \in SUBSET Nat, 0 \in S, \A n \in S : n + 1 \in S
  PROVE  S = Nat
<1> DEFINE T == Nat \ S
<1>1. SUFFICES ASSUME T # {} PROVE FALSE
  OBVIOUS
<1>0. DEFINE R == OpToRel(<, Nat)
<1>2. IsWellFoundedOn(R, Nat)
  BY NatLessThanWellFounded
<1>3. PICK x \in T : \A y \in T : ~(<<y, x>> \in R)
  <2> HIDE DEF R
  <2>1. QED BY <1>1, <1>2, WFMin
<1>4. \A y \in T : ~(y < x)
  BY <1>3 DEF OpToRel
<1>5. x # 0 /\ x \in Nat
  OBVIOUS
<1>6. x - 1 \in Nat /\ x - 1 < x /\ (x - 1) + 1 = x
  BY <1>5
<1>7. QED
  BY <1>4, <1>6

(* Induction from 1 to n. *)
LEMMA InductionUpTo ==
  ASSUME NEW n \in Nat \ {0}, NEW S, 1 \in S, \A k \in 1 .. n - 1 : k \in S => k + 1 \in S
  PROVE  n \in S
<1> DEFINE T == {k \in Nat : k + 1 <= n => k + 1 \in S}
<1>1. 0 \in T
  OBVIOUS
<1>2. ASSUME NEW k \in T PROVE k + 1 \in T
  <2>1. CASE (k + 1) + 1 <= n
    <3>1. k + 1 \in 1 .. n - 1 /\ k + 1 <= n
      BY <2>1
    <3>2. QED
      BY <3>1
  <2>2. QED
    BY <2>1
<1>3. T = Nat
  <2>1. T \in SUBSET Nat
    OBVIOUS
  <2> HIDE DEF T
  <2>2. QED
    BY <1>1, <1>2, <2>1, NatInd
<1>4. n - 1 \in Nat /\ (n - 1) + 1 = n
  OBVIOUS
<1>5. n - 1 \in T
  <2> HIDE DEF T
  <2>1. QED
    BY <1>3, <1>4
<1>6. (n - 1) + 1 <= n => (n - 1) + 1 \in S
  BY <1>5
<1>7. (n - 1) + 1 <= n
  BY <1>4
<1>8. (n - 1) + 1 \in S
  BY <1>6, <1>7
<1>9. QED
  BY ONLY <1>4, <1>8

(* A set of numbers up to n has a greatest. *)
LEMMA GreatestOf ==
  ASSUME NEW n \in Nat, NEW S \in SUBSET (1 .. n), S # {}
  PROVE  Max(S) \in S /\ \A j \in S : j <= Max(S)
<1> DEFINE T == {k \in Nat : \A U \in SUBSET (1 .. k) : U # {} => \E x \in U : \A y \in U : y <= x}
<1>1. 0 \in T
  <2>1. 1 .. 0 = {}
    OBVIOUS
  <2>2. QED
    BY <2>1
<1>2. ASSUME NEW k \in T PROVE k + 1 \in T
  <2>1. ASSUME NEW U \in SUBSET (1 .. k + 1), U # {}
        PROVE  \E x \in U : \A y \in U : y <= x
    <3>1. CASE k + 1 \in U
      BY <3>1
    <3>2. CASE k + 1 \notin U
      <4>1. U \in SUBSET (1 .. k)
        BY <3>2
      <4>2. QED
        BY <1>2, <2>1, <4>1
    <3>3. QED
      BY <3>1, <3>2
  <2>2. QED
    BY <2>1
<1>3. T = Nat
  <2> HIDE DEF T
  <2>1. T \in SUBSET Nat
    BY DEF T
  <2>2. QED
    BY <1>1, <1>2, <2>1, NatInd
<1>4. PICK x \in S : \A y \in S : y <= x
  BY <1>3
<1>5. \A y \in S : x >= y
  BY <1>4
<1>6. QED
  BY <1>5 DEF Max

(* The last of some positions, when one more is looked at. *)
LEMMA MaxOfNext ==
  ASSUME NEW n \in Nat, NEW S \in SUBSET (1 .. n)
  PROVE  Max(S \cup {n + 1}) = n + 1
<1> DEFINE T == S \cup {n + 1}
<1>1. n + 1 \in T /\ \A b \in T : b \in Nat /\ b <= n + 1
  OBVIOUS
<1> HIDE DEF T
<1>2. PICK a \in T : a = Max(T) /\ \A b \in T : a >= b
  BY <1>1 DEF Max
<1>3. a >= n + 1 /\ a <= n + 1 /\ a \in Nat
  BY <1>1, <1>2
<1>4. QED
  BY <1>2, <1>3 DEF T

-----------------------------------------------------------------------------
(* Command lines.                                                           *)

(* Before the first argument every option is at its default. *)
LEMMA NothingGiven ==
  ASSUME NEW line, NEW option, NEW default
  PROVE  Given(line, option, 0) = {} /\ LastGiven(line, option, 0, default) = default
<1>1. Given(line, option, 0) = {}
  BY DEF Given
<1>2. QED
  BY <1>1 DEF LastGiven

(* The last one counts: reading an argument more overwrites its option and keeps
   the others. *)
LEMMA OneMoreGiven ==
  ASSUME NEW line, NEW option, NEW default, NEW n \in Nat
  PROVE  /\ line[n + 1].option = option =>
              /\ Given(line, option, n + 1) # {}
              /\ LastGiven(line, option, n + 1, default) = line[n + 1].value
         /\ line[n + 1].option # option =>
              /\ Given(line, option, n + 1) = Given(line, option, n)
              /\ LastGiven(line, option, n + 1, default) = LastGiven(line, option, n, default)
<1>1. ASSUME line[n + 1].option = option
      PROVE  /\ Given(line, option, n + 1) # {}
             /\ LastGiven(line, option, n + 1, default) = line[n + 1].value
  <2> DEFINE given == Given(line, option, n + 1)
  <2>1. n + 1 \in given /\ \A b \in given : b \in Nat /\ b <= n + 1
    BY <1>1 DEF Given
  <2>2. Latest(given) = n + 1
    <3> HIDE DEF given
    <3>1. PICK a \in given : a = Latest(given) /\ \A b \in given : b <= a
      BY <2>1 DEF Latest
    <3>2. a <= n + 1 /\ n + 1 <= a /\ a \in Nat
      BY <2>1, <3>1
    <3>3. QED
      BY <3>1, <3>2
  <2>3. QED
    BY <2>1, <2>2 DEF LastGiven
<1>2. ASSUME line[n + 1].option # option
      PROVE  /\ Given(line, option, n + 1) = Given(line, option, n)
             /\ LastGiven(line, option, n + 1, default) = LastGiven(line, option, n, default)
  <2>1. Given(line, option, n + 1) = Given(line, option, n)
    <3>1. 1 .. n + 1 = (1 .. n) \cup {n + 1}
      OBVIOUS
    <3>2. QED
      BY <1>2, <3>1 DEF Given
  <2>2. QED
    BY <2>1 DEF LastGiven
<1>3. QED
  BY <1>1, <1>2

-----------------------------------------------------------------------------
(* Sequences laid end to end.                                               *)

(* The recursive function FlattenSeq is defined with. *)
Flattening(flatten, seqs, n) ==
  flatten = [i \in 1 .. n |-> IF i = 1 THEN seqs[i] ELSE flatten[i-1] \o seqs[i]]

(* There is one for every length. *)
LEMMA FlatteningExists ==
  ASSUME NEW seqs, NEW n \in Nat
  PROVE  \E flatten : Flattening(flatten, seqs, n)
<1> DEFINE S == {k \in Nat : \E flatten : Flattening(flatten, seqs, k)}
<1>1. 0 \in S
  <2>1. Flattening([i \in 1 .. 0 |-> 0], seqs, 0)
    BY DEF Flattening
  <2>2. QED
    BY <2>1
<1>2. ASSUME NEW k \in S PROVE k + 1 \in S
  <2>1. PICK f : Flattening(f, seqs, k)
    OBVIOUS
  <2> DEFINE g == [i \in 1 .. k + 1 |->
                     IF i = k + 1 THEN (IF i = 1 THEN seqs[i] ELSE f[k] \o seqs[i]) ELSE f[i]]
  <2>2. ASSUME NEW i \in 1 .. k + 1
        PROVE  g[i] = IF i = 1 THEN seqs[i] ELSE g[i-1] \o seqs[i]
    <3>1. CASE i = k + 1
      <4>1. i # 1 => i - 1 \in 1 .. k + 1 /\ i - 1 # k + 1 /\ i - 1 = k
        BY <3>1
      <4>2. i # 1 => g[i - 1] = f[k]
        BY <4>1
      <4>3. QED
        BY <3>1, <4>2
    <3>2. CASE i # k + 1
      <4>1. i \in 1 .. k /\ (i # 1 => i - 1 \in 1 .. k + 1 /\ i - 1 # k + 1 /\ i - 1 \in 1 .. k)
        BY <3>2
      <4>2. f[i] = IF i = 1 THEN seqs[i] ELSE f[i-1] \o seqs[i]
        BY <2>1, <4>1 DEF Flattening
      <4>3. QED
        BY <3>2, <4>1, <4>2
    <3>3. QED
      BY <3>1, <3>2
  <2>3. Flattening(g, seqs, k + 1)
    <3>1. g = [i \in 1 .. k + 1 |-> g[i]]
      OBVIOUS
    <3> HIDE DEF g
    <3>2. QED
      BY <2>2, <3>1 DEF Flattening
  <2>4. QED
    BY <2>3
<1>3. S = Nat
  BY <1>1, <1>2, NatInd
<1>4. QED
  BY <1>3

(* FlattenSeq is the last entry of one. *)
LEMMA FlattenBy ==
  ASSUME NEW seqs, Len(seqs) \in Nat, Len(seqs) # 0
  PROVE  \E flatten : Flattening(flatten, seqs, Len(seqs)) /\ FlattenSeq(seqs) = flatten[Len(seqs)]
<1> DEFINE f == CHOOSE flatten : Flattening(flatten, seqs, Len(seqs))
<1>1. Flattening(f, seqs, Len(seqs))
  BY FlatteningExists
<1>2. FlattenSeq(seqs) = f[Len(seqs)]
  BY Zenon DEF FlattenSeq, Flattening
<1>3. QED
  BY <1>1, <1>2

(* Where the elements of the first k sequences are in their concatenation: those of
   sequence i after position start[i]. *)
Laid(start, flat, seqs, k) ==
  /\ \A i \in 1 .. k : start[i] \in Nat /\ start[i] + Len(seqs[i]) <= Len(flat)
  /\ \A i \in 1 .. k, j \in Nat \ {0} :
       j <= Len(seqs[i]) => start[i] + j \in 1 .. Len(flat) /\ flat[start[i] + j] = seqs[i][j]
  /\ \A l \in 1 .. Len(flat) :
       \E i \in 1 .. k, j \in Nat \ {0} : j <= Len(seqs[i]) /\ l = start[i] + j
  /\ \A i, j \in 1 .. k : i < j => start[i] + Len(seqs[i]) <= start[j]

(* A sequence alone lies at the start. *)
LEMMA LaidFirst ==
  ASSUME NEW T, NEW seqs, seqs[1] \in Seq(T), NEW start, start[1] = 0
  PROVE  Laid(start, seqs[1], seqs, 1)
<1>1. Len(seqs[1]) \in Nat /\ 1 \in 1 .. 1 /\ \A i \in 1 .. 1 : i = 1
  OBVIOUS
<1>2. \A l \in 1 .. Len(seqs[1]) : l \in Nat \ {0} /\ l <= Len(seqs[1]) /\ l = start[1] + l
  BY <1>1
<1>3. \A j \in Nat \ {0} :
       j <= Len(seqs[1]) => start[1] + j \in 1 .. Len(seqs[1]) /\ seqs[1][start[1] + j] = seqs[1][j]
  BY <1>1
<1>4. \A l \in 1 .. Len(seqs[1]) :
       \E i \in 1 .. 1, j \in Nat \ {0} : j <= Len(seqs[i]) /\ l = start[i] + j
  BY <1>1, <1>2
<1>5. start[1] \in Nat /\ start[1] + Len(seqs[1]) <= Len(seqs[1])
  BY <1>1
<1>6. \A i, j \in 1 .. 1 : ~(i < j)
  OBVIOUS
<1>7. QED
  BY <1>1, <1>3, <1>4, <1>5, <1>6 DEF Laid

(* What stands where in two sequences laid end to end. *)
LEMMA Concatenation ==
  ASSUME NEW T, NEW a \in Seq(T), NEW b \in Seq(T)
  PROVE  /\ a \o b \in Seq(T) /\ Len(a) \in Nat /\ Len(b) \in Nat /\ Len(a \o b) = Len(a) + Len(b)
         /\ \A l \in 1 .. Len(a) : (a \o b)[l] = a[l]
         /\ \A j \in 1 .. Len(b) : (a \o b)[Len(a) + j] = b[j]
  OBVIOUS

(* One more sequence lies after those that are there. *)
LEMMA LaidNext ==
  ASSUME NEW T, NEW seqs, NEW k \in Nat, NEW flat \in Seq(T), \A i \in 1 .. k + 1 : seqs[i] \in Seq(T),
         NEW start, Laid(start, flat, seqs, k), start[k + 1] = Len(flat)
  PROVE  flat \o seqs[k + 1] \in Seq(T) /\ Laid(start, flat \o seqs[k + 1], seqs, k + 1)
<1> DEFINE last == seqs[k + 1]
           all == flat \o last
<1>1. /\ all \in Seq(T) /\ Len(flat) \in Nat /\ Len(last) \in Nat /\ Len(all) = Len(flat) + Len(last)
      /\ \A l \in 1 .. Len(flat) : all[l] = flat[l]
      /\ \A j \in 1 .. Len(last) : all[Len(flat) + j] = last[j]
  <2>1. last \in Seq(T)
    OBVIOUS
  <2> HIDE DEF last
  <2>2. QED
    BY <2>1, Concatenation
<1>2. /\ k + 1 \in 1 .. k + 1 /\ \A i \in 1 .. k + 1 : i \in 1 .. k \/ i = k + 1
      /\ \A i \in 1 .. k : i \in 1 .. k + 1 /\ Len(seqs[i]) \in Nat
  OBVIOUS
<1> HIDE DEF all
<1>3. ASSUME NEW i \in 1 .. k + 1
      PROVE  start[i] \in Nat /\ start[i] + Len(seqs[i]) <= Len(all)
  <2>1. CASE i = k + 1
    BY <1>1, <2>1
  <2>2. CASE i \in 1 .. k
    <3>1. start[i] \in Nat /\ start[i] + Len(seqs[i]) <= Len(flat) /\ Len(seqs[i]) \in Nat
      BY <1>2, <2>2 DEF Laid
    <3>2. QED
      BY <1>1, <3>1
  <2>3. QED
    BY <1>2, <2>1, <2>2
<1>4. ASSUME NEW i \in 1 .. k + 1, NEW j \in Nat \ {0}, j <= Len(seqs[i])
      PROVE  start[i] + j \in 1 .. Len(all) /\ all[start[i] + j] = seqs[i][j]
  <2>1. CASE i = k + 1
    <3>1. j \in 1 .. Len(last)
      BY <1>1, <1>4, <2>1
    <3>2. Len(flat) + j \in 1 .. Len(all) /\ all[Len(flat) + j] = last[j]
      BY <1>1, <3>1
    <3>3. QED
      BY <2>1, <3>2
  <2>2. CASE i \in 1 .. k
    <3>1. start[i] + j \in 1 .. Len(flat) /\ flat[start[i] + j] = seqs[i][j]
      BY <1>4, <2>2 DEF Laid
    <3> DEFINE l == start[i] + j
    <3>2. l \in 1 .. Len(flat) => l \in 1 .. Len(all)
      BY <1>1
    <3>3. QED
      BY <1>1, <3>1, <3>2
  <2>3. QED
    BY <1>2, <2>1, <2>2
<1>5. ASSUME NEW l \in 1 .. Len(all)
      PROVE  \E i \in 1 .. k + 1, j \in Nat \ {0} : j <= Len(seqs[i]) /\ l = start[i] + j
  <2>1. CASE l <= Len(flat)
    <3>1. l \in 1 .. Len(flat)
      BY <1>1, <2>1
    <3>2. PICK i \in 1 .. k, j \in Nat \ {0} : j <= Len(seqs[i]) /\ l = start[i] + j
      BY <3>1 DEF Laid
    <3>3. QED
      BY <1>2, <3>2
  <2>2. CASE ~(l <= Len(flat))
    <3> DEFINE j == l - Len(flat)
    <3>1. j \in Nat \ {0} /\ j <= Len(last) /\ l = Len(flat) + j
      BY <1>1, <2>2
    <3> HIDE DEF j
    <3>2. QED
      BY <1>2, <3>1
  <2>3. QED
    BY <2>1, <2>2
<1>6. ASSUME NEW i \in 1 .. k + 1, NEW j \in 1 .. k + 1, i < j
      PROVE  start[i] + Len(seqs[i]) <= start[j]
  <2>1. i \in 1 .. k
    BY <1>6
  <2>2. CASE j = k + 1
    BY <2>1, <2>2 DEF Laid
  <2>3. CASE j \in 1 .. k
    BY <1>6, <2>1, <2>3 DEF Laid
  <2>4. QED
    BY <1>2, <2>2, <2>3
<1>7. QED
  BY <1>1, <1>3, <1>4, <1>5, <1>6 DEF Laid, all

(* Every element of the sequences has its place in FlattenSeq, in order, and nothing
   else has. *)
LEMMA FlattenPlaces ==
  ASSUME NEW T, NEW seqs \in Seq(Seq(T))
  PROVE  /\ FlattenSeq(seqs) \in Seq(T)
         /\ \E start : Laid(start, FlattenSeq(seqs), seqs, Len(seqs))
<1>0. CASE Len(seqs) = 0
  <2>1. FlattenSeq(seqs) = seqs /\ seqs = <<>>
    BY <1>0 DEF FlattenSeq
  <2>2. Laid([i \in {} |-> 0], <<>>, <<>>, 0) /\ <<>> \in Seq(T)
    BY DEF Laid
  <2>3. QED
    BY <2>1, <2>2
<1>1. CASE Len(seqs) # 0
  <2>0. PICK f : Flattening(f, seqs, Len(seqs)) /\ FlattenSeq(seqs) = f[Len(seqs)]
    BY <1>1, FlattenBy
  <2> DEFINE n == Len(seqs)
             start == [i \in 1 .. n |-> IF i = 1 THEN 0 ELSE Len(f[i - 1])]
             Done(k) == f[k] \in Seq(T) /\ Laid(start, f[k], seqs, k)
             S == {k \in 1 .. n : Done(k)}
  <2>1. n \in Nat \ {0} /\ \A i \in 1 .. n : seqs[i] \in Seq(T)
    BY <1>1
  <2>2. 1 \in S
    <3>1. 1 \in 1 .. n
      BY <2>1
    <3>2. f[1] = seqs[1] /\ start[1] = 0
      BY <2>0, <3>1 DEF Flattening
    <3> HIDE DEF start
    <3>3. seqs[1] \in Seq(T)
      BY <2>1, <3>1
    <3>4. Done(1)
      BY <3>2, <3>3, LaidFirst
    <3>5. QED
      BY <3>1, <3>4
  <2>3. ASSUME NEW k \in 1 .. n - 1, k \in S PROVE k + 1 \in S
    <3>1. k \in Nat /\ k # 0 /\ k + 1 \in 1 .. n /\ k + 1 # 1 /\ (k + 1) - 1 = k /\ Done(k)
      BY <2>1, <2>3
    <3>2. f[k + 1] = f[k] \o seqs[k + 1]
      <4> HIDE DEF n, start
      <4>1. f[k + 1] = IF k + 1 = 1 THEN seqs[k + 1] ELSE f[(k + 1) - 1] \o seqs[k + 1]
        BY <2>0, <3>1 DEF Flattening, n
      <4>2. QED
        BY <3>1, <4>1
    <3>3. start[k + 1] = Len(f[k])
      BY <3>1
    <3>4. \A i \in 1 .. k + 1 : seqs[i] \in Seq(T)
      BY <2>1, <3>1
    <3> HIDE DEF start
    <3>5. Done(k + 1)
      <4>1. k \in Nat /\ f[k] \in Seq(T) /\ Laid(start, f[k], seqs, k)
        BY <3>1
      <4>2. /\ f[k] \o seqs[k + 1] \in Seq(T)
            /\ Laid(start, f[k] \o seqs[k + 1], seqs, k + 1)
        BY ONLY <4>1, <3>3, <3>4, LaidNext
      <4>3. QED
        BY <3>2, <4>2
    <3> HIDE DEF Done, n
    <3>6. QED
      BY <3>1, <3>5
  <2>4. Done(n)
    <3> HIDE DEF Done
    <3>1. n \in S
      <4> HIDE DEF S
      <4>1. QED
        BY <2>1, <2>2, <2>3, InductionUpTo
    <3>2. QED
      BY <3>1
  <2> HIDE DEF start
  <2>5. QED
    BY <2>0, <2>4
<1>2. QED
  BY <1>0, <1>1

(* A sequence extended by another of one element. *)
LEMMA Extension ==
  ASSUME NEW T, NEW a \in Seq(T), NEW b \in Seq(T), Len(b) <= 1, Len(b) >= 1
  PROVE  /\ a \o b \in Seq(T) /\ Len(a \o b) = Len(a) + 1
         /\ \A i \in 1 .. Len(a) : (a \o b)[i] = a[i]
         /\ (a \o b)[Len(a) + 1] = b[1]
  OBVIOUS

(* Sequences of one element each are flattened element by element. *)
LEMMA FlattenSingles ==
  ASSUME NEW T, NEW seqs \in Seq(Seq(T)), \A i \in 1 .. Len(seqs) : Len(seqs[i]) = 1
  PROVE  /\ FlattenSeq(seqs) \in Seq(T) /\ Len(FlattenSeq(seqs)) = Len(seqs)
         /\ \A i \in 1 .. Len(seqs) : FlattenSeq(seqs)[i] = seqs[i][1]
<1>0. CASE Len(seqs) = 0
  <2>1. FlattenSeq(seqs) = seqs /\ seqs = <<>>
    BY <1>0 DEF FlattenSeq
  <2>2. QED
    BY <2>1
<1>1. CASE Len(seqs) # 0
  <2>0. PICK f : Flattening(f, seqs, Len(seqs)) /\ FlattenSeq(seqs) = f[Len(seqs)]
    BY <1>1, FlattenBy
  <2> DEFINE n == Len(seqs)
             Done(k) == f[k] \in Seq(T) /\ Len(f[k]) = k /\ \A i \in 1 .. k : f[k][i] = seqs[i][1]
             S == {k \in 1 .. n : Done(k)}
  <2>1. n \in Nat \ {0} /\ \A i \in 1 .. n : seqs[i] \in Seq(T) /\ Len(seqs[i]) = 1
    BY <1>1
  <2>2. 1 \in S
    <3>1. 1 \in 1 .. n
      BY <2>1
    <3>2. f[1] = seqs[1]
      BY <2>0, <3>1 DEF Flattening
    <3>3. \A i \in 1 .. 1 : i = 1
      OBVIOUS
    <3>4. QED
      BY <2>1, <3>1, <3>2, <3>3
  <2>3. ASSUME NEW k \in 1 .. n - 1, k \in S PROVE k + 1 \in S
    <3>0. Done(k)
      <4> HIDE DEF Done, n
      <4>1. QED
        BY <2>3
    <3>1. k \in Nat /\ k + 1 \in 1 .. n /\ k + 1 # 1 /\ (k + 1) - 1 = k
      BY <2>1, <2>3
    <3>2. f[k + 1] = f[k] \o seqs[k + 1]
      <4> HIDE DEF n
      <4>1. f[k + 1] = IF k + 1 = 1 THEN seqs[k + 1] ELSE f[(k + 1) - 1] \o seqs[k + 1]
        BY <2>0, <3>1 DEF Flattening, n
      <4>2. QED
        BY <3>1, <4>1
    <3>3. seqs[k + 1] \in Seq(T) /\ Len(seqs[k + 1]) = 1
      BY <2>1, <3>1
    <3>4. /\ f[k + 1] \in Seq(T) /\ Len(f[k + 1]) = k + 1
          /\ \A i \in 1 .. k : f[k + 1][i] = f[k][i]
          /\ f[k + 1][k + 1] = seqs[k + 1][1]
      <4>1. f[k] \in Seq(T) /\ Len(f[k]) = k
        BY <3>0
      <4>2. /\ f[k] \o seqs[k + 1] \in Seq(T) /\ Len(f[k] \o seqs[k + 1]) = Len(f[k]) + 1
            /\ \A i \in 1 .. Len(f[k]) : (f[k] \o seqs[k + 1])[i] = f[k][i]
            /\ (f[k] \o seqs[k + 1])[Len(f[k]) + 1] = seqs[k + 1][1]
        <5>1. f[k] \in Seq(T) /\ seqs[k + 1] \in Seq(T) /\ Len(seqs[k + 1]) <= 1 /\ Len(seqs[k + 1]) >= 1
          BY <3>3, <4>1
        <5>2. QED
          BY ONLY <5>1, Extension
      <4>3. QED
        BY <3>2, <4>1, <4>2
    <3>5. \A i \in 1 .. k + 1 : i \in 1 .. k \/ i = k + 1
      BY <3>1
    <3>6. \A i \in 1 .. k + 1 : f[k + 1][i] = seqs[i][1]
      BY <3>0, <3>4, <3>5
    <3>7. QED
      BY <3>1, <3>4, <3>6
  <2>4. Done(n)
    <3> HIDE DEF Done
    <3>1. n \in S
      <4> HIDE DEF S
      <4>1. QED
        BY <2>1, <2>2, <2>3, InductionUpTo
    <3>2. QED
      BY <3>1
  <2>5. QED
    BY <2>0, <2>4
<1>2. QED
  BY <1>0, <1>1

(* flat holds the only elements of those sequences that have one, in order. *)
Filters(from, flat, seqs) ==
  /\ \A l \in 1 .. Len(flat) : from[l] \in 1 .. Len(seqs) /\ Len(seqs[from[l]]) >= 1 /\ flat[l] = seqs[from[l]][1]
  /\ \A k, l \in 1 .. Len(flat) : k < l => from[k] < from[l]
  /\ \A i \in 1 .. Len(seqs) : Len(seqs[i]) >= 1 => \E l \in 1 .. Len(flat) : from[l] = i

(* Flattening sequences of at most one element filters them. *)
LEMMA Filtered ==
  ASSUME NEW T, NEW seqs \in Seq(Seq(T)), \A i \in 1 .. Len(seqs) : Len(seqs[i]) <= 1,
         NEW flat, flat = FlattenSeq(seqs)
  PROVE  /\ flat \in Seq(T)
         /\ \E from : Filters(from, flat, seqs)
<1>1. flat \in Seq(T) /\ Len(flat) \in Nat /\ Len(seqs) \in Nat
  BY FlattenPlaces
<1>2. PICK start : Laid(start, flat, seqs, Len(seqs))
  BY FlattenPlaces
<1>3. \A i \in 1 .. Len(seqs) : Len(seqs[i]) \in Nat /\ start[i] \in Nat /\ start[i] + Len(seqs[i]) <= Len(flat)
  BY <1>2 DEF Laid
<1> DEFINE from == [l \in 1 .. Len(flat) |->
                      CHOOSE i \in 1 .. Len(seqs) : Len(seqs[i]) >= 1 /\ l = start[i] + 1]
<1>4. ASSUME NEW l \in 1 .. Len(flat)
      PROVE  from[l] \in 1 .. Len(seqs) /\ Len(seqs[from[l]]) >= 1 /\ l = start[from[l]] + 1
  <2>1. PICK i \in 1 .. Len(seqs) : \E j \in Nat \ {0} : j <= Len(seqs[i]) /\ l = start[i] + j
    BY <1>2 DEF Laid
  <2>2. PICK j \in Nat \ {0} : j <= Len(seqs[i]) /\ l = start[i] + j
    BY <2>1
  <2>3. Len(seqs[i]) >= 1 /\ l = start[i] + 1
    BY <1>3, <2>2
  <2>4. QED
    BY <2>3
<1> HIDE DEF from
<1>5. ASSUME NEW l \in 1 .. Len(flat) PROVE flat[l] = seqs[from[l]][1]
  <2>1. PICK i \in 1 .. Len(seqs) : i = from[l]
    BY <1>4
  <2>2. Len(seqs[i]) >= 1 /\ l = start[i] + 1
    BY <1>4, <2>1
  <2>3. flat[start[i] + 1] = seqs[i][1]
    BY <1>2, <2>2 DEF Laid
  <2>4. QED
    BY <2>1, <2>2, <2>3
<1>6. ASSUME NEW i \in 1 .. Len(seqs), NEW k \in 1 .. Len(seqs), i < k, Len(seqs[i]) >= 1
      PROVE  start[i] < start[k]
  BY SMTT(30), <1>2, <1>3, <1>6 DEF Laid
<1>7. ASSUME NEW k \in 1 .. Len(flat), NEW l \in 1 .. Len(flat), k < l
      PROVE  from[k] < from[l]
  <2>1. PICK a \in 1 .. Len(seqs) : a = from[k]
    BY <1>4
  <2>2. PICK b \in 1 .. Len(seqs) : b = from[l]
    BY <1>4
  <2>3. Len(seqs[a]) >= 1 /\ k = start[a] + 1 /\ Len(seqs[b]) >= 1 /\ l = start[b] + 1
    BY <1>4, <2>1, <2>2
  <2>4. start[a] < start[b]
    BY SMTT(30), <1>3, <1>7, <2>3
  <2>5. ~(b < a) /\ a # b
    <3>1. b < a => start[b] < start[a]
      BY <1>6, <2>3
    <3>2. start[a] \in Nat /\ start[b] \in Nat
      BY <1>3
    <3>3. QED
      BY <2>4, <3>1, <3>2
  <2>6. QED
    BY <2>1, <2>2, <2>5
<1>8. ASSUME NEW i \in 1 .. Len(seqs), Len(seqs[i]) >= 1
      PROVE  \E l \in 1 .. Len(flat) : from[l] = i
  <2>1. PICK l : l = start[i] + 1
    OBVIOUS
  <2>2. l \in 1 .. Len(flat)
    BY <1>1, <1>3, <1>8, <2>1
  <2>3. PICK b \in 1 .. Len(seqs) : b = from[l]
    BY <1>4, <2>2
  <2>4. Len(seqs[b]) >= 1 /\ l = start[b] + 1
    BY <1>4, <2>2, <2>3
  <2>5. start[b] = start[i]
    BY SMTT(30), <1>3, <2>1, <2>4
  <2>6. ~(b < i) /\ ~(i < b)
    BY SMTT(30), <1>3, <1>6, <1>8, <2>4, <2>5
  <2>7. b = i
    BY <2>6
  <2>8. QED
    BY <2>2, <2>3, <2>7
<1>9. Filters(from, flat, seqs)
  BY <1>4, <1>5, <1>7, <1>8 DEF Filters
<1>10. QED
  BY <1>1, <1>9

(* Steps of one climb through numbers that have none left out. *)
Climbs(h, n, m) ==
  /\ n \in Nat /\ m \in Nat
  /\ \A l \in 1 .. n : h[l] \in 1 .. m
  /\ \A k, l \in 1 .. n : k < l => h[k] < h[l]
  /\ \A p \in 1 .. m : \E l \in 1 .. n : h[l] = p

(* Numbers that climb through all of 1 .. m climb by one. *)
LEMMA ClimbByOne ==
  ASSUME NEW n, NEW m, NEW h, Climbs(h, n, m)
  PROVE  n = m /\ \A l \in 1 .. n : h[l] = l
<1> USE DEF Climbs
<1> DEFINE T == {k \in Nat : \A l \in 1 .. n : l <= k => h[l] = l}
<1>1. 0 \in T
  OBVIOUS
<1>2. ASSUME NEW k \in T PROVE k + 1 \in T
  <2>1. ASSUME NEW l \in 1 .. n, l = k + 1 PROVE h[l] = l
    <3>1. h[l] \in Nat /\ h[l] >= k + 1
      <4>1. CASE k = 0
        BY <2>1, <4>1
      <4>2. CASE k # 0
        <5>1. k \in 1 .. n /\ h[k] = k /\ k < l
          BY <2>1, <4>2
        <5>2. QED
          BY <2>1, <5>1
      <4>3. QED
        BY <4>1, <4>2
    <3>2. k + 1 \in 1 .. m
      BY <2>1, <3>1
    <3>3. PICK j \in 1 .. n : h[j] = k + 1
      BY <3>2
    <3>4. ~(j <= k)
      BY <3>3
    <3>5. ~(j > k + 1)
      BY <2>1, <3>1, <3>3
    <3>6. j = l
      BY <2>1, <3>4, <3>5
    <3>7. QED
      BY <2>1, <3>3, <3>6
  <2>2. ASSUME NEW l \in 1 .. n, l <= k + 1 PROVE h[l] = l
    BY <2>1, <2>2
  <2>3. QED
    BY <2>2
<1>3. T = Nat
  <2> HIDE DEF T
  <2>1. T \in SUBSET Nat
    BY DEF T
  <2>2. QED
    BY <1>1, <1>2, <2>1, NatInd
<1>4. \A l \in 1 .. n : h[l] = l
  BY <1>3
<1>5. n <= m
  <2>1. CASE n = 0
    BY <2>1
  <2>2. CASE n # 0
    BY <1>4, <2>2
  <2>3. QED
    BY <2>1, <2>2
<1>6. m <= n
  <2>1. CASE m = 0
    BY <2>1
  <2>2. CASE m # 0
    <3>1. PICK l \in 1 .. n : h[l] = m
      BY <2>2
    <3>2. QED
      BY <1>4, <3>1
  <2>3. QED
    BY <2>1, <2>2
<1>7. QED
  BY <1>4, <1>5, <1>6

-----------------------------------------------------------------------------
(* Sums over finite sets.                                                   *)

(* The recursive function MapThenSumSet is defined with. *)
Summing(iter, w, S) ==
  iter = [s \in SUBSET S |->
            IF s = {} THEN 0 ELSE LET x == CHOOSE x \in s : TRUE IN w[x] + iter[s \ {x}]]

(* As many elements as the weights of U add up to: their number is the sum, in
   whichever order the weights are added. *)
Blocks(w, U) == {b \in U \X Nat : b[2] < w[b[1]]}
Total(w, U)  == Cardinality(Blocks(w, U))

(* Another element adds its weight. *)
LEMMA BlocksNext ==
  ASSUME NEW U, NEW w, NEW x, x \notin U, w[x] \in Nat, IsFiniteSet(Blocks(w, U))
  PROVE  /\ IsFiniteSet(Blocks(w, U \cup {x}))
         /\ Total(w, U \cup {x}) = Total(w, U) + w[x]
<1> DEFINE n == w[x]
           column == {x} \X (0 .. n - 1)
           f == [i \in 0 .. n - 1 |-> <<x, i>>]
<1>1. IsFiniteSet(0 .. n - 1) /\ Cardinality(0 .. n - 1) = n
  <2>1. 0 \in Int /\ n - 1 \in Int
    OBVIOUS
  <2>2. /\ IsFiniteSet(0 .. n - 1)
        /\ Cardinality(0 .. n - 1) = IF 0 > n - 1 THEN 0 ELSE (n - 1) - 0 + 1
    BY ONLY <2>1, FS_Interval, Zenon
  <2>3. (IF 0 > n - 1 THEN 0 ELSE (n - 1) - 0 + 1) = n
    OBVIOUS
  <2>4. QED
    BY ONLY <2>2, <2>3
<1>2. f \in Bijection(0 .. n - 1, column)
  <2>1. f \in [0 .. n - 1 -> column]
    OBVIOUS
  <2>2. \A i, j \in 0 .. n - 1 : f[i] = f[j] => i = j
    OBVIOUS
  <2>3. \A c \in column : \E i \in 0 .. n - 1 : f[i] = c
    OBVIOUS
  <2> HIDE DEF f, column, n
  <2>4. QED
    BY <2>1, <2>2, <2>3 DEF Bijection, Injection, Surjection, IsInjective
<1>3. IsFiniteSet(column) /\ Cardinality(column) = n
  <2> HIDE DEF f, column, n
  <2>1. QED
    BY <1>1, <1>2, FS_Bijection DEF ExistsBijection
<1>4. Blocks(w, U \cup {x}) = Blocks(w, U) \cup column /\ Blocks(w, U) \cap column = {}
  <2>1. ASSUME NEW b PROVE b \in Blocks(w, U \cup {x}) <=> b \in Blocks(w, U) \/ b \in column
    <3>1. b \in column <=> b \in {x} \X Nat /\ b[2] < n
      OBVIOUS
    <3>2. QED
      BY <3>1 DEF Blocks
  <2>2. \A b \in Blocks(w, U) : b[1] \in U
    BY DEF Blocks
  <2>3. \A b \in column : b[1] = x
    OBVIOUS
  <2>4. QED
    BY <2>1, <2>2, <2>3
<1> HIDE DEF column
<1>5. Cardinality({}) = 0 /\ Cardinality(Blocks(w, U)) \in Nat
  BY FS_EmptySet, FS_CardinalityType
<1>6. /\ IsFiniteSet(Blocks(w, U) \cup column)
      /\ Cardinality(Blocks(w, U) \cup column)
           = Cardinality(Blocks(w, U)) + Cardinality(column) - Cardinality(Blocks(w, U) \cap column)
  BY <1>3, FS_Union
<1>7. /\ IsFiniteSet(Blocks(w, U \cup {x}))
      /\ Cardinality(Blocks(w, U \cup {x})) = Cardinality(Blocks(w, U)) + n - 0
  BY ONLY <1>3, <1>4, <1>5, <1>6
<1>8. n \in Nat /\ Cardinality(Blocks(w, U)) \in Nat
  BY <1>5
<1>9. QED
  BY ONLY <1>7, <1>8 DEF Total

(* The sum is a number. *)
LEMMA TotalTyped ==
  ASSUME NEW T, IsFiniteSet(T), NEW w, \A u \in T : w[u] \in Nat, NEW U \in SUBSET T
  PROVE  IsFiniteSet(U) /\ IsFiniteSet(Blocks(w, U)) /\ Total(w, U) \in Nat
<1> DEFINE S == {n \in Nat : \A V \in SUBSET T : Cardinality(V) = n => IsFiniteSet(Blocks(w, V))}
<1>1. \A V \in SUBSET T : IsFiniteSet(V) /\ Cardinality(V) \in Nat
  BY FS_Subset, FS_CardinalityType
<1>2. 0 \in S
  <2>1. ASSUME NEW V \in SUBSET T, Cardinality(V) = 0 PROVE IsFiniteSet(Blocks(w, V))
    <3>1. V = {}
      BY <1>1, <2>1, FS_EmptySet
    <3>2. Blocks(w, V) = {}
      BY <3>1 DEF Blocks
    <3>3. QED
      BY <3>2, FS_EmptySet
  <2>2. QED
    BY <2>1
<1>3. ASSUME NEW n \in S PROVE n + 1 \in S
  <2>1. ASSUME NEW V \in SUBSET T, Cardinality(V) = n + 1 PROVE IsFiniteSet(Blocks(w, V))
    <3>1. V # {}
      BY <2>1, FS_EmptySet
    <3>2. PICK x \in V : TRUE
      BY <3>1
    <3>3. Cardinality(V \ {x}) = n /\ V \ {x} \in SUBSET T
      <4>1. Cardinality(V \ {x}) = Cardinality(V) - 1
        BY <1>1, FS_RemoveElement
      <4>2. QED
        BY <2>1, <4>1
    <3>4. IsFiniteSet(Blocks(w, V \ {x}))
      BY <3>3
    <3>5. V = (V \ {x}) \cup {x} /\ w[x] \in Nat /\ x \notin V \ {x}
      BY <2>1
    <3>6. QED
      BY <3>4, <3>5, BlocksNext
  <2>2. QED
    BY <2>1
<1>4. S = Nat
  BY <1>2, <1>3, NatInd
<1>5. IsFiniteSet(Blocks(w, U))
  BY <1>1, <1>4
<1>6. QED
  BY <1>1, <1>5, FS_CardinalityType DEF Total

(* Another element adds its weight. *)
LEMMA TotalNext ==
  ASSUME NEW T, IsFiniteSet(T), NEW w, \A u \in T : w[u] \in Nat, NEW U \in SUBSET T, NEW x \in T, x \notin U
  PROVE  Total(w, U \cup {x}) = Total(w, U) + w[x]
  BY TotalTyped, BlocksNext

(* Nothing adds up to nothing. *)
LEMMA TotalOfNothing ==
  ASSUME NEW w
  PROVE  Total(w, {}) = 0
<1>1. Blocks(w, {}) = {}
  BY DEF Blocks
<1>2. QED
  BY <1>1, FS_EmptySet DEF Total

(* What the sum over a set is, however it is computed. *)
LEMMA SummingTotal ==
  ASSUME NEW T, IsFiniteSet(T), NEW w, \A u \in T : w[u] \in Nat
  PROVE  /\ \E iter : Summing(iter, w, T)
         /\ \A iter : Summing(iter, w, T) => iter[T] = Total(w, T)
<1>0. \A s \in SUBSET T : IsFiniteSet(s) /\ Cardinality(s) \in Nat /\ Total(w, s) \in Nat
  BY TotalTyped, FS_CardinalityType
<1>1. ASSUME NEW s \in SUBSET T, s # {}, NEW x, x = CHOOSE y \in s : TRUE
      PROVE  /\ x \in s /\ s \ {x} \in SUBSET T /\ w[x] \in Nat
             /\ Total(w, s) = w[x] + Total(w, s \ {x})
             /\ Cardinality(s \ {x}) = Cardinality(s) - 1
  <2>1. x \in s
    BY <1>1
  <2>2. s \ {x} \in SUBSET T /\ x \notin s \ {x} /\ x \in T /\ s = (s \ {x}) \cup {x}
    BY <2>1
  <2>3. Total(w, s) = Total(w, s \ {x}) + w[x]
    BY <2>2, TotalNext
  <2>4. Cardinality(s \ {x}) = Cardinality(s) - 1
    BY <1>0, <2>1, FS_RemoveElement
  <2>5. Total(w, s \ {x}) \in Nat /\ w[x] \in Nat
    BY <1>0, <2>2
  <2>6. QED
    BY <2>1, <2>2, <2>3, <2>4, <2>5
<1>2. \E iter : Summing(iter, w, T)
  <2> DEFINE f == [s \in SUBSET T |-> Total(w, s)]
  <2>1. ASSUME NEW s \in SUBSET T
        PROVE  f[s] = IF s = {} THEN 0 ELSE LET x == CHOOSE x \in s : TRUE IN w[x] + f[s \ {x}]
    <3>1. CASE s = {}
      BY <3>1, TotalOfNothing
    <3>2. CASE s # {}
      <4>1. PICK x : x = CHOOSE y \in s : TRUE
        OBVIOUS
      <4>2. Total(w, s) = w[x] + Total(w, s \ {x}) /\ s \ {x} \in SUBSET T
        BY <1>1, <3>2, <4>1
      <4>3. f[s] = w[x] + f[s \ {x}]
        BY <4>2
      <4> HIDE DEF f
      <4>4. QED
        BY <3>2, <4>1, <4>3
    <3>3. QED
      BY <3>1, <3>2
  <2>2. f = [s \in SUBSET T |-> f[s]]
    OBVIOUS
  <2> HIDE DEF f
  <2>3. Summing(f, w, T)
    BY <2>1, <2>2 DEF Summing
  <2>4. QED
    BY <2>3
<1>3. ASSUME NEW iter, Summing(iter, w, T) PROVE iter[T] = Total(w, T)
  <2> DEFINE S == {n \in Nat : \A s \in SUBSET T : Cardinality(s) = n => iter[s] = Total(w, s)}
  <2>0. ASSUME NEW s \in SUBSET T
        PROVE  iter[s] = IF s = {} THEN 0 ELSE LET x == CHOOSE x \in s : TRUE IN w[x] + iter[s \ {x}]
    BY <1>3 DEF Summing
  <2>1. 0 \in S
    <3>1. \A s \in SUBSET T : Cardinality(s) = 0 => s = {}
      BY <1>0, FS_EmptySet
    <3>2. QED
      BY <2>0, <3>1, TotalOfNothing
  <2>2. ASSUME NEW n \in S PROVE n + 1 \in S
    <3>1. ASSUME NEW s \in SUBSET T, Cardinality(s) = n + 1 PROVE iter[s] = Total(w, s)
      <4>1. s # {}
        BY <3>1, FS_EmptySet
      <4>2. PICK x : x = CHOOSE y \in s : TRUE
        OBVIOUS
      <4>3. /\ s \ {x} \in SUBSET T
            /\ Total(w, s) = w[x] + Total(w, s \ {x})
            /\ Cardinality(s \ {x}) = Cardinality(s) - 1
        BY ZenonT(40), <1>1, <4>1, <4>2
      <4>4. iter[s] = w[x] + iter[s \ {x}]
        BY <2>0, <4>1, <4>2
      <4>5. iter[s \ {x}] = Total(w, s \ {x})
        <5>1. n \in Nat /\ Cardinality(s \ {x}) = n
          BY <3>1, <4>3
        <5>2. QED
          BY <4>3, <5>1
      <4>6. QED
        BY <4>3, <4>4, <4>5
    <3>2. QED
      BY <3>1
  <2>3. S = Nat
    BY <2>1, <2>2, NatInd
  <2>4. Cardinality(T) \in Nat
    BY <1>0
  <2>5. QED
    BY <2>3, <2>4
<1>4. QED
  BY <1>2, <1>3

-----------------------------------------------------------------------------
(* One more sequence is laid at the end. *)
LEMMA FlattenNext ==
  ASSUME NEW T, NEW n \in Nat, NEW seqs \in Seq(Seq(T)), Len(seqs) = n + 1,
         NEW before, before = [i \in 1 .. n |-> seqs[i]]
  PROVE  /\ before \in Seq(Seq(T)) /\ Len(before) = n
         /\ FlattenSeq(before) \in Seq(T) /\ FlattenSeq(seqs) \in Seq(T)
         /\ FlattenSeq(seqs) = FlattenSeq(before) \o seqs[n + 1]
<1>1. /\ before \in Seq(Seq(T)) /\ Len(before) = n /\ DOMAIN before = 1 .. n
      /\ DOMAIN seqs = 1 .. n + 1 /\ seqs[n + 1] \in Seq(T) /\ Len(seqs) # 0 /\ Len(seqs) \in Nat
  OBVIOUS
<1>2. FlattenSeq(before) \in Seq(T) /\ FlattenSeq(seqs) \in Seq(T)
  BY <1>1, FlattenPlaces
<1>3. PICK f : Flattening(f, seqs, n + 1) /\ FlattenSeq(seqs) = f[n + 1]
  BY <1>1, FlattenBy
<1>4. CASE n = 0
  <2>1. FlattenSeq(before) = before /\ before = <<>>
    BY <1>1, <1>4 DEF FlattenSeq
  <2>2. f[n + 1] = seqs[n + 1]
    BY <1>3, <1>4 DEF Flattening
  <2>3. <<>> \o seqs[n + 1] = seqs[n + 1]
    BY <1>1
  <2>4. QED
    BY <1>1, <1>2, <1>3, <2>1, <2>2, <2>3
<1>5. CASE n # 0
  <2>1. PICK g : Flattening(g, before, n) /\ FlattenSeq(before) = g[n]
    BY <1>1, <1>5, FlattenBy
  <2> DEFINE S == {k \in 1 .. n : f[k] = g[k]}
  <2>2. 1 \in S
    <3>1. 1 \in 1 .. n /\ 1 \in 1 .. n + 1 /\ before[1] = seqs[1]
      BY <1>5
    <3>2. QED
      BY <1>3, <2>1, <3>1 DEF Flattening
  <2>3. ASSUME NEW k \in 1 .. n - 1, k \in S PROVE k + 1 \in S
    <3>1. /\ k + 1 \in 1 .. n /\ k + 1 \in 1 .. n + 1 /\ k + 1 # 1 /\ (k + 1) - 1 = k
          /\ before[k + 1] = seqs[k + 1]
      OBVIOUS
    <3>2. f[k + 1] = f[k] \o seqs[k + 1]
      BY <1>3, <3>1 DEF Flattening
    <3>3. g[k + 1] = g[k] \o before[k + 1]
      BY <2>1, <3>1 DEF Flattening
    <3>4. QED
      BY <2>3, <3>1, <3>2, <3>3
  <2>4. n \in S
    <3> HIDE DEF S
    <3>1. QED
      BY <1>5, <2>2, <2>3, InductionUpTo
  <2>5. n + 1 \in 1 .. n + 1 /\ n + 1 # 1 /\ (n + 1) - 1 = n
    BY <1>5
  <2>6. f[n + 1] = f[n] \o seqs[n + 1]
    BY <1>3, <2>5 DEF Flattening
  <2>7. QED
    BY <1>1, <1>2, <1>3, <2>1, <2>4, <2>6
<1>6. QED
  BY <1>4, <1>5

-----------------------------------------------------------------------------
(* The functions of a module. *)
LEMMA BodyTyped ==
  ASSUME NEW s \in SourceType, NEW f \in DOMAIN s.funcs
  PROVE  /\ s.funcs \in Seq(FunctionType) /\ DOMAIN s.funcs = 1 .. Len(s.funcs) /\ Len(s.funcs) \in Nat
         /\ f \in Nat \ {0} /\ f \in 1 .. Len(s.funcs)
         /\ s.funcs[f].body \in Seq(OperationType)
         /\ DOMAIN s.funcs[f].body = 1 .. Len(s.funcs[f].body) /\ Len(s.funcs[f].body) \in Nat
<1>1. PICK funcs \in Seq(FunctionType) : funcs = s.funcs
  BY DEF SourceType
<1>2. DOMAIN funcs = 1 .. Len(funcs) /\ Len(funcs) \in Nat
  OBVIOUS
<1>3. f \in Nat \ {0} /\ f \in 1 .. Len(funcs) /\ funcs[f] \in FunctionType
  BY <1>1, <1>2
<1>4. PICK body \in Seq(OperationType) : body = funcs[f].body
  BY <1>3 DEF FunctionType
<1>5. DOMAIN body = 1 .. Len(body) /\ Len(body) \in Nat
  OBVIOUS
<1>6. QED
  BY <1>1, <1>2, <1>3, <1>4, <1>5

(* The positions of a module. *)
LEMMA PositionIs ==
  ASSUME NEW s \in SourceType, NEW v \in Positions(s.funcs)
  PROVE  /\ v = <<v[1], v[2]>> /\ v[1] \in 1 .. Len(s.funcs) /\ v[2] \in 1 .. Len(s.funcs[v[1]].body)
         /\ v[1] \in DOMAIN s.funcs /\ v[2] \in DOMAIN s.funcs[v[1]].body
         /\ s.funcs \in Seq(FunctionType) /\ s.funcs[v[1]].body \in Seq(OperationType)
         /\ OperationAt(s, v) \in OperationType
<1>1. s.funcs \in Seq(FunctionType)
  BY DEF SourceType
<1>2. PICK f \in DOMAIN s.funcs : v \in {f} \X DOMAIN s.funcs[f].body
  BY DEF Positions
<1>3. v = <<v[1], v[2]>> /\ v[1] = f /\ v[2] \in DOMAIN s.funcs[f].body
  BY <1>2
<1>4. /\ f \in 1 .. Len(s.funcs) /\ s.funcs[f].body \in Seq(OperationType)
      /\ DOMAIN s.funcs[f].body = 1 .. Len(s.funcs[f].body)
  BY <1>2, BodyTyped
<1>5. v[2] \in 1 .. Len(s.funcs[f].body) /\ s.funcs[f].body[v[2]] \in OperationType
  BY <1>3, <1>4
<1>6. QED
  BY <1>1, <1>2, <1>3, <1>4, <1>5 DEF OperationAt

(* The other way round: what is a position. *)
LEMMA IsPosition ==
  ASSUME NEW s \in SourceType, NEW f \in DOMAIN s.funcs, NEW i \in DOMAIN s.funcs[f].body
  PROVE  <<f, i>> \in Positions(s.funcs)
  BY DEF Positions

(* The operations of finitely many bodies are finitely many. *)
LEMMA PositionsFinite ==
  ASSUME NEW funcs, IsFiniteSet(DOMAIN funcs), \A f \in DOMAIN funcs : IsFiniteSet(DOMAIN funcs[f].body)
  PROVE  IsFiniteSet(Positions(funcs))
<1> DEFINE In(f) == {f} \X DOMAIN funcs[f].body
           F == [f \in DOMAIN funcs |-> In(f)]
           T == {F[f] : f \in DOMAIN funcs}
<1>1. ASSUME NEW f \in DOMAIN funcs PROVE IsFiniteSet(F[f])
  <2>1. IsFiniteSet(DOMAIN funcs[f].body) /\ IsFiniteSet({f})
    BY FS_Singleton
  <2>2. QED
    BY <2>1, FS_Product
<1>2. IsFiniteSet(T)
  <2>1. F \in Surjection(DOMAIN funcs, T)
    <3>1. F \in [DOMAIN funcs -> T] /\ \A t \in T : \E f \in DOMAIN funcs : F[f] = t
      OBVIOUS
    <3> HIDE DEF F, T
    <3>2. QED
      BY <3>1 DEF Surjection
  <2> HIDE DEF F, T
  <2>2. QED
    BY <2>1, FS_Surjection
<1>3. Positions(funcs) = UNION T
  BY DEF Positions
<1>4. \A t \in T : IsFiniteSet(t)
  BY <1>1
<1> HIDE DEF T
<1>5. QED
  BY <1>2, <1>3, <1>4, FS_UNION

(* A module has finitely many operations, so that they can be counted and added up. *)
LEMMA FinitePositions ==
  ASSUME NEW s \in SourceType
  PROVE  IsFiniteSet(Positions(s.funcs))
<1>1. DOMAIN s.funcs = 1 .. Len(s.funcs) /\ Len(s.funcs) \in Nat
  BY DEF SourceType
<1>2. IsFiniteSet(DOMAIN s.funcs)
  BY <1>1, FS_Interval
<1>3. ASSUME NEW f \in DOMAIN s.funcs PROVE IsFiniteSet(DOMAIN s.funcs[f].body)
  <2>1. DOMAIN s.funcs[f].body = 1 .. Len(s.funcs[f].body) /\ Len(s.funcs[f].body) \in Nat
    BY BodyTyped
  <2>2. QED
    BY <2>1, FS_Interval
<1>4. QED
  BY <1>2, <1>3, PositionsFinite

(* What comes before the next operation of a function, and the next function. *)
LEMMA BeforeNext ==
  ASSUME NEW s \in SourceType, NEW S \in SUBSET Positions(s.funcs), NEW f \in Nat, NEW i \in Nat
  PROVE  /\ {v \in S : Before(v, <<f, i + 1>>)}
              = {v \in S : Before(v, <<f, i>>)} \cup {v \in S : v = <<f, i>>}
         /\ <<f, i>> \notin {v \in S : Before(v, <<f, i>>)}
         /\ {v \in S : v = <<f, i>>} = IF <<f, i>> \in S THEN {<<f, i>>} ELSE {}
<1>1. \A v \in S : v = <<v[1], v[2]>> /\ v[1] \in Nat /\ v[2] \in Nat
  BY PositionIs
<1>2. ASSUME NEW v \in S
      PROVE  Before(v, <<f, i + 1>>) <=> Before(v, <<f, i>>) \/ v = <<f, i>>
  <2>1. v = <<f, i>> <=> v[1] = f /\ v[2] = i
    BY <1>1
  <2>2. QED
    BY <1>1, <2>1 DEF Before
<1>3. ~Before(<<f, i>>, <<f, i>>)
  BY DEF Before
<1>4. QED
  BY <1>2, <1>3

(* What comes before a function: the operations of those before it. *)
LEMMA BeforeFunction ==
  ASSUME NEW s \in SourceType, NEW S \in SUBSET Positions(s.funcs), NEW f \in DOMAIN s.funcs,
         NEW i, i = Len(s.funcs[f].body) + 1
  PROVE  {v \in S : Before(v, <<f + 1, 0>>)} = {v \in S : Before(v, <<f, i>>)}
<1>1. /\ s.funcs \in Seq(FunctionType) /\ f \in Nat
      /\ s.funcs[f].body \in Seq(OperationType) /\ Len(s.funcs[f].body) \in Nat
  BY BodyTyped
<1>2. ASSUME NEW v \in S PROVE Before(v, <<f + 1, 0>>) <=> Before(v, <<f, i>>)
  <2>1. v[1] \in Nat /\ v[2] \in Nat \ {0} /\ (v[1] = f => v[2] <= Len(s.funcs[f].body))
    BY PositionIs
  <2>2. QED
    BY <1>1, <2>1 DEF Before
<1>3. QED
  BY <1>2

(* What wraps is a number still. *)
LEMMA RemainderTyped ==
  ASSUME NEW x \in Nat, NEW n \in Nat \ {0}
  PROVE  x % n \in Nat
OBVIOUS

LEMMA SizeTyped ==
  ASSUME NEW o, o.rows \in Nat, o.cols \in Nat
  PROVE  Size(o) \in Nat
<1>1. PICK r \in Nat, c \in Nat : r = o.rows /\ c = o.cols
  OBVIOUS
<1>2. PICK x \in Nat : x = r * c
  OBVIOUS
<1>3. x % SizeLimit \in Nat
  BY SizeAssumption, RemainderTyped
<1>4. QED
  BY ONLY <1>1, <1>2, <1>3 DEF Size

(* The room of constants, as a sum. *)
LEMMA RodataIsTotal ==
  ASSUME NEW s \in SourceType, NEW C \in SUBSET Positions(s.funcs),
         NEW w, w = [v \in Positions(s.funcs) |-> Size(OperationAt(s, v))]
  PROVE  RodataSize(s, C) = Total(w, C) /\ \A v \in Positions(s.funcs) : w[v] \in Nat
<1>1. \A v \in Positions(s.funcs) : w[v] \in Nat
  BY PositionIs, SizeTyped DEF OperationType
<1>2. IsFiniteSet(C)
  BY FinitePositions, FS_Subset
<1> DEFINE Summed(iter) ==
             iter = [t \in SUBSET C |->
                       IF t = {} THEN 0
                       ELSE LET x == CHOOSE x \in t : TRUE
                            IN  Size(OperationAt(s, x)) + iter[t \ {x}]]
<1>3. ASSUME NEW iter PROVE Summed(iter) <=> Summing(iter, w, C)
  <2>1. \A t \in SUBSET C : t # {} =>
           LET x == CHOOSE x \in t : TRUE IN w[x] = Size(OperationAt(s, x))
    OBVIOUS
  <2>2. QED
    BY <2>1 DEF Summing
<1>4. \E iter : Summed(iter)
  <2> HIDE DEF Summed
  <2>1. QED
    BY <1>1, <1>2, <1>3, SummingTotal
<1>5. Summed(CHOOSE iter : Summed(iter))
  <2> HIDE DEF Summed
  <2>1. QED
    BY <1>4
<1>6. RodataSize(s, C) = (CHOOSE iter : Summed(iter))[C]
  BY DEF RodataSize, MapThenSumSet, MapThenFoldSet
<1>7. QED
  <2> HIDE DEF Summed
  <2>1. QED
    BY <1>1, <1>2, <1>3, <1>5, <1>6, SummingTotal

(* Where a function starts, as a sum. *)
LEMMA OffsetIsTotal ==
  ASSUME NEW s, NEW f \in Nat \ {0}, NEW w, \A g \in 1 .. f - 1 : w[g] = Len(FunctionCommands(s, g)) /\ w[g] \in Nat
  PROVE  FunctionOffset(s, f) = Total(w, 1 .. f - 1)
<1> DEFINE C == 1 .. f - 1
<1>2. IsFiniteSet(C)
  BY FS_Interval
<1> DEFINE Summed(iter) ==
             iter = [t \in SUBSET C |->
                       IF t = {} THEN 0
                       ELSE LET x == CHOOSE x \in t : TRUE
                            IN  Len(FunctionCommands(s, x)) + iter[t \ {x}]]
<1>3. ASSUME NEW iter PROVE Summed(iter) <=> Summing(iter, w, C)
  <2>1. \A t \in SUBSET C : t # {} =>
           LET x == CHOOSE x \in t : TRUE IN w[x] = Len(FunctionCommands(s, x))
    OBVIOUS
  <2>2. QED
    BY ZenonT(40), <2>1 DEF Summing
<1>4. \E iter : Summed(iter)
  <2> HIDE DEF Summed
  <2>1. QED
    BY <1>2, <1>3, SummingTotal
<1>5. Summed(CHOOSE iter : Summed(iter))
  <2> HIDE DEF Summed
  <2>1. QED
    BY <1>4
<1>6. FunctionOffset(s, f) = (CHOOSE iter : Summed(iter))[C]
  BY DEF FunctionOffset, MapThenSumSet, MapThenFoldSet
<1>7. QED
  <2> HIDE DEF Summed
  <2>1. QED
    BY <1>2, <1>3, <1>5, <1>6, SummingTotal

-----------------------------------------------------------------------------
(* The commands of a module, laid end to end.                               *)

(* What a function ends with. *)
EndCommand == [kind |-> "END", ops |-> <<>>]

(* What an operation stands for, by its kind. *)
LEMMA CommandsByKind ==
  ASSUME NEW s \in SourceType, NEW v \in Positions(s.funcs), NEW o, o = OperationAt(s, v)
  PROVE  /\ v \in StoredConstants(s) =>
              CommandsOf(s, v) =
                <<[kind |-> "CONST", ops |-> <<Slot(s, v), RodataOffset(s, v), Size(o)>>]>>
         /\ o.op = "call_tir" =>
              CommandsOf(s, v) =
                <<[kind |-> "ALLOC", ops |-> <<Slot(s, v), Size(o)>>],
                  [kind |-> "DISPATCH",
                   ops |-> <<o.callee - 1, Len(o.args) + 1>>
                           \o [a \in DOMAIN o.args |-> Slot(s, <<v[1], o.args[a]>>)] \o <<Slot(s, v)>>]>>
         /\ o.op = "print" =>
              CommandsOf(s, v) =
                <<[kind |-> "PRINT", ops |-> <<Slot(s, <<v[1], o.args[1]>>), o.rows, o.cols>>]>>
         /\ v \notin StoredConstants(s) /\ o.op \notin {"call_tir", "print"} => CommandsOf(s, v) = <<>>
         /\ v \in StoredConstants(s) => o.op = "constant"
<1>1. v \in StoredConstants(s) => o.op = "constant"
  BY DEF StoredConstants
<1>2. QED
  BY <1>1 DEF CommandsOf

(* The commands of a module, whatever they are. *)
Emits(s) == {CommandsOf(s, v)[i] : v \in Positions(s.funcs), i \in {1, 2}} \cup {EndCommand}

(* What an operation is written as: a list of commands, none of them END. *)
LEMMA CommandsTyped ==
  ASSUME NEW s \in SourceType, NEW v \in Positions(s.funcs)
  PROVE  /\ CommandsOf(s, v) \in Seq(Emits(s))
         /\ \A i \in DOMAIN CommandsOf(s, v) : CommandsOf(s, v)[i].kind # "END"
<1> DEFINE c == CommandsOf(s, v)
           T == Emits(s)
           o == OperationAt(s, v)
<1>1. c[1] \in T /\ c[2] \in T
  BY DEF Emits
<1>2. \/ c = <<>>
      \/ c = <<c[1]>> /\ c[1].kind # "END"
      \/ c = <<c[1], c[2]>> /\ c[1].kind # "END" /\ c[2].kind # "END"
  <2>0. /\ \A a : c = <<a>> /\ a.kind # "END" => c = <<c[1]>> /\ c[1].kind # "END"
        /\ \A a, b : c = <<a, b>> /\ a.kind # "END" /\ b.kind # "END" =>
                     c = <<c[1], c[2]>> /\ c[1].kind # "END" /\ c[2].kind # "END"
    <3> HIDE DEF c
    <3>1. QED
      OBVIOUS
  <2>1. CASE v \in StoredConstants(s)
    <3>1. PICK a : a = [kind |-> "CONST", ops |-> <<Slot(s, v), RodataOffset(s, v), Size(o)>>]
      OBVIOUS
    <3>2. c = <<a>> /\ a.kind # "END"
      BY <2>1, <3>1, CommandsByKind
    <3> HIDE DEF c
    <3>3. QED
      BY ONLY <2>0, <3>2
  <2>2. CASE o.op = "call_tir"
    <3>1. PICK a, b : /\ a = [kind |-> "ALLOC", ops |-> <<Slot(s, v), Size(o)>>]
                      /\ b = [kind |-> "DISPATCH",
                              ops |-> <<o.callee - 1, Len(o.args) + 1>>
                                \o [x \in DOMAIN o.args |-> Slot(s, <<v[1], o.args[x]>>)] \o <<Slot(s, v)>>]
      OBVIOUS
    <3>2. c = <<a, b>> /\ a.kind # "END" /\ b.kind # "END"
      BY <2>2, <3>1, CommandsByKind
    <3> HIDE DEF c
    <3>3. QED
      BY ONLY <2>0, <3>2
  <2>3. CASE o.op = "print"
    <3>1. PICK a : a = [kind |-> "PRINT", ops |-> <<Slot(s, <<v[1], o.args[1]>>), o.rows, o.cols>>]
      OBVIOUS
    <3>2. c = <<a>> /\ a.kind # "END"
      BY <2>3, <3>1, CommandsByKind
    <3> HIDE DEF c
    <3>3. QED
      BY ONLY <2>0, <3>2
  <2>4. CASE v \notin StoredConstants(s) /\ o.op \notin {"call_tir", "print"}
    BY <2>4, CommandsByKind
  <2>5. QED
    BY <2>1, <2>2, <2>3, <2>4
<1> HIDE DEF c, T
<1>3. CASE c = <<>>
  <2>1. c \in Seq(T) /\ \A i \in DOMAIN c : c[i].kind # "END"
    BY <1>3
  <2>2. QED
    BY <2>1 DEF c, T
<1>4. CASE c = <<c[1]>> /\ c[1].kind # "END"
  <2>1. PICK a \in T : a = c[1]
    BY <1>1
  <2>2. c = <<a>> /\ a.kind # "END"
    BY <1>4, <2>1
  <2>3. c \in Seq(T) /\ \A i \in DOMAIN c : c[i].kind # "END"
    BY ONLY <2>2, a \in T
  <2>4. QED
    BY <2>3 DEF c, T
<1>5. CASE c = <<c[1], c[2]>> /\ c[1].kind # "END" /\ c[2].kind # "END"
  <2>1. PICK a \in T, b \in T : a = c[1] /\ b = c[2]
    BY <1>1
  <2>2. c = <<a, b>> /\ a.kind # "END" /\ b.kind # "END"
    BY <1>5, <2>1
  <2>3. c \in Seq(T) /\ \A i \in DOMAIN c : c[i].kind # "END"
    BY ONLY <2>2, a \in T, b \in T
  <2>4. QED
    BY <2>3 DEF c, T
<1>6. QED
  BY <1>2, <1>3, <1>4, <1>5

(* The commands of the first n operations of a function, and of the first n functions. *)
OpsUpTo(s, f, n) == FlattenSeq([i \in 1 .. n |-> CommandsOf(s, <<f, i>>)])
FuncsUpTo(s, n)  == FlattenSeq([f \in 1 .. n |-> FunctionCommands(s, f)])

(* Nothing visited, nothing written. *)
LEMMA NoneYet ==
  ASSUME NEW s, NEW f, NEW n \in {-1, 0}
  PROVE  OpsUpTo(s, f, n) = <<>> /\ FuncsUpTo(s, n) = <<>>
<1>1. \A g : [i \in 1 .. n |-> g[i]] = <<>>
  OBVIOUS
<1>2. [i \in 1 .. n |-> CommandsOf(s, <<f, i>>)] = <<>> /\ [g \in 1 .. n |-> FunctionCommands(s, g)] = <<>>
  OBVIOUS
<1>3. FlattenSeq(<<>>) = <<>>
  BY DEF FlattenSeq
<1>4. QED
  BY <1>2, <1>3 DEF OpsUpTo, FuncsUpTo

(* One operation more. *)
LEMMA OpsNext ==
  ASSUME NEW s \in SourceType, NEW f \in DOMAIN s.funcs, NEW n \in Nat, n + 1 \in DOMAIN s.funcs[f].body
  PROVE  /\ OpsUpTo(s, f, n) \in Seq(Emits(s)) /\ OpsUpTo(s, f, n + 1) \in Seq(Emits(s))
         /\ OpsUpTo(s, f, n + 1) = OpsUpTo(s, f, n) \o CommandsOf(s, <<f, n + 1>>)
<1> DEFINE T == Emits(s)
           seqs == [i \in 1 .. n + 1 |-> CommandsOf(s, <<f, i>>)]
           before == [i \in 1 .. n |-> CommandsOf(s, <<f, i>>)]
<1>1. \A i \in 1 .. n + 1 : CommandsOf(s, <<f, i>>) \in Seq(T)
  <2>1. ASSUME NEW i \in 1 .. n + 1 PROVE <<f, i>> \in Positions(s.funcs)
    <3>1. i \in DOMAIN s.funcs[f].body
      BY BodyTyped
    <3>2. QED
      BY <3>1, IsPosition
  <2>2. QED
    BY <2>1, CommandsTyped
<1>2. seqs \in Seq(Seq(T)) /\ Len(seqs) = n + 1 /\ before = [i \in 1 .. n |-> seqs[i]] /\ seqs[n + 1] = CommandsOf(s, <<f, n + 1>>)
  <2> HIDE DEF T
  <2>1. seqs \in [1 .. n + 1 -> Seq(T)]
    BY ONLY Zenon, <1>1
  <2> HIDE DEF seqs
  <2>2. seqs \in Seq(Seq(T)) /\ Len(seqs) = n + 1
    BY ONLY <2>1, n \in Nat
  <2>3. \A i \in 1 .. n + 1 : seqs[i] = CommandsOf(s, <<f, i>>)
    BY ONLY Zenon DEF seqs
  <2>4. (1 .. n) \subseteq 1 .. n + 1 /\ n + 1 \in 1 .. n + 1
    BY ONLY n \in Nat
  <2>5. before = [i \in 1 .. n |-> seqs[i]] /\ seqs[n + 1] = CommandsOf(s, <<f, n + 1>>)
    BY ONLY Zenon, <2>3, <2>4
  <2>6. QED
    BY ONLY <2>2, <2>5
<1>3. OpsUpTo(s, f, n) = FlattenSeq(before) /\ OpsUpTo(s, f, n + 1) = FlattenSeq(seqs)
  BY DEF OpsUpTo
<1> HIDE DEF seqs, before, T
<1>4. FlattenSeq(before) \in Seq(T) /\ FlattenSeq(seqs) \in Seq(T) /\ FlattenSeq(seqs) = FlattenSeq(before) \o seqs[n + 1]
  BY ZenonT(40), <1>2, FlattenNext
<1>5. QED
  BY <1>2, <1>3, <1>4 DEF T

(* All of them. *)
LEMMA OpsTyped ==
  ASSUME NEW s \in SourceType, NEW f \in DOMAIN s.funcs, NEW n \in Nat, n <= Len(s.funcs[f].body)
  PROVE  OpsUpTo(s, f, n) \in Seq(Emits(s))
<1>1. CASE n = 0
  <2>1. OpsUpTo(s, f, n) = <<>>
    BY <1>1, NoneYet
  <2>2. <<>> \in Seq(Emits(s))
    OBVIOUS
  <2>3. QED
    BY ONLY <2>1, <2>2
<1>2. CASE n # 0
  <2>1. n - 1 \in Nat /\ (n - 1) + 1 = n /\ n \in DOMAIN s.funcs[f].body
    BY <1>2, BodyTyped
  <2>2. OpsUpTo(s, f, (n - 1) + 1) \in Seq(Emits(s))
    BY <2>1, OpsNext
  <2>3. QED
    BY <2>1, <2>2
<1>3. QED
  BY <1>1, <1>2

(* A function is the commands of all its operations, and END. *)
LEMMA FunctionIs ==
  ASSUME NEW s \in SourceType, NEW f \in DOMAIN s.funcs
  PROVE  /\ FunctionCommands(s, f) = OpsUpTo(s, f, Len(s.funcs[f].body)) \o <<EndCommand>>
         /\ FunctionCommands(s, f) \in Seq(Emits(s))
         /\ OpsUpTo(s, f, Len(s.funcs[f].body)) \in Seq(Emits(s))
         /\ <<EndCommand>> \in Seq(Emits(s))
         /\ Len(FunctionCommands(s, f)) \in Nat \ {0}
<1>1. DOMAIN s.funcs[f].body = 1 .. Len(s.funcs[f].body) /\ Len(s.funcs[f].body) \in Nat
  BY BodyTyped
<1>2. FunctionCommands(s, f) = OpsUpTo(s, f, Len(s.funcs[f].body)) \o <<EndCommand>>
  BY <1>1 DEF FunctionCommands, OpsUpTo, EndCommand
<1>3. OpsUpTo(s, f, Len(s.funcs[f].body)) \in Seq(Emits(s))
  BY <1>1, OpsTyped
<1>4. EndCommand \in Emits(s)
  BY DEF Emits
<1>5. <<EndCommand>> \in Seq(Emits(s)) /\ Len(<<EndCommand>>) = 1
  BY <1>4
<1>6. QED
  BY <1>2, <1>3, <1>5, Concatenation

(* One function more. *)
LEMMA FuncsNext ==
  ASSUME NEW s \in SourceType, NEW n \in Nat, n + 1 \in DOMAIN s.funcs
  PROVE  /\ FuncsUpTo(s, n) \in Seq(Emits(s)) /\ FuncsUpTo(s, n + 1) \in Seq(Emits(s))
         /\ FuncsUpTo(s, n + 1) = FuncsUpTo(s, n) \o FunctionCommands(s, n + 1)
<1> DEFINE T == Emits(s)
           seqs == [f \in 1 .. n + 1 |-> FunctionCommands(s, f)]
           before == [f \in 1 .. n |-> FunctionCommands(s, f)]
<1>1. \A f \in 1 .. n + 1 : FunctionCommands(s, f) \in Seq(T)
  <2>1. \A f \in 1 .. n + 1 : f \in DOMAIN s.funcs
    BY BodyTyped
  <2>2. QED
    BY <2>1, FunctionIs
<1>2. seqs \in Seq(Seq(T)) /\ Len(seqs) = n + 1 /\ before = [f \in 1 .. n |-> seqs[f]] /\ seqs[n + 1] = FunctionCommands(s, n + 1)
  <2> HIDE DEF T
  <2>1. QED
    BY <1>1
<1>3. FuncsUpTo(s, n) = FlattenSeq(before) /\ FuncsUpTo(s, n + 1) = FlattenSeq(seqs)
  BY DEF FuncsUpTo
<1> HIDE DEF seqs, before, T
<1>4. FlattenSeq(before) \in Seq(T) /\ FlattenSeq(seqs) \in Seq(T) /\ FlattenSeq(seqs) = FlattenSeq(before) \o seqs[n + 1]
  BY ZenonT(40), <1>2, FlattenNext
<1>5. QED
  BY <1>2, <1>3, <1>4 DEF T

(* The commands of any number of functions. *)
LEMMA FuncsTyped ==
  ASSUME NEW s \in SourceType, NEW n \in Nat, n <= Len(s.funcs)
  PROVE  FuncsUpTo(s, n) \in Seq(Emits(s)) /\ Len(FuncsUpTo(s, n)) \in Nat
<1>1. CASE n = 0
  <2>1. FuncsUpTo(s, n) = <<>>
    BY <1>1, NoneYet
  <2>2. <<>> \in Seq(Emits(s)) /\ Len(<<>>) = 0
    OBVIOUS
  <2>3. QED
    BY ONLY <2>1, <2>2
<1>2. CASE n # 0
  <2>1. n - 1 \in Nat /\ (n - 1) + 1 = n /\ n \in DOMAIN s.funcs
    <3>1. s.funcs \in Seq(FunctionType)
      BY DEF SourceType
    <3>2. QED
      BY <1>2, <3>1
  <2>2. FuncsUpTo(s, (n - 1) + 1) \in Seq(Emits(s))
    BY <2>1, FuncsNext
  <2>3. QED
    BY <2>1, <2>2
<1>3. QED
  BY <1>1, <1>2

(* A function starts after the commands of those before it. *)
LEMMA OffsetIsLength ==
  ASSUME NEW s \in SourceType, NEW n \in Nat, n <= Len(s.funcs)
  PROVE  FunctionOffset(s, n + 1) = Len(FuncsUpTo(s, n))
<1> DEFINE w == [f \in 1 .. Len(s.funcs) |-> Len(FunctionCommands(s, f))]
           S == {k \in Nat : k <= Len(s.funcs) => Total(w, 1 .. k) = Len(FuncsUpTo(s, k))}
<1>1. s.funcs \in Seq(FunctionType) /\ Len(s.funcs) \in Nat /\ DOMAIN s.funcs = 1 .. Len(s.funcs)
  BY DEF SourceType
<1>2. \A f \in 1 .. Len(s.funcs) : w[f] = Len(FunctionCommands(s, f)) /\ w[f] \in Nat
  BY <1>1, FunctionIs
<1>3. 0 \in S
  <2>1. 1 .. 0 = {} /\ Len(<<>>) = 0
    OBVIOUS
  <2> HIDE DEF w
  <2>2. QED
    BY <2>1, NoneYet, TotalOfNothing
<1>4. ASSUME NEW k \in S PROVE k + 1 \in S
  <2>1. ASSUME k + 1 <= Len(s.funcs) PROVE Total(w, 1 .. k + 1) = Len(FuncsUpTo(s, k + 1))
    <3>1. k + 1 \in 1 .. Len(s.funcs) /\ k <= Len(s.funcs) /\ k \in Nat
      BY <1>1, <2>1
    <3>2. 1 .. k + 1 = (1 .. k) \cup {k + 1} /\ k + 1 \notin 1 .. k /\ 1 .. k \in SUBSET (1 .. Len(s.funcs))
      BY <1>1, <3>1
    <3>3. IsFiniteSet(1 .. Len(s.funcs))
      BY <1>1, FS_Interval
    <3>4. Total(w, 1 .. k) = Len(FuncsUpTo(s, k))
      BY <3>1
    <3> HIDE DEF w, S
    <3>5. Total(w, 1 .. k + 1) = Total(w, 1 .. k) + w[k + 1]
      <4>1. \A u \in 1 .. Len(s.funcs) : w[u] \in Nat
        BY <1>2
      <4>2. PICK T, U, x : T = 1 .. Len(s.funcs) /\ U = 1 .. k /\ x = k + 1
        OBVIOUS
      <4>3. IsFiniteSet(T) /\ (\A u \in T : w[u] \in Nat) /\ U \in SUBSET T /\ x \in T /\ x \notin U
        BY ONLY <3>1, <3>2, <3>3, <4>1, <4>2
      <4>4. Total(w, U \cup {x}) = Total(w, U) + w[x]
        BY ONLY <4>3, TotalNext
      <4>5. QED
        BY <3>2, <4>2, <4>4
    <3>6. Len(FuncsUpTo(s, k + 1)) = Len(FuncsUpTo(s, k)) + Len(FunctionCommands(s, k + 1))
      <4>1. /\ FuncsUpTo(s, k + 1) = FuncsUpTo(s, k) \o FunctionCommands(s, k + 1)
            /\ FuncsUpTo(s, k) \in Seq(Emits(s)) /\ FunctionCommands(s, k + 1) \in Seq(Emits(s))
        BY <1>1, <3>1, FuncsNext, FunctionIs
      <4>2. QED
        BY <4>1, Concatenation
    <3>7. w[k + 1] = Len(FunctionCommands(s, k + 1))
      BY <1>2, <3>1
    <3>8. QED
      BY <3>4, <3>5, <3>6, <3>7
  <2>2. QED
    BY <2>1
<1>5. S = Nat
  <2> HIDE DEF S
  <2>1. S \in SUBSET Nat
    BY DEF S
  <2>2. QED
    BY <1>3, <1>4, <2>1, NatInd
<1>6. Total(w, 1 .. n) = Len(FuncsUpTo(s, n))
  BY <1>5
<1> HIDE DEF w, S
<1>7. n + 1 \in Nat \ {0} /\ (n + 1) - 1 = n
  OBVIOUS
<1>8. FunctionOffset(s, n + 1) = Total(w, 1 .. (n + 1) - 1)
  <2>1. \A g \in 1 .. (n + 1) - 1 : g \in 1 .. Len(s.funcs)
    BY <1>1
  <2>2. \A g \in 1 .. (n + 1) - 1 : w[g] = Len(FunctionCommands(s, g)) /\ w[g] \in Nat
    BY <1>2, <2>1
  <2>3. QED
    BY <1>7, <2>2, OffsetIsTotal
<1>9. QED
  BY <1>6, <1>7, <1>8

(* A function starts where those before it end. *)
LEMMA OffsetOf ==
  ASSUME NEW s \in SourceType, NEW f \in DOMAIN s.funcs
  PROVE  FunctionOffset(s, f) = Len(FuncsUpTo(s, f - 1))
<1>1. Len(s.funcs) \in Nat /\ DOMAIN s.funcs = 1 .. Len(s.funcs)
  <2>1. s.funcs \in Seq(FunctionType)
    BY DEF SourceType
  <2>2. QED
    BY <2>1
<1>2. PICK n \in Nat : n = f - 1
  BY <1>1
<1>3. n + 1 = f
  BY <1>1, <1>2
<1>4. FunctionOffset(s, n + 1) = Len(FuncsUpTo(s, n))
  BY <1>1, <1>3, OffsetIsLength
<1>5. QED
  BY ONLY <1>2, <1>3, <1>4, Zenon
=============================================================================
