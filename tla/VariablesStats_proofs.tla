----------------------- MODULE VariablesStats_proofs -----------------------
(***************************************************************************)
(* Theorems of VariablesStats, for every JSON value and all limits: the    *)
(* counts are those of the whole value, and the limits hold everywhere in  *)
(* it.                                                                     *)
(*                                                                         *)
(* A path lies under another when it starts with it.  The parts of the     *)
(* value still to be counted are those under a call on the agenda, each    *)
(* under one call only; a walk takes one part from them and leaves those   *)
(* under its members to the calls it makes.                                *)
(***************************************************************************)
EXTENDS VariablesStats, SequenceTheorems, FiniteSetTheorems,
        WellFoundedInduction, NaturalsInduction, TLAPS

Under(p, q) == Len(p) <= Len(q) /\ \A n \in 1..Len(p) : q[n] = p[n]

Left == {q \in Paths : \E i \in DOMAIN agenda : Under(agenda[i].at, q)}
Seen == Paths \ Left

(* The members of those objects that are at the paths of S. *)
MembersAt(S) == {q \in Paths : q # << >> /\ Front(q) \in S /\ val.kind[Front(q)] = "object"}

(* All of a value's shape that the proofs use.                             *)
LEMMA ShapeOfValue ==
    ASSUME TypeOK
    PROVE  /\ IsFiniteSet(Paths) /\ << >> \in Paths
           /\ val.bytes \in Nat
           /\ \A p \in Paths :
                 /\ p \in Seq(Nat)
                 /\ val.kids[p] \in Nat
                 /\ val.kind[p] \in {"object", "array", "scalar"}
                 /\ val.kind[p] = "scalar" => val.kids[p] = 0
                 /\ \A k \in 1..val.kids[p] : Append(p, k) \in Paths
                 /\ \A n \in 1..Len(p) :
                       /\ SubSeq(p, 1, n - 1) \in Paths
                       /\ p[n] \in 1..val.kids[SubSeq(p, 1, n - 1)]
BY ValuesAssumption DEF TypeOK, Paths

(* What comes before an element that is added.                             *)
LEMMA FrontOfAppend ==
    ASSUME NEW p \in Seq(Nat), NEW k \in Nat
    PROVE  Append(p, k) # << >> /\ Front(Append(p, k)) = p
<1> DEFINE q == Append(p, k)
           s == SubSeq(q, 1, Len(p))
<1>1. /\ q \in Seq(Nat) /\ q # << >> /\ Len(q) = Len(p) + 1
      /\ \A i \in 1..Len(p) : q[i] = p[i]
  BY AppendProperties
<1>2. Len(p) \in Nat /\ \A i \in 1..Len(p) : p[i] \in Nat
  BY LenProperties, ElementOfSeq
<1> HIDE DEF q
<1>3. s \in Seq(Nat) /\ Len(s) = Len(p) /\ \A i \in 1..Len(p) : s[i] = p[i]
  <2>1. \A i \in 1..Len(p) : q[i] \in Nat
    BY <1>1, <1>2
  <2>2. /\ s \in Seq(Nat) /\ Len(s) = IF 1 <= Len(p) THEN Len(p) - 1 + 1 ELSE 0
        /\ \A i \in 1..Len(p) - 1 + 1 : s[i] = q[1 + i - 1]
    BY <1>2, <2>1, SubSeqProperties
  <2> HIDE DEF s
  <2> QED
    BY <1>1, <1>2, <2>2
<1>4. s = p
  <2> HIDE DEF s
  <2> QED
    BY <1>3, SeqEqual
<1>5. Front(q) = s
  BY <1>1, <1>2 DEF Front
<1> QED
  BY <1>1, <1>4, <1>5 DEF q

(* What lies under a part is the part itself and what lies under one of its*)
(* members or elements.                                                    *)
LEMMA UnderAPart ==
    ASSUME TypeOK, NEW p \in Paths, NEW q \in Paths
    PROVE  /\ Under(p, q) <=> q = p \/ \E k \in 1..val.kids[p] : Under(Append(p, k), q)
           /\ \A k \in 1..val.kids[p] : ~Under(Append(p, k), p)
           /\ \A j, k \in 1..val.kids[p] :
                 Under(Append(p, j), q) /\ Under(Append(p, k), q) => j = k
<1>1. /\ p \in Seq(Nat) /\ q \in Seq(Nat) /\ val.kids[p] \in Nat
      /\ Len(p) \in Nat /\ Len(q) \in Nat
  BY ShapeOfValue, LenProperties
<1>2. \A k \in 1..val.kids[p] :
         /\ Len(Append(p, k)) = Len(p) + 1
         /\ \A i \in 1..Len(p) : Append(p, k)[i] = p[i]
         /\ Append(p, k)[Len(p) + 1] = k
  BY <1>1, AppendProperties
<1>3. ASSUME NEW k \in 1..val.kids[p], Under(Append(p, k), q)
      PROVE  Under(p, q) /\ q[Len(p) + 1] = k
  <2> DEFINE m == Append(p, k)
  <2>1. /\ Len(m) = Len(p) + 1 /\ m[Len(p) + 1] = k
        /\ \A i \in 1..Len(p) : m[i] = p[i]
    BY <1>2
  <2>2. Len(m) <= Len(q) /\ \A i \in 1..Len(m) : q[i] = m[i]
    BY <1>3 DEF Under
  <2> HIDE DEF m
  <2> QED
    BY <1>1, <2>1, <2>2 DEF Under
<1>4. ASSUME Under(p, q), q # p
      PROVE  \E k \in 1..val.kids[p] : Under(Append(p, k), q)
  <2>1. Len(q) > Len(p)
    <3>1. CASE Len(q) = Len(p)
      <4>1. \A i \in 1..Len(q) : q[i] = p[i]
        BY <1>4, <3>1 DEF Under
      <4> QED
        BY <1>1, <1>4, <3>1, <4>1, SeqEqual
    <3>2. Len(p) <= Len(q)
      BY <1>4 DEF Under
    <3> QED
      BY <1>1, <3>1, <3>2
  <2>2. SubSeq(q, 1, Len(p)) = p
    <3> DEFINE s == SubSeq(q, 1, Len(p))
    <3>1. \A i \in 1..Len(p) : q[i] \in Nat
      BY <1>1, <2>1, ElementOfSeq
    <3>2. /\ s \in Seq(Nat) /\ Len(s) = IF 1 <= Len(p) THEN Len(p) - 1 + 1 ELSE 0
          /\ \A i \in 1..Len(p) - 1 + 1 : s[i] = q[1 + i - 1]
      BY <1>1, <3>1, SubSeqProperties
    <3> HIDE DEF s
    <3>3. Len(s) = Len(p) /\ \A i \in 1..Len(p) : s[i] = p[i]
      BY <1>1, <1>4, <3>2 DEF Under
    <3>4. s = p
      BY <1>1, <3>2, <3>3, SeqEqual
    <3> QED
      BY <3>4 DEF s
  <2>3. q[Len(p) + 1] \in 1..val.kids[p]
    <3>1. Len(p) + 1 \in 1..Len(q) /\ Len(p) + 1 - 1 = Len(p)
      BY <1>1, <2>1
    <3>2. \A n \in 1..Len(q) : q[n] \in 1..val.kids[SubSeq(q, 1, n - 1)]
      BY ShapeOfValue
    <3>3. q[Len(p) + 1] \in 1..val.kids[SubSeq(q, 1, Len(p) + 1 - 1)]
      BY <3>1, <3>2
    <3> QED
      BY <2>2, <3>1, <3>3
  <2>4. Under(Append(p, q[Len(p) + 1]), q)
    <3> DEFINE k == q[Len(p) + 1]
               m == Append(p, k)
    <3>1. k \in 1..val.kids[p] /\ q[Len(p) + 1] = k
      BY <2>3
    <3> HIDE DEF k
    <3>2. /\ Len(m) = Len(p) + 1 /\ m[Len(p) + 1] = k
          /\ \A i \in 1..Len(p) : m[i] = p[i]
      BY <1>2, <3>1
    <3>3. \A i \in 1..Len(p) : q[i] = p[i]
      BY <1>4 DEF Under
    <3> HIDE DEF m
    <3>4. \A i \in 1..Len(m) : q[i] = m[i]
      <4> SUFFICES ASSUME NEW i \in 1..Len(m) PROVE q[i] = m[i]
        OBVIOUS
      <4>1. i \in 1..Len(p) \/ i = Len(p) + 1
        BY <1>1, <3>2
      <4> QED
        BY <3>1, <3>2, <3>3, <4>1
    <3>5. Under(m, q)
      BY <1>1, <2>1, <3>2, <3>4 DEF Under
    <3> QED
      BY <3>5 DEF m, k
  <2> QED
    BY <2>3, <2>4
<1>5. \A k \in 1..val.kids[p] : ~Under(Append(p, k), p)
  BY <1>1, <1>2 DEF Under
<1>6. Under(p, p)
  BY <1>1 DEF Under
<1> QED
  BY <1>3, <1>4, <1>5, <1>6

(* A part has as many members or elements as it says.                      *)
LEMMA MembersCounted ==
    ASSUME TypeOK, NEW p \in Paths
    PROVE  /\ {q \in Paths : q # << >> /\ Front(q) = p} = {Append(p, k) : k \in 1..val.kids[p]}
           /\ IsFiniteSet({Append(p, k) : k \in 1..val.kids[p]})
           /\ Cardinality({Append(p, k) : k \in 1..val.kids[p]}) = val.kids[p]
<1> DEFINE K == 1..val.kids[p]
           C == {Append(p, k) : k \in K}
           f == [k \in K |-> Append(p, k)]
<1>1. p \in Seq(Nat) /\ val.kids[p] \in Nat /\ \A k \in K : Append(p, k) \in Paths
  BY ShapeOfValue
<1>2. \A k \in K : Append(p, k) # << >> /\ Front(Append(p, k)) = p
  BY <1>1, FrontOfAppend
<1>3. ASSUME NEW q \in Paths, q # << >>, Front(q) = p PROVE q \in C
  <2>1. q \in Seq(Nat)
    BY ShapeOfValue
  <2>2. PICK s \in Seq(Nat), e \in Nat : q = Append(s, e)
    BY <1>3, <2>1, SequenceEmptyOrAppend
  <2>3. s = p
    BY <1>3, <2>2, FrontOfAppend
  <2>4. Len(q) = Len(p) + 1 /\ q[Len(p) + 1] = e /\ Len(p) \in Nat
    BY <1>1, <2>2, <2>3, AppendProperties, LenProperties
  <2>5. e \in 1..val.kids[SubSeq(q, 1, Len(q) - 1)]
    <3>1. Len(q) \in 1..Len(q) /\ q[Len(q)] = e
      BY <2>4
    <3> QED
      BY <3>1, ShapeOfValue
  <2>6. SubSeq(q, 1, Len(q) - 1) = p
    BY <1>3 DEF Front
  <2> QED
    BY <2>2, <2>3, <2>5, <2>6
<1>4. \A j, k \in K : Append(p, j) = Append(p, k) => j = k
  <2> SUFFICES ASSUME NEW j \in K, NEW k \in K, Append(p, j) = Append(p, k)
               PROVE  j = k
    OBVIOUS
  <2>1. j \in Nat /\ k \in Nat
    BY <1>1
  <2> QED
    BY <1>1, <2>1, AppendInjective
<1>5. f \in Bijection(K, C)
  BY <1>4 DEF Bijection, Injection, Surjection, IsInjective
<1>6. IsFiniteSet(K) /\ Cardinality(K) = val.kids[p]
  <2>1. \A n \in Nat : IsFiniteSet(1..n) /\ Cardinality(1..n) = n
    BY FS_Interval
  <2> QED
    BY <1>1, <2>1
<1>7. IsFiniteSet(C) /\ Cardinality(C) = Cardinality(K)
  <2>1. ExistsBijection(K, C)
    BY <1>5 DEF ExistsBijection
  <2> HIDE DEF K, C
  <2> QED
    BY <1>6, <2>1, FS_Bijection
<1> QED
  BY <1>1, <1>2, <1>3, <1>6, <1>7

(* The calls that are still to be made after one of them was.              *)
LEMMA AgendaAfter ==
    ASSUME TypeOK, Walk, NEW p, p = Head(agenda).at
    PROVE  /\ p \in Paths /\ agenda # << >> /\ Len(agenda) \in Nat \ {0}
           /\ DOMAIN agenda = 1..Len(agenda) /\ Head(agenda) = agenda[1]
           /\ Head(agenda).depth = Nesting(p)
           /\ agenda' \in Seq([at : Paths, depth : Nat])
           /\ DOMAIN agenda' = 1..val.kids[p] + Len(agenda) - 1
           /\ \A i \in 1..val.kids[p] : agenda'[i] = CallAt(Append(p, i), Nesting(p) + 1)
           /\ \A i \in val.kids[p] + 1..val.kids[p] + Len(agenda) - 1 :
                 i - val.kids[p] + 1 \in 2..Len(agenda) /\ agenda'[i] = agenda[i - val.kids[p] + 1]
<1> DEFINE Call == [at : Paths, depth : Nat]
           s == CallsBelow(Head(agenda))
           t == Tail(agenda)
           k == val.kids[p]
<1>1. /\ agenda \in Seq(Call) /\ agenda # << >> /\ agenda' = s \o t
      /\ \A i \in DOMAIN agenda : agenda[i].depth = Nesting(agenda[i].at)
  BY DEF TypeOK, Walk
<1> HIDE DEF Call
<1>2. /\ Len(agenda) \in Nat \ {0} /\ DOMAIN agenda = 1..Len(agenda)
      /\ Head(agenda) = agenda[1] /\ Head(agenda) \in Call
      /\ t \in Seq(Call) /\ Len(t) = Len(agenda) - 1
      /\ \A i \in 1..Len(t) : t[i] = agenda[i + 1]
  BY <1>1, EmptySeq, LenProperties, HeadTailProperties
<1>3. /\ p \in Paths /\ Head(agenda).depth = Nesting(p) /\ Nesting(p) \in Nat
      /\ k \in Nat /\ \A i \in 1..k : Append(p, i) \in Paths
  <2>1. p \in Paths /\ Head(agenda).depth \in Nat
    BY <1>2 DEF Call
  <2>2. 1 \in DOMAIN agenda
    BY <1>2
  <2>3. Head(agenda).depth = Nesting(p)
    BY <1>1, <1>2, <2>2
  <2> QED
    BY <2>1, <2>3, ShapeOfValue
<1>4. /\ s = [i \in 1..k |-> CallAt(Append(p, i), Nesting(p) + 1)]
      /\ \A i \in 1..k : CallAt(Append(p, i), Nesting(p) + 1) \in Call
  BY <1>3 DEF CallsBelow, CallAt, Call
<1>5. /\ s \in Seq(Call) /\ Len(s) = k
      /\ \A i \in 1..k : s[i] = CallAt(Append(p, i), Nesting(p) + 1)
  <2> HIDE DEF s, k
  <2>1. s \in [1..k -> Call]
    BY <1>4
  <2> QED
    BY <1>3, <1>4, <2>1
<1> HIDE DEF s, t, k
<1>6. /\ s \o t \in Seq(Call) /\ Len(s \o t) = k + Len(agenda) - 1
      /\ \A i \in 1..k + Len(agenda) - 1 : (s \o t)[i] = IF i <= k THEN s[i] ELSE t[i - k]
  <2>1. /\ s \o t \in Seq(Call) /\ Len(s \o t) = Len(s) + Len(t)
        /\ \A i \in 1..Len(s) + Len(t) : (s \o t)[i] = IF i <= Len(s) THEN s[i] ELSE t[i - Len(s)]
    BY <1>2, <1>5, ConcatProperties
  <2> QED
    BY <1>2, <1>3, <1>5, <2>1
<1>7. agenda' \in Seq(Call) /\ DOMAIN agenda' = 1..k + Len(agenda) - 1
  BY <1>1, <1>6, LenProperties
<1>8. \A i \in 1..k : agenda'[i] = CallAt(Append(p, i), Nesting(p) + 1)
  BY <1>1, <1>2, <1>3, <1>5, <1>6
<1>9. ASSUME NEW i \in k + 1..k + Len(agenda) - 1
      PROVE  i - k + 1 \in 2..Len(agenda) /\ agenda'[i] = agenda[i - k + 1]
  <2>1. i - k \in 1..Len(t) /\ i \in 1..k + Len(agenda) - 1 /\ ~(i <= k) /\ i - k + 1 \in 2..Len(agenda)
    BY <1>2, <1>3, <1>9
  <2>2. agenda'[i] = t[i - k]
    BY <1>1, <1>6, <2>1
  <2>3. t[i - k] = agenda[i - k + 1]
    BY <1>2, <2>1
  <2> QED
    BY <2>1, <2>2, <2>3
<1> QED
  BY <1>1, <1>2, <1>3, <1>7, <1>8, <1>9 DEF Call, k

(* Each part that is left is under one call only.                          *)
OneCallEach ==
    \A i, j \in DOMAIN agenda : \A q \in Paths :
        Under(agenda[i].at, q) /\ Under(agenda[j].at, q) => i = j

(* A call counts one part, and leaves the others to those still to be made.*)
LEMMA OnePartCounted ==
    ASSUME TypeOK, OneCallEach, Walk, NEW p, p = Head(agenda).at
    PROVE  /\ OneCallEach' /\ p \in Paths /\ p \notin Seen
           /\ Seen' = Seen \union {p}
<1> DEFINE k == val.kids[p]
           m == Len(agenda)
<1>1. /\ p \in Paths /\ m \in Nat \ {0} /\ k \in Nat
      /\ DOMAIN agenda = 1..m /\ agenda[1].at = p
      /\ DOMAIN agenda' = 1..k + m - 1
      /\ \A i \in 1..k : agenda'[i].at = Append(p, i)
      /\ \A i \in k + 1..k + m - 1 : i - k + 1 \in 2..m /\ agenda'[i].at = agenda[i - k + 1].at
  <2>1. /\ p \in Paths /\ m \in Nat \ {0}
        /\ DOMAIN agenda = 1..m /\ agenda[1].at = p
        /\ DOMAIN agenda' = 1..k + m - 1
        /\ \A i \in 1..k : agenda'[i] = CallAt(Append(p, i), Nesting(p) + 1)
        /\ \A i \in k + 1..k + m - 1 : i - k + 1 \in 2..m /\ agenda'[i] = agenda[i - k + 1]
    BY AgendaAfter
  <2>2. k \in Nat
    BY <2>1, ShapeOfValue
  <2>3. \A q, d : CallAt(q, d).at = q
    BY DEF CallAt
  <2>4. \A i \in 1..k : agenda'[i].at = Append(p, i)
    BY <2>1, <2>3
  <2>5. \A i \in k + 1..k + m - 1 : i - k + 1 \in 2..m /\ agenda'[i].at = agenda[i - k + 1].at
    <3> HIDE DEF k, m
    <3> QED
      BY <2>1
  <2> QED
    BY <2>1, <2>2, <2>4, <2>5
<1>2. val' = val /\ Paths' = Paths
  BY DEF Walk, Paths
<1>3. \A q \in Paths : /\ Under(p, q) <=> q = p \/ \E i \in 1..k : Under(Append(p, i), q)
                       /\ \A i \in 1..k : ~Under(Append(p, i), p)
                       /\ \A i, j \in 1..k :
                             Under(Append(p, i), q) /\ Under(Append(p, j), q) => i = j
  BY <1>1, UnderAPart
<1> HIDE DEF k, m
<1>4. ASSUME NEW q \in Paths, NEW i \in DOMAIN agenda', Under(agenda'[i].at, q)
      PROVE  /\ i \in 1..k => Under(p, q) /\ q # p
             /\ i \notin 1..k => /\ i - k + 1 \in 2..m
                                 /\ Under(agenda[i - k + 1].at, q) /\ ~Under(p, q) /\ q # p
  <2>1. CASE i \in 1..k
    <3>1. Under(Append(p, i), q)
      BY <1>1, <1>4, <2>1
    <3>2. Under(p, q)
      BY <1>3, <2>1, <3>1
    <3>3. ~Under(Append(p, i), p)
      BY <1>1, <1>3, <2>1
    <3> QED
      BY <2>1, <3>1, <3>2, <3>3
  <2>2. CASE i \notin 1..k
    <3>1. i \in k + 1..k + m - 1
      BY <1>1, <2>2
    <3>2. i - k + 1 \in 2..m /\ Under(agenda[i - k + 1].at, q)
      BY <1>1, <1>4, <3>1
    <3>3. 1 \in DOMAIN agenda /\ i - k + 1 \in DOMAIN agenda /\ i - k + 1 # 1
      BY <1>1, <3>2
    <3>4. ~Under(p, q)
      BY <1>1, <3>2, <3>3 DEF OneCallEach
    <3>5. Under(p, p)
      BY <1>1, <1>3
    <3> QED
      BY <2>2, <3>2, <3>4, <3>5
  <2> QED
    BY <2>1, <2>2
<1>5. OneCallEach'
  <2> SUFFICES ASSUME NEW i \in DOMAIN agenda', NEW j \in DOMAIN agenda', NEW q \in Paths,
                      Under(agenda'[i].at, q), Under(agenda'[j].at, q)
               PROVE  i = j
    BY <1>2 DEF OneCallEach, Under
  <2>1. CASE i \in 1..k /\ j \in 1..k
    <3>1. Under(Append(p, i), q) /\ Under(Append(p, j), q)
      BY <1>1, <2>1
    <3> QED
      BY <1>3, <2>1, <3>1
  <2>2. CASE i \notin 1..k /\ j \notin 1..k
    <3>1. /\ i - k + 1 \in DOMAIN agenda /\ Under(agenda[i - k + 1].at, q)
          /\ j - k + 1 \in DOMAIN agenda /\ Under(agenda[j - k + 1].at, q)
      BY <1>1, <1>4, <2>2
    <3>2. i - k + 1 = j - k + 1
      BY <3>1 DEF OneCallEach
    <3> QED
      BY <1>1, <3>2
  <2>3. CASE ~(i \in 1..k <=> j \in 1..k)
    BY <1>4, <2>3
  <2> QED
    BY <2>1, <2>2, <2>3
<1>6. 1 \in DOMAIN agenda /\ Under(agenda[1].at, p)
  BY <1>1, <1>3
<1>7. ASSUME NEW q \in Paths
      PROVE  (\E i \in DOMAIN agenda' : Under(agenda'[i].at, q))
               <=> q # p /\ (\E i \in DOMAIN agenda : Under(agenda[i].at, q))
  <2>1. ASSUME NEW i \in DOMAIN agenda', Under(agenda'[i].at, q)
        PROVE  q # p /\ \E j \in DOMAIN agenda : Under(agenda[j].at, q)
    <3>1. CASE i \in 1..k
      <4>1. q # p /\ Under(agenda[1].at, q)
        BY <1>1, <1>4, <2>1, <3>1
      <4> QED
        BY <1>6, <4>1
    <3>2. CASE i \notin 1..k
      <4>1. q # p /\ i - k + 1 \in DOMAIN agenda /\ Under(agenda[i - k + 1].at, q)
        BY <1>1, <1>4, <2>1, <3>2
      <4> QED
        BY <4>1
    <3> QED
      BY <3>1, <3>2
  <2>2. ASSUME q # p, NEW j \in DOMAIN agenda, Under(agenda[j].at, q)
        PROVE  \E i \in DOMAIN agenda' : Under(agenda'[i].at, q)
    <3>1. CASE j = 1
      <4>1. PICK i \in 1..k : Under(Append(p, i), q)
        BY <1>1, <1>3, <2>2, <3>1
      <4>2. i \in DOMAIN agenda' /\ agenda'[i].at = Append(p, i)
        BY <1>1
      <4> QED
        BY <4>1, <4>2
    <3>2. CASE j # 1
      <4> DEFINE i == j + k - 1
      <4>1. i \in k + 1..k + m - 1 /\ i \in DOMAIN agenda' /\ i - k + 1 = j
        BY <1>1, <3>2
      <4> HIDE DEF i
      <4>2. agenda'[i].at = agenda[j].at
        BY <1>1, <4>1
      <4> QED
        BY <2>2, <4>1, <4>2
    <3> QED
      BY <3>1, <3>2
  <2> QED
    BY <2>1, <2>2
<1>8. Left' = Left \ {p} /\ p \in Left
  <2>1. Left' = {q \in Paths : \E i \in DOMAIN agenda' : Under(agenda'[i].at, q)}
    BY <1>2 DEF Left, Under
  <2> QED
    BY <1>1, <1>6, <1>7, <2>1 DEF Left
<1> QED
  BY <1>1, <1>2, <1>5, <1>8 DEF Seen

(* What has been counted is what there is to count in the parts seen.      *)
Counts ==
    /\ out.keys = Cardinality(MembersAt(Seen))
    /\ \A q \in Seen : Nesting(q) <= out.depth
    /\ out.depth # 0 => \E q \in Seen : Nesting(q) = out.depth
    /\ \A q \in Seen \intersect Arrays : val.kids[q] <= out.array
    /\ out.array # 0 => \E q \in Seen \intersect Arrays : val.kids[q] = out.array

Judged == reason # "none" => (reason = None <=> \A r \in VariablesReasons : ~Exceeded(r))

Inv == TypeOK /\ OneCallEach /\ Counts /\ Judged

LEMMA WalkKeepsCounts ==
    ASSUME TypeOK, OneCallEach, Counts, Walk
    PROVE  Counts' /\ out' \in [depth : Nat, keys : Nat, array : Nat]
<1>1. PICK p : p = Head(agenda).at
  OBVIOUS
<1>2. /\ p \in Paths /\ p \notin Seen /\ Seen' = Seen \union {p}
      /\ Head(agenda).depth = Nesting(p)
  BY <1>1, OnePartCounted, AgendaAfter
<1>3. /\ out \in [depth : Nat, keys : Nat, array : Nat]
      /\ val.kids[p] \in Nat /\ Nesting(p) \in Nat
      /\ \A q \in Paths : val.kids[q] \in Nat /\ Nesting(q) \in Nat
      /\ IsFiniteSet(Paths)
  BY <1>2, ShapeOfValue, LenProperties DEF TypeOK, Nesting
<1>4. /\ out'.depth = IF out.depth < Nesting(p) THEN Nesting(p) ELSE out.depth
      /\ out'.keys = out.keys + IF val.kind[p] = "object" THEN val.kids[p] ELSE 0
      /\ out'.array = IF val.kind[p] = "array"
                      THEN IF out.array < val.kids[p] THEN val.kids[p] ELSE out.array
                      ELSE out.array
      /\ out' \in [depth : Nat, keys : Nat, array : Nat]
  BY <1>1, <1>2, <1>3 DEF Walk, Count, Larger
<1>5. /\ val' = val /\ Paths' = Paths /\ Arrays' = Arrays /\ Seen \subseteq Paths
      /\ \A q : Nesting(q)' = Nesting(q)
  BY DEF Walk, Paths, Arrays, Nesting, Seen
<1>6. out'.keys = Cardinality(MembersAt(Seen)')
  <2> DEFINE M == MembersAt(Seen)
             C == {q \in Paths : q # << >> /\ Front(q) = p}
  <2>1. MembersAt(Seen)' = IF val.kind[p] = "object" THEN M \union C ELSE M
    BY <1>2, <1>5 DEF MembersAt
  <2>2. IsFiniteSet(M) /\ IsFiniteSet(C) /\ M \intersect C = {}
    <3>1. M \in SUBSET Paths /\ C \in SUBSET Paths /\ M \intersect C = {}
      BY <1>2 DEF MembersAt
    <3> HIDE DEF M, C
    <3> QED
      BY <1>3, <3>1, FS_Subset
  <2>3. Cardinality(C) = val.kids[p]
    BY <1>2, MembersCounted
  <2>4. Cardinality(M) = out.keys
    BY DEF Counts
  <2> HIDE DEF M, C
  <2>5. Cardinality(M \union C) = out.keys + val.kids[p]
    <3>1. Cardinality(M \union C) = Cardinality(M) + Cardinality(C) - Cardinality({})
      BY <2>2, FS_Union
    <3>2. Cardinality({}) = 0
      BY FS_EmptySet
    <3> QED
      BY <1>3, <2>3, <2>4, <3>1, <3>2
  <2> QED
    BY <1>3, <1>4, <2>1, <2>4, <2>5
<1>7. /\ \A q \in Seen' : Nesting(q) <= out'.depth
      /\ \E q \in Seen' : Nesting(q) = out'.depth
  <2>1. \A q \in Seen : Nesting(q) <= out.depth
    BY DEF Counts
  <2>2. out.depth < Nesting(p) \/ Nesting(p) = out.depth \/ \E q \in Seen : Nesting(q) = out.depth
    <3>1. CASE out.depth = 0
      <4>1. Nesting(p) >= 1
        BY <1>2, ShapeOfValue, LenProperties DEF Nesting
      <4> QED
        BY <1>3, <3>1, <4>1
    <3>2. CASE out.depth # 0
      BY <3>2 DEF Counts
    <3> QED
      BY <3>1, <3>2
  <2>3. \A q \in Seen' : Nesting(q) <= out'.depth
    BY <1>2, <1>3, <1>4, <1>5, <2>1
  <2> QED
    BY <1>2, <1>3, <1>4, <2>2, <2>3
<1>8. /\ \A q \in Seen' \intersect Arrays : val.kids[q] <= out'.array
      /\ out'.array # 0 => \E q \in Seen' \intersect Arrays : val.kids[q] = out'.array
  <2>1. /\ \A q \in Seen \intersect Arrays : val.kids[q] <= out.array
        /\ out.array # 0 => \E q \in Seen \intersect Arrays : val.kids[q] = out.array
    BY DEF Counts
  <2>2. p \in Arrays <=> val.kind[p] = "array"
    BY <1>2 DEF Arrays
  <2>3. \A q \in Seen' \intersect Arrays : val.kids[q] <= out'.array
    BY <1>2, <1>3, <1>4, <1>5, <2>1, <2>2
  <2>4. out'.array # 0 => \E q \in Seen' \intersect Arrays : val.kids[q] = out'.array
    BY <1>2, <1>3, <1>4, <2>1, <2>2
  <2> QED
    BY <2>3, <2>4
<1> QED
  BY <1>4, <1>5, <1>6, <1>7, <1>8 DEF Counts

(* The least element of a set of naturals.                                 *)
LEMMA LeastIsIn ==
    ASSUME NEW S \in SUBSET Nat, S # {}
    PROVE  Min(S) \in S
<1> DEFINE R == OpToRel(<, Nat)
<1>1. \A x, y \in Nat : << x, y >> \notin R => y <= x
  BY DEF OpToRel
<1>2. IsWellFoundedOn(R, Nat)
  BY NatLessThanWellFounded
<1> HIDE DEF R
<1>3. \E x \in S : \A y \in S : x <= y
  BY <1>1, <1>2, WFMin
<1> QED
  BY <1>3 DEF Min

(* The outcome of the comparisons names the first limit exceeded, if any.  *)
LEMMA CompareJudges ==
    ASSUME TypeOK, Compare
    PROVE  /\ reason' \in VariablesReasons \union {None}
           /\ reason' = None <=> \A r \in VariablesReasons : ~Exceeded(r)
<1> DEFINE hits == {i \in DOMAIN Checks : Checks[i] \in VariablesReasons /\ Exceeded(Checks[i])}
<1>1. /\ DOMAIN Checks = 1..13 /\ Checks[3] = "variables_too_large"
      /\ Checks[4] = "variables_depth" /\ Checks[5] = "variables_keys"
      /\ Checks[6] = "variables_array"
  BY DEF Checks
<1>2. reason' = IF hits = {} THEN None ELSE Checks[Min(hits)]
  BY DEF Compare
<1>3. hits = {} <=> \A r \in VariablesReasons : ~Exceeded(r)
  BY <1>1 DEF VariablesReasons
<1>4. hits # {} => Min(hits) \in hits
  BY <1>1, LeastIsIn
<1>5. hits # {} => Checks[Min(hits)] \in VariablesReasons /\ Checks[Min(hits)] \in Reasons
  BY <1>4 DEF Reasons
<1> HIDE DEF hits
<1> QED
  BY <1>2, <1>3, <1>5, LimitsAssumption

LEMMA WalkKeepsInv ==
    ASSUME Inv, Walk
    PROVE  Inv'
<1>1. TypeOK /\ OneCallEach /\ Counts /\ agenda # << >> /\ reason = "none"
  BY DEF Inv, Walk, TypeOK, Counted
<1>2. UNCHANGED <<val, cfg, reason>>
  BY DEF Walk
<1>3. PICK p : p = Head(agenda).at
  OBVIOUS
<1>4. OneCallEach' /\ Counts' /\ out' \in [depth : Nat, keys : Nat, array : Nat]
  BY <1>1, <1>3, OnePartCounted, WalkKeepsCounts
<1>5. /\ agenda' \in Seq([at : Paths, depth : Nat])
      /\ \A i \in DOMAIN agenda' : agenda'[i].depth = Nesting(agenda'[i].at)
  <2> DEFINE k == val.kids[p]
             m == Len(agenda)
  <2>1. /\ p \in Paths /\ m \in Nat \ {0} /\ DOMAIN agenda = 1..m
        /\ agenda' \in Seq([at : Paths, depth : Nat]) /\ DOMAIN agenda' = 1..k + m - 1
        /\ \A i \in 1..k : agenda'[i] = CallAt(Append(p, i), Nesting(p) + 1)
        /\ \A i \in k + 1..k + m - 1 : i - k + 1 \in 2..m /\ agenda'[i] = agenda[i - k + 1]
    BY <1>1, <1>3, AgendaAfter
  <2>2. p \in Seq(Nat) /\ k \in Nat
    BY <1>1, <2>1, ShapeOfValue
  <2> HIDE DEF k, m
  <2>3. ASSUME NEW i \in 1..k PROVE agenda'[i].depth = Nesting(agenda'[i].at)
    <3>1. agenda'[i].depth = Nesting(p) + 1 /\ agenda'[i].at = Append(p, i)
      <4>1. \A q, d : CallAt(q, d).at = q /\ CallAt(q, d).depth = d
        BY DEF CallAt
      <4>2. agenda'[i] = CallAt(Append(p, i), Nesting(p) + 1)
        BY <2>1
      <4> QED
        BY <4>1, <4>2
    <3>2. Len(Append(p, i)) = Len(p) + 1
      BY <2>2, AppendProperties
    <3> QED
      BY <3>1, <3>2 DEF Nesting
  <2>4. ASSUME NEW i \in k + 1..k + m - 1 PROVE agenda'[i].depth = Nesting(agenda'[i].at)
    <3>1. i - k + 1 \in DOMAIN agenda /\ agenda'[i] = agenda[i - k + 1]
      BY <2>1
    <3> QED
      BY <1>1, <3>1 DEF TypeOK
  <2> QED
    BY <2>1, <2>2, <2>3, <2>4
<1>6. TypeOK'
  BY <1>1, <1>2, <1>4, <1>5 DEF TypeOK, Paths, Nesting
<1>7. Judged'
  BY <1>1, <1>2 DEF Judged
<1> QED
  BY <1>4, <1>6, <1>7 DEF Inv

LEMMA CompareKeepsInv ==
    ASSUME Inv, Compare
    PROVE  Inv'
<1>1. TypeOK /\ OneCallEach /\ Counts
  BY DEF Inv
<1>2. UNCHANGED <<val, cfg, agenda, out>> /\ agenda = << >>
  BY DEF Compare
<1>3. /\ reason' \in VariablesReasons \union {None}
      /\ reason' = None <=> \A r \in VariablesReasons : ~Exceeded(r)
  BY <1>1, CompareJudges
<1>4. TypeOK'
  BY <1>1, <1>2, <1>3 DEF TypeOK, Paths, Nesting, Counted
<1>5. OneCallEach'
  BY <1>1, <1>2 DEF OneCallEach, Paths, Under
<1>6. Counts'
  BY <1>1, <1>2 DEF Counts, Seen, Left, MembersAt, Paths, Arrays, Nesting, Under
<1>7. \A r : Exceeded(r)' <=> Exceeded(r)
  BY <1>2 DEF Exceeded, Stats
<1>8. Judged'
  BY <1>3, <1>7 DEF Judged
<1> QED
  BY <1>4, <1>5, <1>6, <1>8 DEF Inv

LEMMA InitHasInv ==
    ASSUME Init
    PROVE  Inv
<1>1. /\ val \in Values /\ cfg \in Configs /\ reason = "none"
      /\ out = [depth |-> 0, keys |-> 0, array |-> 0]
      /\ agenda = << CallAt(<< >>, 1) >>
  BY DEF Init
<1>2. << >> \in Paths
  BY <1>1, ValuesAssumption DEF Paths
<1>3. /\ agenda \in Seq([at : Paths, depth : Nat]) /\ DOMAIN agenda = {1}
      /\ agenda[1].at = << >> /\ agenda[1].depth = 1
  BY <1>1, <1>2 DEF CallAt
<1>4. TypeOK
  BY <1>1, <1>3 DEF TypeOK, Nesting
<1>5. OneCallEach
  BY <1>3 DEF OneCallEach
<1>6. Seen = {}
  <2>1. \A q \in Paths : Under(<< >>, q)
    BY <1>4, ShapeOfValue, LenProperties DEF Under
  <2> QED
    BY <1>3, <2>1 DEF Seen, Left
<1>7. Counts
  <2>1. MembersAt(Seen) = {}
    BY <1>6 DEF MembersAt
  <2>2. Cardinality(MembersAt(Seen)) = 0
    BY <2>1, FS_EmptySet
  <2> QED
    BY <1>1, <1>6, <2>2 DEF Counts
<1> QED
  BY <1>1, <1>4, <1>5, <1>7 DEF Inv, Judged

(* What is known of a count in every reachable state.                      *)
LEMMA CountInvariance == Spec => []Inv
<1>1. Init => Inv
  BY InitHasInv
<1>2. Inv /\ [Next]_vars => Inv'
  <2> SUFFICES ASSUME Inv, [Next]_vars PROVE Inv'
    OBVIOUS
  <2>1. CASE Walk
    BY <2>1, WalkKeepsInv
  <2>2. CASE Compare
    BY <2>2, CompareKeepsInv
  <2>3. CASE UNCHANGED vars
    <3>1. UNCHANGED <<val, cfg, agenda, out, reason>> /\ TypeOK /\ OneCallEach /\ Counts /\ Judged
      BY <2>3 DEF vars, Inv
    <3>2. TypeOK'
      BY <3>1 DEF TypeOK, Paths, Nesting, Counted
    <3>3. OneCallEach'
      BY <3>1 DEF OneCallEach, Paths, Under
    <3>4. Counts'
      BY <3>1 DEF Counts, Seen, Left, MembersAt, Paths, Arrays, Nesting, Under
    <3>5. Judged'
      BY <3>1 DEF Judged, Exceeded, Stats
    <3> QED
      BY <3>2, <3>3, <3>4, <3>5 DEF Inv
  <2> QED
    BY <2>1, <2>2, <2>3 DEF Next
<1> QED
  BY <1>1, <1>2, PTL DEF Spec

(* The state of a count is well typed, for all values and limits.          *)
(* (graphql_security.rs:582-600)                                           *)
THEOREM TypeCorrect == Spec => []TypeOK
<1>1. Inv => TypeOK
  BY DEF Inv
<1> QED
  BY <1>1, CountInvariance, PTL

(* Once the walk is over everything has been seen.                         *)
LEMMA AllSeen ==
    ASSUME Inv, Counted
    PROVE  StatsAreExact /\ Seen = Paths
<1>1. TypeOK /\ Counts
  BY DEF Inv
<1>2. Seen = Paths
  <2>1. DOMAIN agenda = {}
    BY DEF Counted
  <2> QED
    BY <2>1 DEF Seen, Left
<1>3. MembersAt(Seen) = Members
  <2>1. ASSUME NEW q \in Paths, q # << >> PROVE Front(q) \in Paths
    <3>1. Len(q) \in 1..Len(q)
      BY <1>1, <2>1, ShapeOfValue, EmptySeq
    <3>2. \A n \in 1..Len(q) : SubSeq(q, 1, n - 1) \in Paths
      BY <1>1, ShapeOfValue
    <3> QED
      BY <3>1, <3>2 DEF Front
  <2> QED
    BY <1>2, <2>1 DEF MembersAt, Members
<1>4. << >> \in Paths /\ Nesting(<< >>) = 1 /\ out.depth \in Nat
  BY <1>1, ShapeOfValue DEF Nesting, TypeOK
<1>5. out.depth # 0
  BY <1>1, <1>2, <1>4 DEF Counts
<1>6. Arrays \subseteq Paths
  BY DEF Arrays
<1> QED
  BY <1>1, <1>2, <1>3, <1>5, <1>6 DEF StatsAreExact, Counts

(* The counts are those of the whole value, for all values.                *)
(* (graphql_security.rs:582-607)                                           *)
THEOREM CountsAreExact == Spec => []StatsAreExact
<1>1. Inv => StatsAreExact
  BY AllSeen DEF StatsAreExact
<1> QED
  BY <1>1, CountInvariance, PTL

(* Each limit is on the count it is for.                                   *)
LEMMA WhatIsExceeded ==
    ASSUME TypeOK
    PROVE  /\ Exceeded("variables_too_large") <=> Over(cfg["max_variables_bytes"], val.bytes)
           /\ Exceeded("variables_depth") <=> Over(cfg["max_variables_depth"], out.depth)
           /\ Exceeded("variables_keys") <=> Over(cfg["max_variables_keys"], out.keys)
           /\ Exceeded("variables_array") <=> Over(cfg["max_variables_array_len"], out.array)
<1>1. Stats \in [bytes : Nat, depth : Nat, keys : Nat, array : Nat]
  BY ShapeOfValue DEF Stats, TypeOK
<1>2. Stats # None
  BY <1>1, LimitsAssumption
<1>3. /\ Stats["bytes"] = val.bytes /\ Stats["depth"] = out.depth
      /\ Stats["keys"] = out.keys /\ Stats["array"] = out.array
  BY DEF Stats
<1> HIDE DEF Stats
<1> QED
  BY <1>2, <1>3 DEF Exceeded, VariablesFire

(* The limits on variables let a request through exactly when all parts of *)
(* its variables are within them, for all values and limits.               *)
(* (graphql_security.rs:656-681)                                           *)
THEOREM LimitsReachEverywhere == Spec => []LimitsHoldEverywhere
<1>1. ASSUME Inv, reason # "none"
      PROVE  reason = None <=>
                /\ Within("max_variables_bytes", val.bytes)
                /\ \A p \in Paths : Within("max_variables_depth", Nesting(p))
                /\ Within("max_variables_keys", Cardinality(Members))
                /\ \A p \in Arrays : Within("max_variables_array_len", val.kids[p])
  <2>1. TypeOK /\ Counted /\ StatsAreExact
    BY <1>1, AllSeen DEF Inv, TypeOK
  <2>2. /\ out \in [depth : Nat, keys : Nat, array : Nat] /\ val.bytes \in Nat
        /\ \A p \in Paths : Nesting(p) \in Nat /\ val.kids[p] \in Nat
        /\ \A f \in VariablesLimits : cfg[f] \in Nat \union {None}
        /\ None \notin Nat /\ Arrays \subseteq Paths
    BY <2>1, ShapeOfValue, LenProperties, LimitsAssumption DEF TypeOK, Nesting, Arrays
  <2>3. reason = None <=>
           /\ ~Over(cfg["max_variables_bytes"], val.bytes)
           /\ ~Over(cfg["max_variables_depth"], out.depth)
           /\ ~Over(cfg["max_variables_keys"], out.keys)
           /\ ~Over(cfg["max_variables_array_len"], out.array)
    BY <1>1, <2>1, WhatIsExceeded DEF Inv, Judged, VariablesReasons
  <2>4. \A f \in VariablesLimits : \A n \in Nat : ~Over(cfg[f], n) <=> Within(f, n)
    BY <2>2 DEF Over, Within
  <2>5. Within("max_variables_depth", out.depth)
           <=> \A p \in Paths : Within("max_variables_depth", Nesting(p))
    <3>1. /\ \A p \in Paths : Nesting(p) <= out.depth
          /\ \E p \in Paths : Nesting(p) = out.depth
      BY <2>1 DEF StatsAreExact
    <3>2. cfg["max_variables_depth"] \in Nat \union {None}
      BY <2>2 DEF VariablesLimits
    <3> QED
      BY <2>2, <3>1, <3>2 DEF Within
  <2>6. Within("max_variables_array_len", out.array)
           <=> \A p \in Arrays : Within("max_variables_array_len", val.kids[p])
    <3>1. /\ \A p \in Arrays : val.kids[p] <= out.array
          /\ out.array # 0 => \E p \in Arrays : val.kids[p] = out.array
      BY <2>1 DEF StatsAreExact
    <3>2. cfg["max_variables_array_len"] \in Nat \union {None}
      BY <2>2 DEF VariablesLimits
    <3> QED
      BY <2>2, <3>1, <3>2 DEF Within
  <2>7. out.keys = Cardinality(Members)
    BY <2>1 DEF StatsAreExact
  <2> QED
    BY <2>2, <2>3, <2>4, <2>5, <2>6, <2>7 DEF VariablesLimits
<1>2. Inv => LimitsHoldEverywhere
  BY <1>1 DEF LimitsHoldEverywhere
<1> QED
  BY <1>2, CountInvariance, PTL

(* What a count has yet to do: a call for each part left, and to judge.    *)
ToCount == Cardinality(Left) + (IF reason = "none" THEN 1 ELSE 0)

(* The parts left are finitely many.                                       *)
LEMMA ToCountTyped == Inv => IsFiniteSet(Left) /\ Cardinality(Left) \in Nat /\ ToCount \in Nat
<1> SUFFICES ASSUME Inv PROVE IsFiniteSet(Left) /\ Cardinality(Left) \in Nat /\ ToCount \in Nat
  OBVIOUS
<1>1. IsFiniteSet(Paths) /\ Left \subseteq Paths
  BY ShapeOfValue DEF Inv, Left
<1>2. IsFiniteSet(Left) /\ Cardinality(Left) \in Nat
  BY <1>1, FS_Subset, FS_CardinalityType
<1> QED
  BY <1>2 DEF ToCount

(* A call takes the part it is for from those left, and leaves the others. *)
LEMMA WalkCountsOne ==
    ASSUME Inv, Walk
    PROVE  ToCount' < ToCount
<1>1. PICK p : p = Head(agenda).at
  OBVIOUS
<1>2. p \in Paths /\ p \notin Seen /\ Seen' = Seen \union {p} /\ val' = val /\ reason' = reason
  BY <1>1, OnePartCounted DEF Inv, Walk
<1>3. Paths' = Paths /\ Left \subseteq Paths /\ Left' \subseteq Paths'
  BY <1>2 DEF Paths, Left
<1>4. p \in Left /\ Left' = Left \ {p}
  BY <1>2, <1>3 DEF Seen
<1>5. IsFiniteSet(Left) /\ Cardinality(Left) \in Nat
  BY ToCountTyped
<1>6. Cardinality(Left') = Cardinality(Left) - 1
  BY <1>4, <1>5, FS_RemoveElement
<1> QED
  BY <1>2, <1>5, <1>6 DEF ToCount

(* No part of the variables is walked twice, whatever their shape: a count *)
(* makes no more calls than the value has parts, and judges it once.       *)
(* (graphql_security.rs:582-600)                                           *)
THEOREM CountsAreBounded == Spec => [](ToCount \in Nat) /\ [][ToCount' < ToCount]_vars
<1>1. Inv /\ [Next]_vars => [ToCount' < ToCount]_vars
  <2> SUFFICES ASSUME Inv, Next, ~UNCHANGED vars PROVE ToCount' < ToCount
    BY DEF vars
  <2>1. CASE Walk
    BY <2>1, WalkCountsOne
  <2>2. CASE Compare
    <3>1. /\ UNCHANGED <<val, cfg, agenda, out>> /\ reason = "none" /\ reason' # "none"
      BY <2>2 DEF Compare, vars
    <3>2. Left' = Left
      BY <3>1 DEF Left, Paths, Under
    <3>3. Cardinality(Left) \in Nat
      BY ToCountTyped
    <3> QED
      BY <3>1, <3>2, <3>3 DEF ToCount
  <2> QED
    BY <2>1, <2>2 DEF Next
<1>2. Inv => ToCount \in Nat
  BY ToCountTyped
<1> QED
  BY <1>1, <1>2, CountInvariance, PTL DEF Spec
=============================================================================
