------------------------ MODULE GraphqlWalk_proofs ------------------------
(***************************************************************************)
(* Theorems of GraphqlWalk, for every document and every walk: its state   *)
(* is well typed, and `visiting' is the set of fragments open on the call  *)
(* stack.                                                                  *)
(*                                                                         *)
(* Every step of the walk does one of three things to the stack: it        *)
(* settles the frame on top, pushes a frame, or pops one.  The lemmas say  *)
(* what each does to the frames, and the invariants follow from them.      *)
(***************************************************************************)
EXTENDS GraphqlWalk, SequenceTheorems, TLAPS

Selections == Seq(1..Len(doc.sel))

(* What is multiplied by each power of the factor in the cost of nothing   *)
(* and of one selection, in a sum, and in the factor times a cost: 0.0f64  *)
(* and the arithmetic of compute_cost.  (graphql_security.rs:502-513)      *)
LEMMA CostsAdd ==
    /\ << >> \in Seq(Nat) /\ \A l \in Nat : Level(<< >>, l) = 0
    /\ \A x \in Nat : /\ << x >> \in Seq(Nat)
                      /\ \A l \in Nat : Level(<< x >>, l) = IF l = 0 THEN x ELSE 0
    /\ \A a \in Seq(Nat) : \A l \in Nat : Level(a, l) \in Nat
    /\ \A a, b \in Seq(Nat) : /\ Plus(a, b) \in Seq(Nat)
                             /\ \A l \in Nat : Level(Plus(a, b), l) = Level(a, l) + Level(b, l)
    /\ \A a \in Seq(Nat) :
          /\ FactorTimes(a) \in Seq(Nat)
          /\ \A l \in Nat : Level(FactorTimes(a), l) = IF l = 0 THEN 0 ELSE Level(a, l - 1)
<1>1. << >> \in Seq(Nat) /\ \A l \in Nat : Level(<< >>, l) = 0
  BY EmptySeq DEF Level
<1>2. ASSUME NEW x \in Nat
      PROVE  << x >> \in Seq(Nat) /\ \A l \in Nat : Level(<< x >>, l) = IF l = 0 THEN x ELSE 0
  <2>1. << x >> \in Seq(Nat) /\ DOMAIN << x >> = 1..1 /\ << x >>[1] = x
    OBVIOUS
  <2> QED
    BY <2>1 DEF Level
<1>3. ASSUME NEW a \in Seq(Nat)
      PROVE  /\ Len(a) \in Nat /\ DOMAIN a = 1..Len(a) /\ \A i \in 1..Len(a) : a[i] \in Nat
             /\ \A l \in Nat : Level(a, l) \in Nat
             /\ \A l \in Nat : Level(a, l) = IF l < Len(a) THEN a[l + 1] ELSE 0
  <2>1. Len(a) \in Nat /\ DOMAIN a = 1..Len(a) /\ \A i \in 1..Len(a) : a[i] \in Nat
    BY LenProperties, ElementOfSeq
  <2> QED
    BY <2>1 DEF Level
<1>4. ASSUME NEW a \in Seq(Nat), NEW b \in Seq(Nat)
      PROVE  /\ Plus(a, b) \in Seq(Nat)
             /\ \A l \in Nat : Level(Plus(a, b), l) = Level(a, l) + Level(b, l)
  <2>1. PICK n \in Nat : /\ DOMAIN a \union DOMAIN b = 1..n
                         /\ \A l \in Nat : l >= n => Level(a, l) = 0 /\ Level(b, l) = 0
    <3>1. \A c \in {a, b} : /\ Len(c) \in Nat /\ DOMAIN c = 1..Len(c)
                            /\ \A l \in Nat : l >= Len(c) => Level(c, l) = 0
      <4> SUFFICES ASSUME NEW c \in {a, b}
                   PROVE  /\ Len(c) \in Nat /\ DOMAIN c = 1..Len(c)
                          /\ \A l \in Nat : l >= Len(c) => Level(c, l) = 0
        OBVIOUS
      <4>1. c \in Seq(Nat)
        OBVIOUS
      <4>2. /\ Len(c) \in Nat /\ DOMAIN c = 1..Len(c)
            /\ \A l \in Nat : Level(c, l) = IF l < Len(c) THEN c[l + 1] ELSE 0
        BY <1>3, <4>1
      <4> QED
        BY <4>2
    <3> PICK j \in Nat : j = Len(a)
      BY <3>1
    <3> PICK k \in Nat : k = Len(b)
      BY <3>1
    <3>2. CASE j <= k
      <4>1. 1..j \union 1..k = 1..k
        BY <3>2
      <4> QED
        BY <3>1, <3>2, <4>1
    <3>3. CASE ~(j <= k)
      <4>1. 1..j \union 1..k = 1..j
        BY <3>3
      <4> QED
        BY <3>1, <3>3, <4>1
    <3> QED
      BY <3>2, <3>3
  <2>2. Plus(a, b) = [i \in 1..n |-> Level(a, i - 1) + Level(b, i - 1)]
    BY <2>1 DEF Plus
  <2>3. ASSUME NEW i \in 1..n
        PROVE  Level(a, i - 1) + Level(b, i - 1) \in Nat
    <3>1. i - 1 \in Nat
      OBVIOUS
    <3>2. Level(a, i - 1) \in Nat /\ Level(b, i - 1) \in Nat
      BY <1>3, <3>1
    <3> QED
      BY <3>2
  <2>4. Plus(a, b) \in Seq(Nat)
    BY <2>2, <2>3, IsASeq
  <2>5. ASSUME NEW l \in Nat
        PROVE  Level(Plus(a, b), l) = Level(a, l) + Level(b, l)
    <3>1. DOMAIN Plus(a, b) = 1..n
      BY <2>2
    <3>2. CASE l < n
      <4>1. l + 1 \in 1..n /\ l + 1 - 1 = l
        BY <3>2
      <4>2. Level(Plus(a, b), l) = Plus(a, b)[l + 1]
        BY <3>1, <4>1 DEF Level
      <4> QED
        BY <2>2, <4>1, <4>2
    <3>3. CASE ~(l < n)
      <4>1. l + 1 \notin 1..n /\ Level(a, l) = 0 /\ Level(b, l) = 0
        BY <2>1, <3>3
      <4> QED
        BY <3>1, <4>1 DEF Level
    <3> QED
      BY <3>2, <3>3
  <2> QED
    BY <2>4, <2>5
<1>5. ASSUME NEW a \in Seq(Nat)
      PROVE  /\ FactorTimes(a) \in Seq(Nat)
             /\ \A l \in Nat : Level(FactorTimes(a), l) = IF l = 0 THEN 0 ELSE Level(a, l - 1)
  <2>1. << 0 >> \in Seq(Nat) /\ Len(<< 0 >>) = 1 /\ << 0 >>[1] = 0
    OBVIOUS
  <2>2. PICK b : b = FactorTimes(a)
    OBVIOUS
  <2>3. /\ b \in Seq(Nat) /\ Len(b) = 1 + Len(a) /\ b[1] = 0
        /\ \A i \in 1..Len(a) : b[1 + i] = a[i]
    BY <1>3, <2>1, <2>2, ConcatProperties DEF FactorTimes
  <2>4. ASSUME NEW l \in Nat
        PROVE  Level(b, l) = IF l = 0 THEN 0 ELSE Level(a, l - 1)
    <3>1. PICK k \in Nat : k = Len(a) /\ Len(b) = 1 + k
      BY <1>3, <2>3
    <3>2. Level(b, l) = IF l < 1 + k THEN b[l + 1] ELSE 0
      BY <1>3, <2>3, <3>1
    <3>3. CASE l = 0
      BY <2>3, <3>2, <3>3
    <3>4. CASE l # 0
      <4>1. PICK m \in Nat : m = l - 1 /\ l = m + 1
        BY <3>4
      <4>2. Level(a, m) = IF m < k THEN a[m + 1] ELSE 0
        BY <1>3, <3>1
      <4>3. ASSUME m < k PROVE b[l + 1] = a[m + 1]
        <5>1. m + 1 \in 1..Len(a) /\ 1 + (m + 1) = l + 1
          BY <3>1, <4>1, <4>3
        <5> QED
          BY <2>3, <5>1
      <4>4. l < 1 + k <=> m < k
        BY <4>1
      <4> QED
        BY <3>2, <3>4, <4>1, <4>2, <4>3, <4>4
    <3> QED
      BY <3>3, <3>4
  <2> QED
    BY <2>2, <2>3, <2>4
<1> QED
  BY <1>1, <1>2, <1>3, <1>4, <1>5

(* The values of frames are depths, or costs: they only grow from what the *)
(* walk's configuration names.  (graphql_security.rs:326-380, 476-535)     *)
LEMMA ValuesTyped ==
    ASSUME walk \in Walks
    PROVE  /\ Nothing \in Value
           /\ \A a, v \in Value : Join(a, v) \in Value
           /\ \A n : Leaf(n) \in Value
           /\ \A n : \A acc \in Value : Whole(n, acc) \in Value
           /\ Revisit \in Value
<1>1. /\ walk.of \in {"depth", "cost"}
      /\ walk.scalar_cost \in Nat /\ walk.object_cost \in Nat /\ walk.recursion_cost \in Nat
  BY WalksAssumption
<1>2. CASE walk.of = "depth"
  <2>1. Value = Nat
    BY <1>2 DEF Value
  <2>2. Nothing \in Value /\ Revisit \in Value /\ \A n : Leaf(n) \in Value
    BY <1>2, <2>1 DEF Nothing, Revisit, Leaf
  <2>3. /\ \A a, v \in Value : Join(a, v) \in Value
        /\ \A n : \A acc \in Value : Whole(n, acc) \in Value
    BY <1>2, <2>1 DEF Join, Whole
  <2> QED
    BY <2>2, <2>3
<1>3. CASE walk.of = "cost"
  <2>1. Value = Seq(Nat)
    BY <1>3 DEF Value
  <2>2. Nothing \in Value /\ Revisit \in Value /\ \A n : Leaf(n) \in Value
    BY <1>1, <1>3, <2>1, CostsAdd DEF Nothing, Revisit, Leaf
  <2>3. \A a, v \in Value : Join(a, v) \in Value
    BY <1>3, <2>1, CostsAdd DEF Join
  <2>4. ASSUME NEW n, NEW acc \in Value
        PROVE  Whole(n, acc) \in Value
    <3>1. /\ << walk.object_cost >> \in Seq(Nat)
          /\ acc \in Seq(Nat) /\ FactorTimes(acc) \in Seq(Nat)
      BY <1>1, <2>1, CostsAdd
    <3>2. /\ Plus(<< walk.object_cost >>, acc) \in Seq(Nat)
          /\ Plus(<< walk.object_cost >>, FactorTimes(acc)) \in Seq(Nat)
      BY <3>1, CostsAdd
    <3> QED
      BY <1>3, <2>1, <3>1, <3>2 DEF Whole
  <2> QED
    BY <2>2, <2>3, <2>4
<1> QED
  BY <1>1, <1>2, <1>3

(* Front and Last take a sequence apart. *)
LEMMA FrontLast ==
    ASSUME NEW S, NEW s \in Seq(S), s # << >>
    PROVE  /\ Len(s) \in Nat \ {0}
           /\ Last(s) = s[Len(s)] /\ Last(s) \in S
           /\ Front(s) \in Seq(S) /\ Len(Front(s)) = Len(s) - 1
           /\ \A i \in 1..Len(s) - 1 : Front(s)[i] = s[i]
<1> DEFINE n == Len(s)
<1>1. n \in Nat /\ n # 0
  BY EmptySeq, LenProperties
<1>2. \A i \in 1..n : s[i] \in S
  BY ElementOfSeq
<1>3. /\ SubSeq(s, 1, n - 1) \in Seq(S)
      /\ Len(SubSeq(s, 1, n - 1)) = IF 1 <= n - 1 THEN n - 1 - 1 + 1 ELSE 0
      /\ \A i \in 1..n - 1 - 1 + 1 : SubSeq(s, 1, n - 1)[i] = s[1 + i - 1]
  <2> SUFFICES n - 1 \in Int /\ 1 \in Int /\ \A i \in 1..n - 1 : s[i] \in S
    BY SubSeqProperties
  <2> HIDE DEF n
  <2> QED
    BY <1>1, <1>2
<1>4. Front(s) = SubSeq(s, 1, n - 1) /\ Last(s) = s[n]
  BY DEF Front, Last
<1> HIDE DEF n
<1>5. n \in 1..n
  BY <1>1
<1>6. Len(Front(s)) = n - 1 /\ \A i \in 1..n - 1 : Front(s)[i] = s[i]
  BY <1>1, <1>3, <1>4
<1>7. n = Len(s)
  BY DEF n
<1> QED
  BY <1>1, <1>2, <1>3, <1>4, <1>5, <1>6, <1>7

(* A frame put on top of some frames. *)
LEMMA OnTop ==
    ASSUME NEW S, NEW s \in Seq(S), NEW t \in S
    PROVE  /\ s \o << t >> \in Seq(S) /\ Len(s \o << t >>) = Len(s) + 1
           /\ \A i \in 1..Len(s) : (s \o << t >>)[i] = s[i]
           /\ (s \o << t >>)[Len(s) + 1] = t
<1>1. << t >> \in Seq(S) /\ Len(<< t >>) = 1 /\ << t >>[1] = t
  OBVIOUS
<1>2. Len(s) \in Nat
  BY LenProperties
<1> QED
  BY <1>1, <1>2, ConcatProperties

(* A frame that takes a value is still a frame, for the same selection. *)
LEMMA TakeTyped ==
    ASSUME TypeOK, NEW frame \in FrameType, frame.todo # << >>, NEW v \in Value
    PROVE  Take(frame, v) \in FrameType /\ Take(frame, v).node = frame.node
<1>1. frame.todo \in Selections /\ frame.acc \in Value /\ frame.node \in 0..Len(doc.sel)
  BY DEF FrameType, Selections
<1>2. Tail(frame.todo) \in Selections
  BY <1>1, HeadTailProperties DEF Selections
<1>3. Join(frame.acc, v) \in Value
  BY <1>1, ValuesTyped DEF TypeOK
<1> QED
  BY <1>1, <1>2, <1>3 DEF FrameType, Take, Selections

(* The sets of a document hold selections of it.                           *)
LEMMA SetsTyped ==
    ASSUME doc \in Documents
    PROVE  /\ Len(doc.sel) \in Nat /\ DOMAIN doc.sel = 1..Len(doc.sel)
           /\ doc.ops \in Seq(Selections) /\ \A o \in DOMAIN doc.ops : doc.ops[o] \in Selections
           /\ \A n \in 1..Len(doc.sel) : doc.sel[n].set \in Selections
           /\ \A f \in DOMAIN doc.frags : doc.frags[f] \in Selections
<1>1. \A n \in 1..Len(doc.sel) : doc.sel[n].set \in Seq(n + 1..Len(doc.sel))
  BY DocumentsAssumption DEF SetOnce
<1>2. ASSUME NEW n \in 1..Len(doc.sel)
      PROVE  doc.sel[n].set \in Selections
  <2>1. n + 1..Len(doc.sel) \subseteq 1..Len(doc.sel)
    BY DocumentsAssumption
  <2> QED
    BY <1>1, <2>1 DEF Selections
<1> QED
  BY <1>2, DocumentsAssumption DEF SetOnce, Selections

(* The selection a walk is at, and what lies below it. *)
LEMMA HereTyped ==
    ASSUME TypeOK, Walking
    PROVE  /\ Len(stack) \in Nat \ {0} /\ Top = stack[Len(stack)] /\ Top \in FrameType
           /\ Here \in 1..Len(doc.sel) /\ doc.sel[Here].set \in Selections
           /\ \A f \in DOMAIN doc.frags : doc.frags[f] \in Selections
<1>1. /\ Len(stack) \in Nat \ {0} /\ Top = stack[Len(stack)] /\ Top \in FrameType
      /\ Top.todo # << >>
  BY FrontLast DEF TypeOK, Walking, Top
<1>2. Here \in 1..Len(doc.sel)
  BY <1>1, HeadTailProperties DEF FrameType, Here
<1> QED
  BY <1>1, <1>2, SetsTyped DEF TypeOK

(* Settling the frame on top keeps every frame's node. *)
LEMMA SettleStack ==
    ASSUME TypeOK, Walking, NEW v \in Value, Settle(v)
    PROVE  /\ stack' \in Seq(FrameType) /\ Len(stack') = Len(stack)
           /\ \A i \in 1..Len(stack) - 1 : stack'[i] = stack[i]
           /\ stack'[Len(stack)].node = stack[Len(stack)].node
           /\ stack'[Len(stack)] = Take(Top, v)
<1>1. stack \in Seq(FrameType) /\ stack # << >> /\ Top.todo # << >>
  BY DEF TypeOK, Walking
<1>2. PICK t \in FrameType : t = Take(Top, v) /\ t.node = Top.node
  BY <1>1, HereTyped, TakeTyped
<1>3. PICK below \in Seq(FrameType) :
         /\ below = Front(stack) /\ Len(below) = Len(stack) - 1
         /\ \A i \in 1..Len(stack) - 1 : below[i] = stack[i]
  BY <1>1, FrontLast
<1>4. stack' = below \o << t >>
  BY <1>2, <1>3 DEF Settle
<1>5. Len(stack) \in Nat \ {0} /\ Top = stack[Len(stack)]
  BY HereTyped
<1> QED
  BY <1>2, <1>3, <1>4, <1>5, OnTop

(* Descending pushes one frame. *)
LEMMA DescendStack ==
    ASSUME TypeOK, Walking, NEW n \in 1..Len(doc.sel), NEW set \in Selections,
           Descend(n, set)
    PROVE  /\ stack' \in Seq(FrameType) /\ Len(stack') = Len(stack) + 1
           /\ \A i \in 1..Len(stack) : stack'[i] = stack[i]
           /\ stack'[Len(stack) + 1].node = n
           /\ stack'[Len(stack) + 1] = Frame(n, set)
<1>1. stack \in Seq(FrameType)
  BY DEF TypeOK
<1>2. Len(doc.sel) \in Nat
  BY DocumentsAssumption DEF TypeOK
<1>3. Frame(n, set) \in FrameType /\ Frame(n, set).node = n
  BY <1>2, ValuesTyped DEF TypeOK, Frame, FrameType, Selections
<1>4. stack' = Append(stack, Frame(n, set))
  BY DEF Descend
<1> QED
  BY <1>1, <1>3, <1>4, AppendProperties

(* Returning pops one frame and settles the one below. *)
LEMMA ReturnStack ==
    ASSUME TypeOK, Return
    PROVE  /\ stack' \in Seq(FrameType) /\ Len(stack') = Len(stack) - 1
           /\ Len(stack) \in Nat /\ Len(stack) > 1 /\ Top = stack[Len(stack)]
           /\ \A i \in 1..Len(stack) - 2 : stack'[i] = stack[i]
           /\ stack'[Len(stack) - 1].node = stack[Len(stack) - 1].node
           /\ stack'[Len(stack) - 1] = Take(stack[Len(stack) - 1], Whole(Top.node, Top.acc))
<1>1. stack \in Seq(FrameType) /\ stack # << >> /\ Len(stack) > 1
  BY DEF TypeOK, Return
<1>2. Top = stack[Len(stack)] /\ Top \in FrameType /\ Len(stack) \in Nat
  BY <1>1, FrontLast DEF Top
<1>3. PICK below \in Seq(FrameType) :
         /\ below = Front(stack) /\ Len(below) = Len(stack) - 1
         /\ \A i \in 1..Len(stack) - 1 : below[i] = stack[i]
  BY <1>1, FrontLast
<1>4. below # << >>
  BY <1>1, <1>2, <1>3
<1>5. PICK rest \in Seq(FrameType) :
         /\ rest = Front(below) /\ Len(rest) = Len(stack) - 2
         /\ \A i \in 1..Len(stack) - 2 : rest[i] = stack[i]
  <2>1. /\ Front(below) \in Seq(FrameType) /\ Len(Front(below)) = Len(below) - 1
        /\ \A i \in 1..Len(below) - 1 : Front(below)[i] = below[i]
    BY <1>4, FrontLast
  <2> QED
    BY <1>2, <1>3, <2>1
<1>6. Last(below) = stack[Len(stack) - 1] /\ Last(below) \in FrameType
  BY <1>1, <1>2, <1>3, <1>4, FrontLast
<1>7. Last(below).todo # << >>
  BY <1>1, <1>2, <1>6 DEF TypeOK
<1>8. Whole(Top.node, Top.acc) \in Value
  BY <1>2, ValuesTyped DEF FrameType, TypeOK
<1>9. PICK t \in FrameType :
         /\ t = Take(Last(below), Whole(Top.node, Top.acc))
         /\ t.node = Last(below).node
  BY <1>6, <1>7, <1>8, TakeTyped
<1>10. stack' = rest \o << t >>
  BY <1>3, <1>5, <1>9 DEF Return
<1>11. /\ stack' \in Seq(FrameType) /\ Len(stack') = Len(rest) + 1
       /\ \A i \in 1..Len(rest) : stack'[i] = rest[i]
       /\ stack'[Len(rest) + 1] = t
  BY <1>10, OnTop
<1>12. /\ Len(stack') = Len(stack) - 1
       /\ \A i \in 1..Len(stack) - 2 : stack'[i] = stack[i]
       /\ stack'[Len(stack) - 1] = t
  BY <1>2, <1>5, <1>11
<1> QED
  BY <1>1, <1>2, <1>6, <1>9, <1>11, <1>12

-----------------------------------------------------------------------------
(* The inductive invariant.                                                *)
Inv == TypeOK /\ VisitingIsTheOpenPath

(* The stack on which operation o starts.                                  *)
OperationStack(o) ==
    /\ OperationFrame(o) \in Seq(FrameType)
    /\ Len(OperationFrame(o)) \in {0, 1}
    /\ OperationFrame(o) # << >> => o \in DOMAIN doc.ops

(* An operation starts with its own set, or there is none.                 *)
LEMMA OperationFrameTyped ==
    ASSUME doc \in Documents, walk \in Walks, NEW o
    PROVE  OperationStack(o)
<1>1. Len(doc.sel) \in Nat /\ doc.ops \in Seq(Selections)
  BY DocumentsAssumption DEF Selections
<1>2. CASE o \in DOMAIN doc.ops
  <2>1. o \in 1..Len(doc.ops)
    BY <1>1, <1>2, LenProperties
  <2>2. doc.ops[o] \in Selections
    BY <1>1, <2>1, ElementOfSeq
  <2>3. Frame(0, doc.ops[o]) \in FrameType
    BY <1>1, <2>2, ValuesTyped DEF Frame, FrameType, Selections
  <2>4. OperationFrame(o) = << Frame(0, doc.ops[o]) >>
    BY <1>2 DEF OperationFrame
  <2> QED
    BY <1>2, <2>3, <2>4 DEF OperationStack
<1>3. CASE o \notin DOMAIN doc.ops
  BY <1>3, EmptySeq DEF OperationFrame, OperationStack
<1> QED
  BY <1>2, <1>3

(* A frame that takes a value disturbs neither the types nor the open path. *)
LEMMA SettleKeepsInv ==
    ASSUME Inv, Walking, NEW v \in Value, Settle(v)
    PROVE  Inv'
<1>1. TypeOK /\ UNCHANGED <<doc, walk, op, visiting, total>>
  BY DEF Inv, Settle
<1>2. /\ stack' \in Seq(FrameType) /\ Len(stack') = Len(stack)
      /\ \A i \in 1..Len(stack) - 1 : stack'[i] = stack[i]
      /\ stack'[Len(stack)].node = stack[Len(stack)].node
      /\ Len(stack) \in Nat \ {0}
  BY <1>1, SettleStack, HereTyped
<1>3. \A i \in 1..Len(stack) : stack'[i].node = stack[i].node
  BY <1>2
<1>4. TypeOK'
  <2>1. op' \in DOMAIN doc'.ops
    BY <1>1, <1>2 DEF TypeOK, Walking
  <2>2. ASSUME NEW i \in 2..Len(stack)
        PROVE  stack'[i - 1].todo # << >> /\ stack'[i].node = Head(stack'[i - 1].todo)
    <3>1. i - 1 \in 1..Len(stack) - 1 /\ i \in 1..Len(stack)
      BY <1>2
    <3> QED
      BY <1>1, <1>2, <1>3, <3>1 DEF TypeOK
  <2> QED
    BY <1>1, <1>2, <2>1, <2>2 DEF TypeOK, FrameType, Value
<1>5. VisitingIsTheOpenPath'
  BY <1>1, <1>2, <1>3 DEF Inv, VisitingIsTheOpenPath, IsSpread
<1> QED
  BY <1>4, <1>5 DEF Inv

(* A set that is entered opens a fragment when it is entered by a spread.  *)
LEMMA DescendKeepsInv ==
    ASSUME Inv, Walking, NEW set \in Selections, Descend(Here, set),
           \/ ~IsSpread(Here) /\ visiting' = visiting
           \/ /\ IsSpread(Here)
              /\ doc.sel[Here].name \in DOMAIN doc.frags \ visiting
              /\ visiting' = visiting \union {doc.sel[Here].name}
    PROVE  Inv'
<1> DEFINE k == Len(stack)
<1>1. TypeOK /\ UNCHANGED <<doc, walk, op, total>>
  BY DEF Inv, Descend
<1>2. /\ k \in Nat \ {0} /\ Top = stack[k] /\ Top \in FrameType
      /\ Here \in 1..Len(doc.sel)
  BY <1>1, HereTyped
<1>3. /\ stack' \in Seq(FrameType) /\ Len(stack') = k + 1
      /\ \A i \in 1..k : stack'[i] = stack[i]
      /\ stack'[k + 1].node = Here
  BY <1>1, <1>2, DescendStack
<1>4. visiting' \subseteq DOMAIN doc.frags
  BY <1>1 DEF TypeOK
<1> HIDE DEF k
<1>5. TypeOK'
  <2>1. op' \in DOMAIN doc'.ops
    BY <1>1 DEF TypeOK, Walking
  <2>2. ASSUME NEW i \in 2..k + 1
        PROVE  stack'[i - 1].todo # << >> /\ stack'[i].node = Head(stack'[i - 1].todo)
    <3>1. CASE i = k + 1
      BY <1>2, <1>3, <3>1 DEF Walking, Here
    <3>2. CASE i # k + 1
      <4>1. i \in 2..k /\ i - 1 \in 1..k /\ i \in 1..k
        BY <1>2, <3>2
      <4> QED
        BY <1>1, <1>3, <4>1 DEF TypeOK, k
    <3> QED
      BY <3>1, <3>2
  <2> QED
    BY <1>1, <1>3, <1>4, <2>1, <2>2 DEF TypeOK, FrameType, Value
<1>6. VisitingIsTheOpenPath'
  <2> DEFINE spreads == {i \in 2..k : IsSpread(stack[i].node)}
             Name(i) == doc.sel[stack[i].node].name
             spreadsN == {i \in 2..k + 1 : doc.sel[stack'[i].node].kind = "spread"}
             NameN(i) == doc.sel[stack'[i].node].name
  <2>1. visiting = {Name(i) : i \in spreads} /\ \A i, j \in spreads : Name(i) = Name(j) => i = j
    BY DEF Inv, VisitingIsTheOpenPath, k
  <2>2. /\ \A i \in spreads : i \in spreadsN /\ NameN(i) = Name(i) /\ i # k + 1
        /\ \A i \in spreadsN : i # k + 1 => i \in spreads /\ NameN(i) = Name(i)
    BY <1>2, <1>3 DEF IsSpread
  <2>3. /\ k + 1 \in spreadsN <=> IsSpread(Here)
        /\ NameN(k + 1) = doc.sel[Here].name
    BY <1>2, <1>3 DEF IsSpread
  <2>4. visiting' = {NameN(i) : i \in spreadsN} /\ \A i, j \in spreadsN : NameN(i) = NameN(j) => i = j
    <3> HIDE DEF spreads, Name, spreadsN, NameN
    <3>1. CASE ~IsSpread(Here)
      <4>1. spreadsN = spreads /\ visiting' = visiting
        BY <2>2, <2>3, <3>1
      <4> QED
        BY <2>1, <2>2, <4>1
    <3>2. CASE IsSpread(Here)
      <4>1. spreadsN = spreads \union {k + 1}
        BY <2>2, <2>3, <3>2
      <4>2. visiting' = visiting \union {NameN(k + 1)} /\ NameN(k + 1) \notin visiting
        BY <2>3, <3>2
      <4> QED
        BY <2>1, <2>2, <4>1, <4>2
    <3> QED
      BY <3>1, <3>2
  <2> QED
    BY <1>1, <1>3, <2>4 DEF VisitingIsTheOpenPath, IsSpread
<1> QED
  BY <1>5, <1>6 DEF Inv

(* A set that is left closes the fragment that its spread had opened, and  *)
(* no other: each fragment is open once.                                   *)
LEMMA ReturnKeepsInv ==
    ASSUME Inv, Return
    PROVE  Inv'
<1> DEFINE k == Len(stack)
<1>1. TypeOK /\ UNCHANGED <<doc, walk, op, total>>
  BY DEF Inv, Return
<1>2. /\ stack' \in Seq(FrameType) /\ Len(stack') = k - 1
      /\ k \in Nat /\ k > 1 /\ Top = stack[k]
      /\ \A i \in 1..k - 2 : stack'[i] = stack[i]
      /\ stack'[k - 1].node = stack[k - 1].node
  BY <1>1, ReturnStack
<1>3. visiting' = visiting \ (IF IsSpread(Top.node) THEN {doc.sel[Top.node].name} ELSE {})
  BY DEF Return
<1> HIDE DEF k
<1>4. \A i \in 1..k - 1 : stack'[i].node = stack[i].node
  BY <1>2
<1>5. TypeOK'
  <2>1. op' \in DOMAIN doc'.ops
    BY <1>1 DEF TypeOK, Return
  <2>2. ASSUME NEW i \in 2..k - 1
        PROVE  stack'[i - 1].todo # << >> /\ stack'[i].node = Head(stack'[i - 1].todo)
    <3>1. i - 1 \in 1..k - 2 /\ i \in 1..k - 1 /\ i \in 2..k
      BY <1>2
    <3> QED
      BY <1>1, <1>2, <1>4, <3>1 DEF TypeOK, k
  <2>3. visiting' \subseteq DOMAIN doc.frags
    BY <1>1, <1>3 DEF TypeOK
  <2> QED
    BY <1>1, <1>2, <2>1, <2>2, <2>3 DEF TypeOK, FrameType, Value
<1>6. VisitingIsTheOpenPath'
  <2> DEFINE spreads == {i \in 2..k : IsSpread(stack[i].node)}
             Name(i) == doc.sel[stack[i].node].name
             spreadsN == {i \in 2..k - 1 : doc.sel[stack'[i].node].kind = "spread"}
             NameN(i) == doc.sel[stack'[i].node].name
  <2>1. visiting = {Name(i) : i \in spreads} /\ \A i, j \in spreads : Name(i) = Name(j) => i = j
    BY DEF Inv, VisitingIsTheOpenPath, k
  <2>2. /\ \A i \in spreadsN : i \in spreads /\ NameN(i) = Name(i) /\ i # k
        /\ \A i \in spreads : i # k => i \in spreadsN /\ NameN(i) = Name(i)
    BY <1>2, <1>4 DEF IsSpread
  <2>3. /\ k \in spreads <=> IsSpread(Top.node)
        /\ Name(k) = doc.sel[Top.node].name
    BY <1>2
  <2>4. visiting' = {NameN(i) : i \in spreadsN} /\ \A i, j \in spreadsN : NameN(i) = NameN(j) => i = j
    <3> HIDE DEF spreads, Name, spreadsN, NameN
    <3>1. spreadsN = spreads \ {k}
      BY <2>2
    <3>2. visiting' = IF k \in spreads THEN visiting \ {Name(k)} ELSE visiting
      BY <1>3, <2>3
    <3> QED
      BY <2>1, <2>2, <3>1, <3>2
  <2> QED
    BY <1>1, <1>2, <2>4 DEF VisitingIsTheOpenPath, IsSpread
<1> QED
  BY <1>5, <1>6 DEF Inv

(* Init: the first operation's own set, with nothing open.                 *)
LEMMA InitInv == Init => Inv
<1> SUFFICES ASSUME Init PROVE Inv
  OBVIOUS
<1>1. /\ doc \in Documents /\ walk \in Walks /\ op = 1 /\ visiting = {} /\ total = Nothing
      /\ stack = OperationFrame(1)
  BY DEF Init
<1>2. Len(doc.sel) \in Nat /\ doc.ops \in Seq(Selections)
  BY <1>1, DocumentsAssumption DEF Selections
<1>3. OperationStack(1)
  BY <1>1, OperationFrameTyped
<1>4. op \in 1..Len(doc.ops) + 1
  BY <1>1, <1>2, LenProperties
<1> QED
  BY <1>1, <1>3, <1>4, ValuesTyped DEF Inv, TypeOK, VisitingIsTheOpenPath, OperationStack

(* The next operation's own set, with nothing open again.                  *)
LEMMA NextOperationKeepsInv ==
    ASSUME Inv, NextOperation
    PROVE  Inv'
<1>1. /\ TypeOK /\ UNCHANGED <<doc, walk>> /\ Len(stack) = 1
      /\ total' = Join(total, Top.acc) /\ op' = op + 1
      /\ stack' = OperationFrame(op + 1) /\ visiting' = {}
  BY DEF Inv, NextOperation
<1>2. doc \in Documents /\ walk \in Walks
  BY <1>1 DEF TypeOK
<1>3. OperationStack(op + 1)
  BY <1>1, <1>2, OperationFrameTyped DEF TypeOK
<1>4. Len(doc.ops) \in Nat /\ DOMAIN doc.ops = 1..Len(doc.ops)
  BY <1>2, DocumentsAssumption, LenProperties
<1>5. stack # << >>
  BY <1>1
<1>6. op \in DOMAIN doc.ops
  BY <1>1, <1>5 DEF TypeOK
<1>7. op' \in 1..Len(doc.ops) + 1
  BY <1>1, <1>4, <1>6
<1>8. Top \in FrameType
  BY <1>1, <1>5, FrontLast DEF TypeOK, Top
<1>9. total' \in Value
  BY <1>1, <1>8, ValuesTyped DEF FrameType, TypeOK
<1>10. /\ stack' \in Seq(FrameType) /\ Len(stack') \in {0, 1}
       /\ stack' # << >> => op' \in DOMAIN doc.ops
  BY <1>1, <1>3 DEF OperationStack
<1>11. 2..Len(stack') = {}
  BY <1>10
<1>12. TypeOK'
  BY <1>1, <1>7, <1>9, <1>10, <1>11 DEF TypeOK, FrameType, Value
<1>13. VisitingIsTheOpenPath'
  BY <1>1, <1>11 DEF VisitingIsTheOpenPath
<1> QED
  BY <1>12, <1>13 DEF Inv

(* Every step of the walk keeps the invariant.                             *)
LEMMA StepKeepsInv == Inv /\ [Next]_vars => Inv'
<1> SUFFICES ASSUME Inv, [Next]_vars PROVE Inv'
  OBVIOUS
<1>1. TypeOK
  BY DEF Inv
<1>2. CASE WalkField
  <2>1. Walking /\ ~IsSpread(Here)
    BY <1>2 DEF WalkField
  <2>2. CASE \E v \in Value : Settle(v)
    BY <2>1, <2>2, SettleKeepsInv
  <2>3. CASE Descend(Here, doc.sel[Here].set) /\ UNCHANGED visiting
    BY <1>1, <2>1, <2>3, HereTyped, DescendKeepsInv
  <2> QED
    BY <1>1, <1>2, <2>2, <2>3, ValuesTyped DEF TypeOK, WalkField
<1>3. CASE WalkSpread
  <2> DEFINE name == doc.sel[Here].name
  <2>1. Walking /\ IsSpread(Here)
    BY <1>3 DEF WalkSpread
  <2>2. CASE \E v \in Value : Settle(v)
    BY <2>1, <2>2, SettleKeepsInv
  <2>3. CASE /\ name \in DOMAIN doc.frags \ visiting
             /\ Descend(Here, doc.frags[name])
             /\ visiting' = visiting \union {name}
    BY <1>1, <2>1, <2>3, HereTyped, DescendKeepsInv
  <2> QED
    BY <1>1, <1>3, <2>2, <2>3, ValuesTyped DEF TypeOK, WalkSpread
<1>4. CASE Return
  BY <1>4, ReturnKeepsInv
<1>5. CASE NextOperation
  BY <1>5, NextOperationKeepsInv
<1>6. CASE UNCHANGED vars
  BY <1>6 DEF vars, Inv, TypeOK, FrameType, Value, VisitingIsTheOpenPath, IsSpread
<1> QED
  BY <1>2, <1>3, <1>4, <1>5, <1>6 DEF Next

(* The state of a walk is well typed: in particular `visiting' only holds  *)
(* fragments the document defines.  (graphql_security.rs:326-380, 454-535) *)
THEOREM TypeCorrect == Spec => []TypeOK
<1>1. Inv => TypeOK
  BY DEF Inv
<1> QED
  BY <1>1, InitInv, StepKeepsInv, PTL DEF Spec

(* `visiting' is the set of the fragments open on the call stack, each     *)
(* open once, however fragments refer to each other.                       *)
(* (graphql_security.rs:354-364, 523-534)                                  *)
THEOREM OpenPath == Spec => []VisitingIsTheOpenPath
<1>1. Inv => VisitingIsTheOpenPath
  BY DEF Inv
<1> QED
  BY <1>1, InitInv, StepKeepsInv, PTL DEF Spec
=============================================================================
