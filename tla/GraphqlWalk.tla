---------------------------- MODULE GraphqlWalk ----------------------------
(***************************************************************************)
(* The recursive walks of graphql_security.rs over a parsed document:      *)
(* max_depth_selection_set and compute_cost, with the set `visiting' that  *)
(* both thread through the recursion to survive fragment cycles.  The call *)
(* stack is explicit: one frame per selection set being walked.            *)
(*                                                                         *)
(* A document is [sel, ops, frags, ...]: its selections numbered,          *)
(*   sel[n] = [kind, name, set, aliased, args, directives]   kind "field", *)
(*                      "inline" or "spread", name of a spread's fragment, *)
(*                      "intro" for the fields __schema and __type, "type" *)
(*                      for __typename, set the selections just below;     *)
(* ops the selection sets of its operations, frags those of the fragments  *)
(* it defines; op_variables and op_directives count the variables and the  *)
(* directives of its operations, frag_directives the directives of its     *)
(* fragment definitions.  A walk is configured by [of, scalar_cost,        *)
(* object_cost, flatten, ignore_intro, recursion_cost], `of' naming it.    *)
(*                                                                         *)
(* Its other parameter, cost_depth_cost_factor, is any f64.  A cost is the *)
(* polynomial in it that the walk computes: a sequence whose (l+1)-th      *)
(* element is the natural number multiplied by the l-th power of the       *)
(* factor, so that what is said of it holds whatever the factor.  Only the *)
(* rounding of f64 is left out.                                            *)
(***************************************************************************)
EXTENDS Naturals, Sequences, FiniteSetsExt, SequencesExt

CONSTANTS
    Documents,   \* documents to be walked
    Walks        \* the walks and their parameters

(* A document is a parse tree, its selections numbered as the parser meets *)
(* them: a set holds each of its selections once, and below a selection    *)
(* are only later ones.  All stand in some set, but for those of fragments *)
(* that are defined again: of these the last counts.                       *)
SetOnce(set, numbers) == set \in Seq(numbers) /\ IsInjective(set)

ASSUME DocumentsAssumption ==
    \A d \in Documents :
        LET all == 1..Len(d.sel) IN
        /\ Len(d.sel) \in Nat /\ DOMAIN d.sel = all
        /\ d.ops \in Seq(Seq(all)) /\ \A o \in DOMAIN d.ops : SetOnce(d.ops[o], all)
        /\ \A n \in all : SetOnce(d.sel[n].set, n + 1..Len(d.sel))
        /\ IsFiniteSet(DOMAIN d.frags)
        /\ \A f \in DOMAIN d.frags : SetOnce(d.frags[f], all)
        /\ DOMAIN d.frags = {} =>
              /\ d.frag_directives = 0
              /\ \A n \in all : \/ \E o \in DOMAIN d.ops : n \in Range(d.ops[o])
                                \/ \E m \in 1..n - 1 : n \in Range(d.sel[m].set)

ASSUME WalksAssumption ==
    \A w \in Walks :
        /\ w.of \in {"depth", "cost"}
        /\ \A cost \in {"scalar_cost", "object_cost", "recursion_cost"} : w[cost] \in Nat

VARIABLES
    doc,         \* the document, fixed
    walk,        \* the walk, fixed
    op,          \* index of the operation being walked
    stack,       \* frames [node, todo, acc]; node 0 is the operation's own set
    visiting,    \* names of the fragments being expanded
    total        \* depth or cost of the operations walked so far

vars == <<doc, walk, op, stack, visiting, total>>

(* What the l-th power of the factor is multiplied by in a cost; 0.0f64; a *)
(* sum, and cost_depth_cost_factor times a cost.                           *)
Level(cost, l) == IF l + 1 \in DOMAIN cost THEN cost[l + 1] ELSE 0

Nothing == IF walk.of = "depth" THEN 0 ELSE << >>

Plus(a, b) == [i \in DOMAIN a \union DOMAIN b |-> Level(a, i - 1) + Level(b, i - 1)]

FactorTimes(cost) == << 0 >> \o cost

Frame(node, todo) == [node |-> node, todo |-> todo, acc |-> Nothing]

IsField(n)  == doc.sel[n].kind = "field"
IsSpread(n) == doc.sel[n].kind = "spread"

(* The stack on which operation o is walked, empty when there is none. *)
OperationFrame(o) == IF o \in DOMAIN doc.ops THEN << Frame(0, doc.ops[o]) >> ELSE << >>

Init ==
    /\ doc \in Documents
    /\ walk \in Walks
    /\ op = 1
    /\ stack = OperationFrame(1)
    /\ visiting = {}
    /\ total = Nothing

(* How the value of a selection joins those of its siblings. *)
Join(a, v) ==
    CASE walk.of = "depth" -> IF a < v THEN v ELSE a
      [] walk.of = "cost"  -> Plus(a, v)

(* The value of a selection none of whose contents are walked. *)
Leaf(n) ==
    CASE walk.of = "depth" -> 1
      [] walk.of = "cost" /\ IsField(n) -> << walk.scalar_cost >>
      [] walk.of = "cost" /\ ~IsField(n) -> << >>

\* Slips: a spread does not count as a level; the factor is applied to the
\* object's own cost as well.
WholeWithoutSpreads(n, acc) ==
    CASE walk.of = "depth" -> IF IsSpread(n) THEN acc ELSE 1 + acc
      [] walk.of = "cost" -> acc

WholeTimesFactor(n, acc) ==
    CASE walk.of = "depth" -> 1 + acc
      [] walk.of = "cost" /\ IsField(n) ->
           LET sum == Plus(<< walk.object_cost >>, acc) IN
           IF walk.flatten THEN sum ELSE FactorTimes(sum)
      [] walk.of = "cost" /\ ~IsField(n) -> acc

(* The value of a selection whose contents came to acc. *)
Whole(n, acc) ==
    CASE walk.of = "depth" -> 1 + acc
      [] walk.of = "cost" /\ IsField(n) ->
           Plus(<< walk.object_cost >>, IF walk.flatten THEN acc ELSE FactorTimes(acc))
      [] walk.of = "cost" /\ ~IsField(n) -> acc

Revisit == IF walk.of = "depth" THEN 1 ELSE << walk.recursion_cost >>

Ignored(n) ==
    walk.of = "cost" /\ walk.ignore_intro /\ IsField(n) /\ doc.sel[n].name = "intro"

Top == Last(stack)
Here == Head(Top.todo)

(* The frame on top takes the value of its next selection and goes on. *)
Take(frame, v) == [frame EXCEPT !.todo = Tail(@), !.acc = Join(@, v)]

Settle(v) ==
    /\ stack' = Front(stack) \o << Take(Top, v) >>
    /\ UNCHANGED <<doc, walk, op, visiting, total>>

Descend(n, set) ==
    /\ stack' = Append(stack, Frame(n, set))
    /\ UNCHANGED <<doc, walk, op, total>>

Walking == stack # << >> /\ Top.todo # << >>

WalkField ==
    /\ Walking /\ ~IsSpread(Here)
    /\ \/ Ignored(Here) /\ Settle(Nothing)
       \/ ~Ignored(Here) /\ doc.sel[Here].set = << >> /\ Settle(Leaf(Here))
       \/ /\ ~Ignored(Here) /\ doc.sel[Here].set # << >>
          /\ Descend(Here, doc.sel[Here].set)
          /\ UNCHANGED visiting

\* Slips: a fragment that is not defined is unwrapped all the same, or is
\* left in `visiting'; a fragment is entered though it is in `visiting'.
WalkSpreadUnwrapping ==
    LET name == doc.sel[Here].name IN
    /\ Walking /\ IsSpread(Here)
    /\ \/ name \in visiting /\ Settle(Revisit)
       \/ /\ name \in DOMAIN doc.frags \ visiting
          /\ Descend(Here, doc.frags[name])
          /\ visiting' = visiting \union {name}

WalkSpreadKeepingUndefined ==
    LET name == doc.sel[Here].name IN
    /\ Walking /\ IsSpread(Here)
    /\ \/ name \in visiting /\ Settle(Revisit)
       \/ /\ name \notin visiting
          /\ Descend(Here, IF name \in DOMAIN doc.frags THEN doc.frags[name] ELSE << >>)
          /\ visiting' = visiting \union {name}

WalkSpreadReentering ==
    LET name == doc.sel[Here].name IN
    /\ Walking /\ IsSpread(Here)
    /\ \/ name \notin DOMAIN doc.frags /\ Settle(Leaf(Here))
       \/ /\ name \in DOMAIN doc.frags
          /\ Descend(Here, doc.frags[name])
          /\ visiting' = visiting \union {name}

(* visiting.insert; a fragment that is not defined is left again at once.  *)
WalkSpread ==
    LET name == doc.sel[Here].name IN
    /\ Walking /\ IsSpread(Here)
    /\ \/ name \in visiting /\ Settle(Revisit)
       \/ name \notin visiting \union DOMAIN doc.frags /\ Settle(Leaf(Here))
       \/ /\ name \in DOMAIN doc.frags \ visiting
          /\ Descend(Here, doc.frags[name])
          /\ visiting' = visiting \union {name}

\* A slip: visiting.remove is forgotten.
ReturnKeepingVisiting ==
    /\ Len(stack) > 1 /\ Top.todo = << >>
    /\ stack' = Front(Front(stack)) \o << Take(Last(Front(stack)), Whole(Top.node, Top.acc)) >>
    /\ UNCHANGED <<doc, walk, op, visiting, total>>

(* A set is done: the frame below takes its value; visiting.remove. *)
Return ==
    /\ Len(stack) > 1 /\ Top.todo = << >>
    /\ stack' = Front(Front(stack)) \o << Take(Last(Front(stack)), Whole(Top.node, Top.acc)) >>
    /\ visiting' = visiting \ (IF IsSpread(Top.node) THEN {doc.sel[Top.node].name} ELSE {})
    /\ UNCHANGED <<doc, walk, op, total>>

(* An operation is done; the next starts with an empty `visiting'. *)
NextOperation ==
    /\ Len(stack) = 1 /\ Top.todo = << >>
    /\ total' = Join(total, Top.acc)
    /\ op' = op + 1
    /\ stack' = OperationFrame(op + 1)
    /\ visiting' = {}
    /\ UNCHANGED <<doc, walk>>

Next == WalkField \/ WalkSpread \/ Return \/ NextOperation

Spec == Init /\ [][Next]_vars

FairSpec == Spec /\ WF_vars(Next)

Done == stack = << >>

(* count_aliases_and_directives: the same counts whatever the walk order,  *)
(* every selection of the document once, and the fragment definitions.     *)
Aliases == Cardinality({n \in DOMAIN doc.sel : IsField(n) /\ doc.sel[n].aliased})

Directives ==
    SumFunction([n \in DOMAIN doc.sel |-> doc.sel[n].directives]) + doc.frag_directives

\* A slip: the field may have selections of its own.
OnlyTypenameOrBelow(n) ==
    /\ IsField(n) /\ doc.sel[n].name = "type"
    /\ ~doc.sel[n].aliased /\ doc.sel[n].args = 0 /\ doc.sel[n].directives = 0

OnlyTypename(n) ==
    /\ IsField(n) /\ doc.sel[n].name = "type"
    /\ ~doc.sel[n].aliased /\ doc.sel[n].args = 0 /\ doc.sel[n].directives = 0
    /\ doc.sel[n].set = << >>

(* One operation that selects __typename, and no other definition. *)
IsTypenameHealthProbe ==
    /\ Len(doc.ops) = 1 /\ DOMAIN doc.frags = {}
    /\ doc.op_variables = 0 /\ doc.op_directives = 0
    /\ Len(doc.ops[1]) = 1 /\ OnlyTypename(doc.ops[1][1])

-----------------------------------------------------------------------------
(***************************************************************************)
(* What the walks mean: the chains of selections that a fully expanded     *)
(* document has, from an operation's set downwards.  A chain goes through  *)
(* a fragment once and stops at a spread that would enter it again.        *)
(***************************************************************************)
SpreadsIn(chain) == {doc.sel[chain[i]].name : i \in {j \in DOMAIN chain : IsSpread(chain[j])}}

(* The spread that ends the chain names a fragment already open on it. *)
Reenters(chain) ==
    /\ IsSpread(Last(chain))
    /\ doc.sel[Last(chain)].name \in SpreadsIn(Front(chain))

Below(chain) ==
    LET n == Last(chain) name == doc.sel[Last(chain)].name IN
    CASE ~IsSpread(n) -> doc.sel[n].set
      [] IsSpread(n) /\ ~Reenters(chain) /\ name \in DOMAIN doc.frags -> doc.frags[name]
      [] IsSpread(n) /\ (Reenters(chain) \/ name \notin DOMAIN doc.frags) -> << >>

(* A chain goes on to later selections until it enters a fragment.         *)
Longest == Len(doc.sel) * (Cardinality(DOMAIN doc.frags) + 1)

ChainsOf(o) ==
    LET chains[k \in 1..Longest] ==
            IF k = 1 THEN {<< n >> : n \in Range(doc.ops[o])}
            ELSE UNION {{Append(c, n) : n \in Range(Below(c))} : c \in chains[k - 1]}
    IN UNION {chains[k] : k \in DOMAIN chains}

Chains == UNION {{o} \X ChainsOf(o) : o \in DOMAIN doc.ops}

Depth == Max({0} \union {Len(c[2]) : c \in Chains})

(* How often a selection below a chain has its cost multiplied by the      *)
(* factor: once by each field of the chain.                                *)
Times(chain) == Cardinality({i \in DOMAIN chain : IsField(chain[i]) /\ ~walk.flatten})

(* What the last selection of a chain costs, but for the factor. *)
OwnCost(chain) ==
    LET n   == Last(chain)
        own == CASE IsField(n) /\ doc.sel[n].set = << >> -> walk.scalar_cost
                 [] IsField(n) /\ doc.sel[n].set # << >> -> walk.object_cost
                 [] IsSpread(n) /\ Reenters(chain) -> walk.recursion_cost
                 [] ~IsField(n) /\ ~Reenters(chain) -> 0
    IN IF \E i \in DOMAIN chain : Ignored(chain[i]) THEN 0 ELSE own

(* The chains whose cost is multiplied by the l-th power of the factor     *)
(* cost this together.                                                     *)
CostAt(l) ==
    SumFunction([c \in Chains |-> IF Times(Front(c[2])) = l THEN OwnCost(c[2]) ELSE 0])

(* The selections that frames 2..i of the stack s are for.                 *)
Path(s, i) == [j \in 1..i - 1 |-> s[j + 1].node]

(* Frame i of the stack s has taken the value of the chain c: c goes on    *)
(* from its path to a selection it is done with.                           *)
Taken(s, i, c) ==
    /\ Len(c) >= i /\ \A j \in 1..i - 1 : c[j] = s[j + 1].node
    /\ c[i] \notin Range(s[i].todo)

(* The chains that a walk has not reached yet.                             *)
Ahead(o, s) ==
    {c \in Chains : \/ c[1] > o
                    \/ /\ c[1] = o
                       /\ \A i \in DOMAIN s : ~Taken(s, i, c[2]) /\ (i > 1 => c[2] # Path(s, i))}

(* No walk has more steps to go than this: each chain ahead may be entered *)
(* and left, each frame is to be left, and so is each operation.           *)
StepsLeft == 2 * Cardinality(Ahead(op, stack)) + Len(stack) + (Len(doc.ops) + 1 - op)

-----------------------------------------------------------------------------
Value == IF walk.of = "depth" THEN Nat ELSE Seq(Nat)

FrameType == [node : 0..Len(doc.sel), todo : Seq(1..Len(doc.sel)), acc : Value]

(* Type invariant: each frame is for the selection the frame below is at,  *)
(* and `visiting' holds only fragments the document defines.               *)
(* (graphql_security.rs:326-380, 454-535)                                  *)
TypeOK ==
    /\ doc \in Documents /\ walk \in Walks
    /\ op \in 1..Len(doc.ops) + 1
    /\ stack # << >> => op \in DOMAIN doc.ops
    /\ stack \in Seq(FrameType)
    /\ \A i \in 2..Len(stack) :
          stack[i - 1].todo # << >> /\ stack[i].node = Head(stack[i - 1].todo)
    /\ visiting \subseteq DOMAIN doc.frags
    /\ total \in Value

(* `visiting' is exactly the fragments open on the call stack, each open   *)
(* once: whichever way a sibling's expansion went, it is handed on as it   *)
(* was found.  (graphql_security.rs:354-364, 523-534)                      *)
VisitingIsTheOpenPath ==
    LET spreads == {i \in 2..Len(stack) : IsSpread(stack[i].node)} IN
    /\ visiting = {doc.sel[stack[i].node].name : i \in spreads}
    /\ \A i, j \in spreads :
          doc.sel[stack[i].node].name = doc.sel[stack[j].node].name => i = j

(* The depth is the length of the longest chain of the expanded document,  *)
(* cycles or not.  (graphql_security.rs:326-408)                           *)
DepthIsTheLongestChain == Done /\ walk.of = "depth" => total = Depth

(* The cost is the sum of what each chain's last selection costs, times    *)
(* the factor once for each field above it, cycles or not: whatever the    *)
(* factor, for each of its powers is multiplied by the same natural.       *)
(* (graphql_security.rs:454-553)                                           *)
CostIsTheSumOverChains ==
    Done /\ walk.of = "cost" =>
        \A l \in 0..Len(total) \union {Times(Front(c[2])) : c \in Chains} :
            Level(total, l) = CostAt(l)

(* Every document is walked to its end, however its fragments refer to     *)
(* each other.  (graphql_security.rs:351-358, 523-527)                     *)
WalkEnds == <>Done

(* Every step brings a walk nearer to its end: it reaches a chain of the   *)
(* expanded document that it had not reached, or leaves a set or an        *)
(* operation.  No chain is walked twice, and none that goes on below a     *)
(* fragment entered again, so that the length of a walk is bounded by the  *)
(* number of chains.                                                       *)
(* (graphql_security.rs:351-364, 521-534)                                  *)
EveryStepShortens == [][StepsLeft' < StepsLeft]_vars

(* What the GET gate lets through as a health probe costs the upstream one *)
(* scalar field, and is within every limit that lets any document through: *)
(* the exemption cannot carry a deep, dear or directive-laden document.    *)
(* (graphql_security.rs:224-266, 648-652)                                  *)
ProbeIsMinimal ==
    Done /\ IsTypenameHealthProbe =>
        /\ walk.of = "depth" => total = 1
        /\ walk.of = "cost" =>
              \A l \in 0..Len(total) : Level(total, l) = IF l = 0 THEN walk.scalar_cost ELSE 0
        /\ Aliases = 0 /\ Directives = 0
=============================================================================
