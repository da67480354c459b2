--------------------------- MODULE VariablesStats ---------------------------
(***************************************************************************)
(* variables_stats of graphql_security.rs, the recursive walk that counts  *)
(* what the variables of a request hold, and the four comparisons of       *)
(* evaluate_graphql_security that use the counts.  The recursion is an     *)
(* agenda of the calls that are still to be made, innermost first.         *)
(*                                                                         *)
(* A JSON value is a tree [kind, kids, bytes]: kind and kids are functions *)
(* on its paths, a path the sequence of positions that leads from the value*)
(* to one inside it; kind[p] is "object", "array" or "scalar", kids[p] the *)
(* number of members or elements, bytes the length of its serialization.   *)
(***************************************************************************)
EXTENDS GraphqlSecurity, SequencesExt

CONSTANTS
    Values,      \* JSON values
    Configs      \* configurations, as far as the limits on variables go

ASSUME ValuesAssumption ==
    \A v \in Values :
        LET paths == DOMAIN v.kind IN
        /\ IsFiniteSet(paths) /\ << >> \in paths /\ paths \subseteq Seq(Nat)
        /\ DOMAIN v.kids = paths /\ v.bytes \in Nat
        /\ \A p \in paths :
              /\ v.kids[p] \in Nat
              /\ v.kind[p] \in {"object", "array", "scalar"}
              /\ v.kind[p] = "scalar" => v.kids[p] = 0
              /\ \A k \in 1..v.kids[p] : Append(p, k) \in paths
              /\ \A n \in 1..Len(p) :
                    /\ SubSeq(p, 1, n - 1) \in paths
                    /\ p[n] \in 1..v.kids[SubSeq(p, 1, n - 1)]

VariablesLimits ==
    {"max_variables_bytes", "max_variables_depth", "max_variables_keys",
     "max_variables_array_len"}

ASSUME LimitsAssumption ==
    /\ None \notin Nat \union Reasons \union [bytes : Nat, depth : Nat, keys : Nat, array : Nat]
    /\ \A c \in Configs : \A f \in VariablesLimits : c[f] \in Nat \union {None}

VARIABLES
    val,         \* the variables, fixed
    cfg,         \* the configuration, fixed
    agenda,      \* calls of walk still to be made: [at, depth]
    out,         \* the VariablesStats being filled in
    reason       \* "none" before the comparisons, then their outcome

vars == <<val, cfg, agenda, out, reason>>

CallAt(p, depth) == [at |-> p, depth |-> depth]

Init ==
    /\ val \in Values
    /\ cfg \in Configs
    /\ agenda = << CallAt(<< >>, 1) >>
    /\ out = [depth |-> 0, keys |-> 0, array |-> 0]
    /\ reason = "none"

Larger(a, b) == IF a < b THEN b ELSE a

\* A slip: the children are walked at the depth of their parent in an array.
CallsBelowFlat(call) ==
    [k \in 1..val.kids[call.at] |->
        CallAt(Append(call.at, k),
               call.depth + IF val.kind[call.at] = "object" THEN 1 ELSE 0)]

CallsBelow(call) ==
    [k \in 1..val.kids[call.at] |-> CallAt(Append(call.at, k), call.depth + 1)]

\* A slip: the keys of the largest object instead of all keys.
CountMax(call) ==
    LET n == val.kids[call.at] IN
    [depth |-> Larger(out.depth, call.depth),
     keys  |-> IF val.kind[call.at] = "object" THEN Larger(out.keys, n) ELSE out.keys,
     array |-> IF val.kind[call.at] = "array" THEN Larger(out.array, n) ELSE out.array]

(* What one call of walk adds itself. *)
Count(call) ==
    LET n == val.kids[call.at] IN
    [depth |-> Larger(out.depth, call.depth),
     keys  |-> out.keys + IF val.kind[call.at] = "object" THEN n ELSE 0,
     array |-> IF val.kind[call.at] = "array" THEN Larger(out.array, n) ELSE out.array]

\* A slip: a container stays on the agenda when its children are put there.
WalkAgain ==
    /\ agenda # << >>
    /\ out' = Count(Head(agenda))
    /\ agenda' = IF val.kids[Head(agenda).at] = 0 THEN Tail(agenda)
                 ELSE CallsBelow(Head(agenda)) \o agenda
    /\ UNCHANGED <<val, cfg, reason>>

Walk ==
    /\ agenda # << >>
    /\ out' = Count(Head(agenda))
    /\ agenda' = CallsBelow(Head(agenda)) \o Tail(agenda)
    /\ UNCHANGED <<val, cfg, reason>>

(* The counts are compared with the limits, in order; the first that is    *)
(* exceeded ends the evaluation.                                           *)
Stats == [bytes |-> val.bytes, depth |-> out.depth, keys |-> out.keys, array |-> out.array]

Exceeded(why) ==
    CASE why = "variables_too_large" -> VariablesFire(cfg, Stats, "max_variables_bytes", "bytes")
      [] why = "variables_depth" -> VariablesFire(cfg, Stats, "max_variables_depth", "depth")
      [] why = "variables_keys" -> VariablesFire(cfg, Stats, "max_variables_keys", "keys")
      [] why = "variables_array" -> VariablesFire(cfg, Stats, "max_variables_array_len", "array")

VariablesReasons ==
    {"variables_too_large", "variables_depth", "variables_keys", "variables_array"}

Compare ==
    LET hits == {i \in DOMAIN Checks : Checks[i] \in VariablesReasons /\ Exceeded(Checks[i])} IN
    /\ agenda = << >> /\ reason = "none"
    /\ reason' = IF hits = {} THEN None ELSE Checks[Min(hits)]
    /\ UNCHANGED <<val, cfg, agenda, out>>

Next == Walk \/ Compare

Spec == Init /\ [][Next]_vars

FairSpec == Spec /\ WF_vars(Next)

-----------------------------------------------------------------------------
(* The value itself: where it is nested how deep, and what is a member. *)
Paths == DOMAIN val.kind
Nesting(p) == Len(p) + 1
Members == {p \in Paths : p # << >> /\ val.kind[Front(p)] = "object"}
Arrays == {p \in Paths : val.kind[p] = "array"}

Counted == agenda = << >>

(* Type invariant: the calls to be made are for parts of the value, and    *)
(* pass the depth at which these stand.  (graphql_security.rs:581-601)     *)
TypeOK ==
    /\ val \in Values /\ cfg \in Configs
    /\ agenda \in Seq([at : Paths, depth : Nat])
    /\ \A i \in DOMAIN agenda : agenda[i].depth = Nesting(agenda[i].at)
    /\ out \in [depth : Nat, keys : Nat, array : Nat]
    /\ reason \in VariablesReasons \union {"none", None}
    /\ reason # "none" => Counted

(* The counts are those of the whole value, whichever way it is nested: the*)
(* depth of its deepest part, all members of all objects, the length of its*)
(* longest array.  (graphql_security.rs:581-607)                           *)
StatsAreExact ==
    Counted =>
        /\ \A p \in Paths : Nesting(p) <= out.depth
        /\ \E p \in Paths : Nesting(p) = out.depth
        /\ out.keys = Cardinality(Members)
        /\ \A p \in Arrays : val.kids[p] <= out.array
        /\ out.array # 0 => \E p \in Arrays : val.kids[p] = out.array

(* A request gets past the limits on variables exactly when its variables, *)
(* in every part, are within each limit that is set: no part is passed     *)
(* over, and none is charged twice.  (graphql_security.rs:656-681)         *)
Within(limit, n) == cfg[limit] # None => n <= cfg[limit]

LimitsHoldEverywhere ==
    reason # "none" =>
        (reason = None <=>
            /\ Within("max_variables_bytes", val.bytes)
            /\ \A p \in Paths : Within("max_variables_depth", Nesting(p))
            /\ Within("max_variables_keys", Cardinality(Members))
            /\ \A p \in Arrays : Within("max_variables_array_len", val.kids[p]))

(* Every value is walked to its end and judged.                            *)
(* (graphql_security.rs:582-600)                                           *)
CountEnds == <>(reason # "none")
=============================================================================
