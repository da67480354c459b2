-------------------------- MODULE MCVariablesStats --------------------------
(***************************************************************************)
(* Instances of VariablesStats: all values nested up to three deep whose   *)
(* objects and arrays have at most two members, two that are nested deeper *)
(* and wider, and limits at, under and over what they hold.                *)
(***************************************************************************)
EXTENDS VariablesStats, TLC

Scalar == [kind |-> (<< >> :> "scalar"), kids |-> (<< >> :> 0), bytes |-> 1]

\* The value whose members or elements are the values of the sequence below.
Container(kind, below) ==
    LET inner == UNION {{<< k >> \o p : p \in DOMAIN below[k].kind} : k \in DOMAIN below}
        at(p, f, own) == IF p = << >> THEN own ELSE below[Head(p)][f][Tail(p)]
    IN [kind  |-> [p \in inner \union {<< >>} |-> at(p, "kind", kind)],
        kids  |-> [p \in inner \union {<< >>} |-> at(p, "kids", Len(below))],
        bytes |-> 1 + Len(below)]

Containers(S) ==
    {Container(kind, below) : kind \in {"object", "array"},
                              below \in {<< >>} \union {<< v >> : v \in S} \union (S \X S)}

Flat == {Scalar} \union Containers({Scalar})
Wide == Container("array", << Scalar, Container("object", << Scalar, Scalar, Scalar >>), Scalar >>)
Deep == Container("object", << Wide, Container("array", << Wide >>) >>)

MCValues == {Wide, Deep} \union Flat \union Containers(Flat)

Limits(b, d, k, a) ==
    [max_variables_bytes |-> b, max_variables_depth |-> d,
     max_variables_keys |-> k, max_variables_array_len |-> a]

MCConfigs ==
    {Limits(None, None, None, None), Limits(2, 3, 2, 1), Limits(None, 2, 3, None),
     Limits(None, None, 1, 2), Limits(1, 4, 5, 0)}
=============================================================================
