--------------------------- MODULE MCGraphqlWalk ---------------------------
(***************************************************************************)
(* Instances of GraphqlWalk: all documents of one skeleton, whose leaves   *)
(* are any of three selections, so that two fragments may use each other,  *)
(* themselves, twice, or not at all, and may or may not be defined; and the*)
(* documents around the health probe.                                      *)
(***************************************************************************)
EXTENDS GraphqlWalk

Over_(kind, name, set) ==
    [kind |-> kind, name |-> name, set |-> set, aliased |-> FALSE, args |-> 0, directives |-> 0]

Field    == Over_("field", "plain", << >>)
SpreadA  == Over_("spread", "A", << >>)
SpreadB  == Over_("spread", "B", << >>)
Leaves   == {Field, SpreadA, SpreadB}

\* Selections 1 and 2 make the first operation, 4 and 5 fragment A, 6
\* fragment B, 8 the second operation.
Skeleton(outer, inner, l, defined) ==
    [sel   |-> << Over_(outer, "plain", << 3 >>), l[1], l[2],
                  Over_(inner, "plain", << 7 >>), l[3], l[4], l[5],
                  Over_("field", "intro", << 9 >>), l[1] >>,
     ops   |-> << << 1, 2 >>, << 8 >> >>,
     frags |-> [f \in defined |-> IF f = "A" THEN << 4, 5 >> ELSE << 6 >>],
     op_variables |-> 0, op_directives |-> 0, frag_directives |-> 1]

\* Two levels of fields, with neither fragment nor spread.
Plain == [sel |-> << Over_("field", "plain", << 2, 3 >>), Over_("field", "plain", << 4 >>),
                     Field, Field >>,
          ops |-> << << 1 >> >>, frags |-> [f \in {} |-> << >>],
          op_variables |-> 0, op_directives |-> 1, frag_directives |-> 0]
OnlyFragments == [Plain EXCEPT !.ops = << >>, !.frags = [f \in {"A"} |-> << 1 >>]]

\* The health probe, and documents that miss it by one thing.
Typename == Over_("field", "type", << >>)
Probe == [Plain EXCEPT !.sel = << Typename >>, !.op_directives = 0]

NearProbes ==
    {[Probe EXCEPT !.sel = << Over_("field", "type", << 2 >>), Field >>],
     [Probe EXCEPT !.sel = << [Typename EXCEPT !.aliased = TRUE] >>],
     [Probe EXCEPT !.sel = << [Typename EXCEPT !.args = 1] >>],
     [Probe EXCEPT !.sel = << [Typename EXCEPT !.directives = 1] >>],
     [Probe EXCEPT !.sel = << Field >>],
     [Probe EXCEPT !.sel = << Typename, Typename >>, !.ops = << << 1, 2 >> >>],
     [Probe EXCEPT !.sel = << Typename, Typename >>, !.ops = << << 1 >>, << 2 >> >>],
     [Probe EXCEPT !.sel = << Over_("inline", "", << 2 >>), Typename >>],
     [Probe EXCEPT !.sel = << Typename, Typename >>, !.frags = [f \in {"A"} |-> << 2 >>],
                   !.frag_directives = 1],
     [Probe EXCEPT !.op_variables = 1], [Probe EXCEPT !.op_directives = 1]}

MCDocuments ==
    {Plain, OnlyFragments, Probe} \union NearProbes
      \union {Skeleton("field", "inline", l, {"A", "B"}) : l \in [1..5 -> Leaves]}
      \union {Skeleton("inline", "field", l, {"A"}) : l \in {f \in [1..5 -> Leaves] : f[5] = SpreadA}}

CostWalk(flatten, ignore) ==
    [of |-> "cost", scalar_cost |-> 1, object_cost |-> 2,
     flatten |-> flatten, ignore_intro |-> ignore, recursion_cost |-> 10]

MCWalks ==
    {[CostWalk(FALSE, FALSE) EXCEPT !.of = "depth"],
     CostWalk(FALSE, TRUE), CostWalk(FALSE, FALSE), CostWalk(TRUE, TRUE)}
=============================================================================
