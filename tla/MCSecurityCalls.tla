-------------------------- MODULE MCSecurityCalls --------------------------
(***************************************************************************)
(* Instances of SecurityCalls: every setting the checks read takes both of *)
(* its sides, and the requests violate each check alone and with others.   *)
(***************************************************************************)
EXTENDS SecurityCalls, TLC

Good == [bytes |-> 1, intro |-> FALSE, parses |-> TRUE, probe |-> FALSE,
         depth |-> 1, aliases |-> 0, directives |-> 0, cost |-> 1]
Probe == [Good EXCEPT !.probe = TRUE]
Junk  == [Good EXCEPT !.parses = FALSE, !.bytes = 2, !.depth = 0]
Heavy == [Good EXCEPT !.bytes = 2, !.depth = 2, !.aliases = 2,
                      !.directives = 2, !.cost = 2]
Intro == [Heavy EXCEPT !.intro = TRUE]
Docs  == {Good, Probe, Junk, Heavy, Intro}

Vars == {None, [bytes |-> 1, depth |-> 1, keys |-> 0, array |-> 0],
         [bytes |-> 2, depth |-> 2, keys |-> 2, array |-> 2]}

Empty == [empty |-> TRUE, json |-> "invalid", query |-> None, text |-> None,
          vars |-> None, intro |-> FALSE, ms |-> FALSE]
Text(doc)  == [Empty EXCEPT !.empty = FALSE, !.text = doc, !.intro = doc # None /\ doc.intro]
Object(doc, v) == [Text(doc) EXCEPT !.json = "value", !.query = doc, !.vars = v,
                                    !.text = Junk]
Array == [Text(Junk) EXCEPT !.json = "array"]

Query_(param, blob, decoded, v) ==
    [intro |-> (IF param # None THEN param ELSE decoded).intro, param |-> param,
     blob |-> blob, decoded |-> decoded, vars |-> v]

Rq(method, query, ct, allow) ==
    [method |-> method, path |-> "graphql", query |-> query, ct |-> ct,
     allow_header |-> allow]

GetCalls ==
    {[rq |-> Rq("GET", q, {}, TRUE), body |-> Empty] :
        q \in {Query_(d, None, Junk, v) : d \in {Good, Probe, Heavy}, v \in Vars}
              \union {Query_(d, None, Junk, None) : d \in {Junk, Intro}}
              \union {Query_(None, d, Junk, None) : d \in {None, Good}}
              \union {Query_(None, None, d, None) : d \in {Good, Intro}}
              \union {None}}

PostCalls ==
    {[rq |-> Rq("POST", None, ct, FALSE), body |-> b] :
        ct \in {{"json"}, {"graphql"}},
        b \in {Empty, Text(None), Array}
              \union {Text(d) : d \in {Good, Junk, Heavy, Intro}}
              \union {Object(d, v) : d \in {None, Good, Heavy}, v \in Vars}}

MCCalls == GetCalls \union PostCalls

MCLimits == {None, 1}

\* The strictest and the loosest configuration, and all those that differ
\* from one of them in at most two settings.
Strict ==
    [enabled |-> TRUE, block_introspection |-> TRUE,
     allow_introspection_header |-> FALSE, allow_get |-> FALSE,
     block_invalid_query |-> TRUE, block_batch |-> TRUE] @@ [f \in LimitFields |-> 1]

Loose ==
    [enabled |-> TRUE, block_introspection |-> FALSE,
     allow_introspection_header |-> TRUE, allow_get |-> TRUE,
     block_invalid_query |-> FALSE, block_batch |-> FALSE] @@ [f \in LimitFields |-> None]

Mix(a, b, S) == [f \in DOMAIN a |-> IF f \in S THEN b[f] ELSE a[f]]

AtMostTwo == {{f, g} : f, g \in DOMAIN Strict} \union {{}}

MCConfigs ==
    {Mix(Strict, Loose, S) : S \in AtMostTwo}
      \union {Mix(Loose, Strict, S) : S \in AtMostTwo}
      \union {[Loose EXCEPT !.enabled = FALSE], [Strict EXCEPT !.enabled = FALSE]}
=============================================================================
