-------------------------- MODULE GraphqlSecurity --------------------------
(***************************************************************************)
(* The decision of graphql_security.rs on one request, as operators.       *)
(*                                                                         *)
(* Text is abstracted to what the checks can tell apart:                   *)
(*   a document  [bytes, intro, parses, probe, depth, aliases,             *)
(*                directives, cost]   a string read as a GraphQL document; *)
(*                intro: it holds an introspection token, parses: it is a  *)
(*                GraphQL document, probe: it is only { __typename };      *)
(*   variables   [bytes, depth, keys, array]   what variables_stats counts;*)
(*   a query     [intro, param, blob, decoded, vars]   the query string:   *)
(*                param the value of query=, blob the document inside a    *)
(*                JSON object, decoded the whole string percent-decoded,   *)
(*                intro: the raw string holds an introspection token;      *)
(*   a body      [empty, json, query, text, vars, intro, ms]   the bytes   *)
(*                a check is given: what a JSON parse yields, the document *)
(*                and the variables found in that value, the bytes read as *)
(*                UTF-8 text (None when they are not), ms: a ModSecurity   *)
(*                body rule matches them;                                  *)
(*   a request   [method, path, query, ct, allow_header, ...]   ct the     *)
(*                media types its content type names.                      *)
(* A missing part (Option::None in the code) is None.                      *)
(***************************************************************************)
EXTENDS Naturals, Sequences, FiniteSetsExt

CONSTANT None    \* stands for every Option::None

OrElse(x, y) == IF x # None THEN x ELSE y

\* A slip: unwrap_or(0), a limit that is not set is taken as zero.
OverUnsetIsZero(limit, n) == n > IF limit = None THEN 0 ELSE limit

(* A limit that is not set never bites; one that is set is inclusive. *)
Over(limit, n) == limit # None /\ n > limit

ExtractQueryFromGet(rq) ==
    IF rq.query = None THEN None
    ELSE OrElse(rq.query.param, OrElse(rq.query.blob, rq.query.decoded))

ExtractVariablesFromGet(rq) ==
    IF rq.query = None THEN None ELSE rq.query.vars

ExtractQueryFromBody(rq, body) ==
    CASE body.empty -> None
      [] ~body.empty /\ "graphql" \in rq.ct -> body.text
      [] ~body.empty /\ "graphql" \notin rq.ct ->
           CASE "json" \in rq.ct /\ body.json = "array" -> None
             [] "json" \in rq.ct /\ body.json = "value" -> body.query
             [] "json" \notin rq.ct \/ body.json = "invalid" -> body.text

ExtractVariablesFromBody(rq, body) ==
    IF ~body.empty /\ "json" \in rq.ct /\ body.json = "value"
    THEN body.vars ELSE None

Query(rq, body) ==
    OrElse(ExtractQueryFromGet(rq), ExtractQueryFromBody(rq, body))

Variables(rq, body) ==
    OrElse(ExtractVariablesFromGet(rq), ExtractVariablesFromBody(rq, body))

LooksLikeGraphqlRequest(rq, body) == Query(rq, body) # None

IsBatchedJson(rq, body) ==
    ~body.empty /\ "json" \in rq.ct /\ body.json = "array"

ContainsIntrospection(rq, body) ==
    \/ rq.query # None /\ (rq.query.intro \/ ExtractQueryFromGet(rq).intro)
    \/ body.intro

\* A slip: the GraphQL-over-GET gate comes before the introspection check.
ChecksGetGateFirst == << "get_disabled", "introspection_blocked",
             "variables_too_large", "variables_depth", "variables_keys",
             "variables_array", "batch_blocked", "query_too_large",
             "invalid_query", "depth", "aliases", "directives", "cost" >>

(***************************************************************************)
(* The checks, in the order the code runs them: the first that fires ends  *)
(* the evaluation and names the reason.                                    *)
(***************************************************************************)
Checks == << "introspection_blocked", "get_disabled",
             "variables_too_large", "variables_depth", "variables_keys",
             "variables_array", "batch_blocked", "query_too_large",
             "invalid_query", "depth", "aliases", "directives", "cost" >>

Reasons == {Checks[i] : i \in DOMAIN Checks}

\* A slip: no exception for the health probe.
GetGateFiresOnProbes(cfg, rq) ==
    rq.method = "GET" /\ ~cfg.allow_get /\ ExtractQueryFromGet(rq) # None

GetGateFires(cfg, rq) ==
    /\ rq.method = "GET"
    /\ ~cfg.allow_get
    /\ ExtractQueryFromGet(rq) # None
    /\ ~ExtractQueryFromGet(rq).probe

VariablesFire(cfg, vars, limit, stat) ==
    vars # None /\ Over(cfg[limit], vars[stat])

DocumentFires(cfg, doc, limit, stat) ==
    doc # None /\ doc.parses /\ Over(cfg[limit], doc[stat])

Fires(cfg, rq, body) ==
    LET vars == Variables(rq, body)
        doc  == Query(rq, body)
    IN [introspection_blocked |-> /\ cfg.block_introspection
                                  /\ ~(cfg.allow_introspection_header
                                         /\ rq.allow_header)
                                  /\ ContainsIntrospection(rq, body),
        get_disabled        |-> GetGateFires(cfg, rq),
        variables_too_large |-> VariablesFire(cfg, vars, "max_variables_bytes", "bytes"),
        variables_depth     |-> VariablesFire(cfg, vars, "max_variables_depth", "depth"),
        variables_keys      |-> VariablesFire(cfg, vars, "max_variables_keys", "keys"),
        variables_array     |-> VariablesFire(cfg, vars, "max_variables_array_len", "array"),
        batch_blocked       |-> cfg.block_batch /\ IsBatchedJson(rq, body),
        query_too_large     |-> doc # None /\ Over(cfg.max_query_bytes, doc.bytes),
        invalid_query       |-> doc # None /\ ~doc.parses /\ cfg.block_invalid_query,
        depth               |-> DocumentFires(cfg, doc, "max_depth", "depth"),
        aliases             |-> DocumentFires(cfg, doc, "max_aliases", "aliases"),
        directives          |-> DocumentFires(cfg, doc, "max_directives", "directives"),
        cost                |-> DocumentFires(cfg, doc, "max_cost", "cost")]

\* A slip: no_match() carries the "unknown" of the log line.
EvaluateWithUnknownReason(cfg, rq, body) ==
    LET fired == Fires(cfg, rq, body)
        hits  == {i \in DOMAIN Checks : fired[Checks[i]]}
    IN IF cfg.enabled /\ hits # {} THEN Checks[Min(hits)] ELSE "unknown"

(* The reason of the first check that fires, None for no_match(). *)
EvaluateGraphqlSecurity(cfg, rq, body) ==
    LET fired == Fires(cfg, rq, body)
        hits  == {i \in DOMAIN Checks : fired[Checks[i]]}
    IN IF cfg.enabled /\ hits # {}
       THEN Checks[Min(hits)]
       ELSE None
=============================================================================
