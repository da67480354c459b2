--------------------------- MODULE SecurityCalls ---------------------------
(***************************************************************************)
(* evaluate_graphql_security as its callers and operators meet it: one     *)
(* configuration at a time, requests one after another, and an operator    *)
(* who loosens a setting and has the client try again.                     *)
(***************************************************************************)
EXTENDS GraphqlSecurity

CONSTANTS
    Configs,     \* the GraphqlSecurityConfig values considered
    Calls,       \* requests with their inspected body: [rq, body]
    Limits       \* the values a limit may take, None among them

(* The fields of a configuration that hold an optional limit. *)
LimitFields ==
    {"max_query_bytes", "max_depth", "max_aliases", "max_directives", "max_cost",
     "max_variables_bytes", "max_variables_depth", "max_variables_keys",
     "max_variables_array_len"}

(* A limit is a usize or not set; None is no request and no document.      *)
ASSUME ConfigsAssumption ==
    \A c \in Configs : \A f \in LimitFields : c[f] \in Nat \union {None}

ASSUME CallsAssumption ==
    /\ None \notin Calls \union Nat \union Reasons
    /\ \A k \in Calls :
          /\ Query(k.rq, k.body) # None =>
                \A s \in {"bytes", "depth", "aliases", "directives", "cost"} :
                    Query(k.rq, k.body)[s] \in Nat
          /\ Variables(k.rq, k.body) # None =>
                \A s \in {"bytes", "depth", "keys", "array"} :
                    Variables(k.rq, k.body)[s] \in Nat

(* A query string always decodes to some text; the probe is a document, and*)
(* neither it nor an empty body holds an introspection token.              *)
ASSUME ProbesAssumption ==
    \A k \in Calls :
        /\ k.body.empty => ~k.body.intro
        /\ k.rq.query # None =>
              LET doc == ExtractQueryFromGet(k.rq) IN
              /\ doc # None
              /\ doc.probe => doc.parses /\ ~doc.intro

VARIABLES
    cfg,         \* the configuration in force
    call,        \* the request evaluated last, None before the first
    reason       \* the outcome of that evaluation, None for no match

vars == <<cfg, call, reason>>

Evaluate(c, k) == EvaluateGraphqlSecurity(c, k.rq, k.body)

Init ==
    /\ cfg \in Configs
    /\ call = None
    /\ reason = None

(* Another request under the same configuration. *)
Call ==
    /\ call' \in Calls
    /\ reason' = Evaluate(cfg, call')
    /\ UNCHANGED cfg

Retune(next) ==
    /\ call # None
    /\ next # cfg /\ next \in Configs
    /\ cfg' = next
    /\ reason' = Evaluate(next, call)
    /\ UNCHANGED call

(* Restart with one setting changed, and the same request again. *)
Restart ==
    \/ \E f \in DOMAIN cfg \ LimitFields, v \in BOOLEAN : Retune([cfg EXCEPT ![f] = v])
    \/ \E f \in LimitFields, v \in Limits : Retune([cfg EXCEPT ![f] = v])

Next == Call \/ Restart

Spec == Init /\ [][Next]_vars

-----------------------------------------------------------------------------
(* b allows everything a allows, setting by setting. *)
NoStricter(a, b) ==
    /\ b.enabled => a.enabled
    /\ b.block_introspection => a.block_introspection
    /\ a.allow_introspection_header => b.allow_introspection_header
    /\ a.allow_get => b.allow_get
    /\ b.block_batch => a.block_batch
    /\ b.block_invalid_query => a.block_invalid_query
    /\ \A f \in LimitFields : b[f] # None => a[f] # None /\ a[f] <= b[f]

(* Where in the order of the checks the evaluation ended. *)
Rank(r) == IF r = None THEN Len(Checks) + 1 ELSE CHOOSE i \in DOMAIN Checks : Checks[i] = r

(* Type invariant: the outcome is no match or one of the reasons the code  *)
(* can name.  (graphql_security.rs:609-739)                                *)
TypeOK ==
    /\ cfg \in Configs
    /\ call \in Calls \union {None}
    /\ reason \in Reasons \union {None}

(* Loosening settings never makes a request that passed be refused, and    *)
(* never makes one that was refused be refused by an earlier check: the    *)
(* early returns of the evaluation do not feed one check's outcome into    *)
(* another.  (graphql_security.rs:609-739)                                 *)
LooseningNeverBlocks ==
    [][call' = call /\ NoStricter(cfg, cfg') => Rank(reason') >= Rank(reason)]_vars

(* Introspection is reported as such whichever way it comes, by GET, in    *)
(* a body or behind other violations.  (graphql_security.rs:617-618)       *)
IntrospectionNeverMasked ==
    /\ call # None
    /\ cfg.enabled /\ cfg.block_introspection
    /\ ~(cfg.allow_introspection_header /\ call.rq.allow_header)
    /\ ContainsIntrospection(call.rq, call.body)
    => reason = "introspection_blocked"

(* The { __typename } probe gets through the default settings by GET, so   *)
(* that an availability check sees the upstream.                           *)
(* (graphql_security.rs:218-223)                                           *)
HealthProbePasses ==
    LET doc == Query(call.rq, call.body) IN
    /\ call # None
    /\ call.rq.method = "GET" /\ call.rq.query # None /\ call.body.empty
    /\ doc.probe /\ ~call.rq.query.intro
    /\ Variables(call.rq, call.body) = None
    /\ \A f \in LimitFields : cfg[f] = None
    => reason = None

(* graphql_security.rs:645-646: a GET is only refused when it plausibly    *)
(* carries a GraphQL operation, not when it is random GET traffic.         *)
GetRefusedOnlyForOperations ==
    reason = "get_disabled" =>
        \/ call.rq.query.param # None \/ call.rq.query.blob # None
        \/ call.rq.query.decoded.parses
=============================================================================
