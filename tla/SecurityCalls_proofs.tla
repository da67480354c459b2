----------------------- MODULE SecurityCalls_proofs -----------------------
(***************************************************************************)
(* Theorems of SecurityCalls: the order of the checks and the loosening of *)
(* settings, for every configuration, request and limit.                   *)
(***************************************************************************)
EXTENDS SecurityCalls, TLAPS, WellFoundedInduction, NaturalsInduction

(* A set of naturals that is not empty has a least element, and Min is it. *)
LEMMA MinIsLeast ==
    ASSUME NEW S \in SUBSET Nat, S # {}
    PROVE  Min(S) \in S /\ \A y \in S : Min(S) <= y
<1> DEFINE R == OpToRel(<, Nat)
<1>1. \A x, y \in Nat : <<x, y>> \notin R => y <= x
  BY DEF OpToRel
<1>2. IsWellFoundedOn(R, Nat)
  BY NatLessThanWellFounded
<1> HIDE DEF R
<1>3. \E x \in S : \A y \in S : ~(<<y, x>> \in R)
  BY <1>2, WFMin
<1>4. \E x \in S : \A y \in S : x <= y
  BY <1>1, <1>3
<1> QED
  BY <1>4 DEF Min

(* There are thirteen checks. *)
LEMMA ChecksDomain == DOMAIN Checks = 1..13 /\ Len(Checks) = 13
BY DEF Checks

(* No two checks have one reason, so a reason has one rank.                *)
LEMMA RankOfCheck == \A i \in DOMAIN Checks : Rank(Checks[i]) = i
<1>1. \A i, j \in 1..13 : Checks[i] = Checks[j] => i = j
  BY DEF Checks
<1> SUFFICES ASSUME NEW i \in DOMAIN Checks PROVE Rank(Checks[i]) = i
  OBVIOUS
<1>2. Checks[i] # None
  BY CallsAssumption DEF Reasons
<1> QED
  BY <1>1, <1>2, ChecksDomain DEF Rank

(* The checks of the looser configuration fire only where those of the     *)
(* stricter one do.  (graphql_security.rs:626-736)                         *)
LEMMA FiresMonotone ==
    ASSUME NEW a \in Configs, NEW b \in Configs, NEW k \in Calls, NoStricter(a, b),
           NEW r \in Reasons, Fires(b, k.rq, k.body)[r]
    PROVE  Fires(a, k.rq, k.body)[r]
<1>1. \A f \in LimitFields : \A n \in Nat : Over(b[f], n) => Over(a[f], n)
  BY ConfigsAssumption DEF NoStricter, Over
<1>2. \A f \in LimitFields, s \in {"bytes", "depth", "keys", "array"} :
        VariablesFire(b, Variables(k.rq, k.body), f, s)
          => VariablesFire(a, Variables(k.rq, k.body), f, s)
  BY <1>1, CallsAssumption DEF VariablesFire
<1>3. \A f \in LimitFields, s \in {"bytes", "depth", "aliases", "directives", "cost"} :
        DocumentFires(b, Query(k.rq, k.body), f, s)
          => DocumentFires(a, Query(k.rq, k.body), f, s)
  BY <1>1, CallsAssumption DEF DocumentFires
<1>4. r \in {"introspection_blocked", "get_disabled",
             "variables_too_large", "variables_depth", "variables_keys",
             "variables_array", "batch_blocked", "query_too_large",
             "invalid_query", "depth", "aliases", "directives", "cost"}
  BY ChecksDomain DEF Reasons, Checks
<1>5. CASE r = "introspection_blocked"
  BY <1>5 DEF Fires, NoStricter
<1>6. CASE r = "get_disabled"
  <2>1. GetGateFires(b, k.rq) => GetGateFires(a, k.rq)
    BY DEF NoStricter, GetGateFires
  <2> QED
    BY <1>6, <2>1 DEF Fires
<1>7. CASE r \in {"batch_blocked", "invalid_query"}
  <2>1. CASE r = "batch_blocked"
    BY <2>1 DEF Fires, NoStricter
  <2>2. CASE r = "invalid_query"
    <3>1. Query(k.rq, k.body) # None /\ ~Query(k.rq, k.body).parses /\ b.block_invalid_query
      BY <2>2 DEF Fires
    <3>2. a.block_invalid_query
      BY <3>1 DEF NoStricter
    <3> QED
      BY <2>2, <3>1, <3>2 DEF Fires
  <2> QED
    BY <1>7, <2>1, <2>2
<1>8. CASE r \in {"variables_too_large", "variables_depth", "variables_keys", "variables_array"}
  BY <1>2, <1>8 DEF Fires, LimitFields
<1>9. CASE r = "query_too_large"
  <2>1. Query(k.rq, k.body) # None /\ Over(b["max_query_bytes"], Query(k.rq, k.body)["bytes"])
    BY <1>9 DEF Fires
  <2>2. Over(a["max_query_bytes"], Query(k.rq, k.body)["bytes"])
    BY <1>1, <2>1, CallsAssumption DEF LimitFields
  <2> QED
    BY <1>9, <2>1, <2>2 DEF Fires
<1>10. CASE r \in {"depth", "aliases", "directives", "cost"}
  BY <1>3, <1>10 DEF Fires, LimitFields
<1> QED
  BY <1>4, <1>5, <1>6, <1>7, <1>8, <1>9, <1>10

(* The outcome is always that of the last request under the configuration  *)
(* in force.                                                               *)
Inv ==
    /\ cfg \in Configs
    /\ call \in Calls \union {None}
    /\ reason = IF call = None THEN None ELSE Evaluate(cfg, call)

(* The outcome on record is that of the request and settings on record.    *)
LEMMA InvHolds == Spec => []Inv
<1>1. Init => Inv
  BY DEF Init, Inv
<1>2. Inv /\ [Next]_vars => Inv'
  BY CallsAssumption DEF Inv, Next, Call, Restart, Retune, vars, Evaluate
<1> QED
  BY <1>1, <1>2, PTL DEF Spec

(* The rank of an outcome is the least check that fires, or 14.            *)
LEMMA RankOfEvaluation ==
    ASSUME NEW c \in Configs, NEW k \in Calls
    PROVE  LET hits == {i \in 1..13 : Fires(c, k.rq, k.body)[Checks[i]]}
           IN Rank(Evaluate(c, k)) = IF c.enabled /\ hits # {} THEN Min(hits) ELSE 14
<1> DEFINE hits == {i \in 1..13 : Fires(c, k.rq, k.body)[Checks[i]]}
<1>1. CASE c.enabled /\ hits # {}
  <2>1. Evaluate(c, k) = Checks[Min(hits)]
    BY <1>1, ChecksDomain DEF Evaluate, EvaluateGraphqlSecurity
  <2>2. Min(hits) \in 1..13
    BY <1>1, MinIsLeast
  <2> QED
    BY <1>1, <2>1, <2>2, RankOfCheck, ChecksDomain
<1>2. CASE ~(c.enabled /\ hits # {})
  <2>1. Evaluate(c, k) = None
    BY <1>2, ChecksDomain DEF Evaluate, EvaluateGraphqlSecurity
  <2> QED
    BY <1>2, <2>1, ChecksDomain DEF Rank
<1> QED
  BY <1>1, <1>2

(* What a looser configuration refuses, it refuses no earlier.             *)
LEMMA RankMonotone ==
    ASSUME NEW a \in Configs, NEW b \in Configs, NEW k \in Calls, NoStricter(a, b)
    PROVE  Rank(Evaluate(b, k)) >= Rank(Evaluate(a, k))
<1> DEFINE H(c) == {i \in 1..13 : Fires(c, k.rq, k.body)[Checks[i]]}
<1>1. H(b) \subseteq H(a)
  BY FiresMonotone, ChecksDomain DEF Reasons
<1>2. \A c \in {a, b} : Rank(Evaluate(c, k)) = IF c.enabled /\ H(c) # {} THEN Min(H(c)) ELSE 14
  BY RankOfEvaluation
<1>3. \A c \in {a, b} : H(c) # {} => Min(H(c)) \in H(c) /\ \A y \in H(c) : Min(H(c)) <= y
  BY MinIsLeast
<1>4. \A c \in {a, b} : H(c) \subseteq 1..13
  OBVIOUS
<1>5. b.enabled => a.enabled
  BY DEF NoStricter
<1> HIDE DEF H
<1>6. CASE b.enabled /\ H(b) # {}
  <2>1. a.enabled /\ H(a) # {} /\ Min(H(b)) \in H(a)
    BY <1>1, <1>3, <1>5, <1>6
  <2>2. Min(H(a)) <= Min(H(b)) /\ Min(H(a)) \in 1..13 /\ Min(H(b)) \in 1..13
    BY <1>1, <1>3, <1>4, <2>1
  <2> QED
    BY <1>2, <1>6, <2>1, <2>2
<1>7. CASE ~(b.enabled /\ H(b) # {})
  <2>1. Rank(Evaluate(b, k)) = 14
    BY <1>2, <1>7
  <2>2. Rank(Evaluate(a, k)) \in 1..14
    BY <1>2, <1>3, <1>4
  <2> QED
    BY <2>1, <2>2
<1> QED
  BY <1>6, <1>7

(* Loosening settings never makes a request that passed be refused, nor    *)
(* one that was refused be refused by an earlier check, for all            *)
(* configurations, requests and limits.  (graphql_security.rs:609-739)     *)
THEOREM Loosening == Spec => LooseningNeverBlocks
<1>1. ASSUME Inv, Inv', [Next]_vars, call' = call, NoStricter(cfg, cfg')
      PROVE  Rank(reason') >= Rank(reason)
  <2>1. CASE call \in Calls
    <3>1. reason = Evaluate(cfg, call) /\ reason' = Evaluate(cfg', call)
      BY <1>1, <2>1, CallsAssumption DEF Inv, Evaluate
    <3> QED
      BY <1>1, <2>1, <3>1, RankMonotone DEF Inv
  <2>2. CASE call = None
    BY <1>1, <2>2, ChecksDomain DEF Inv, Rank
  <2> QED
    BY <1>1, <2>1, <2>2 DEF Inv
<1>2. Inv /\ Inv' /\ [Next]_vars => [call' = call /\ NoStricter(cfg, cfg') => Rank(reason') >= Rank(reason)]_vars
  BY <1>1
<1> QED
  BY <1>2, InvHolds, PTL DEF Spec, LooseningNeverBlocks

(* An outcome is no match or the reason of a check, for all requests and   *)
(* configurations.  (graphql_security.rs:609-739)                          *)
THEOREM TypeCorrect == Spec => []TypeOK
<1>1. ASSUME NEW c \in Configs, NEW k \in Calls
      PROVE  Evaluate(c, k) \in Reasons \union {None}
  <2> DEFINE hits == {i \in 1..13 : Fires(c, k.rq, k.body)[Checks[i]]}
  <2>1. CASE c.enabled /\ hits # {}
    <3>1. Min(hits) \in 1..13
      BY <2>1, MinIsLeast
    <3> QED
      BY <2>1, <3>1, ChecksDomain DEF Evaluate, EvaluateGraphqlSecurity, Reasons
  <2>2. CASE ~(c.enabled /\ hits # {})
    BY <2>2, ChecksDomain DEF Evaluate, EvaluateGraphqlSecurity
  <2> QED
    BY <2>1, <2>2
<1>2. Inv => TypeOK
  BY <1>1 DEF Inv, TypeOK
<1> QED
  BY <1>2, InvHolds, PTL

(* Introspection is reported as such, behind whatever other violations it  *)
(* comes, for all requests and configurations.                             *)
(* (graphql_security.rs:617-618)                                           *)
THEOREM NeverMasked == Spec => []IntrospectionNeverMasked
<1>1. ASSUME NEW c \in Configs, NEW k \in Calls,
             c.enabled, Fires(c, k.rq, k.body).introspection_blocked
      PROVE  Evaluate(c, k) = "introspection_blocked"
  <2> DEFINE hits == {i \in 1..13 : Fires(c, k.rq, k.body)[Checks[i]]}
  <2>1. Checks[1] = "introspection_blocked"
    BY DEF Checks
  <2>2. 1 \in hits
    BY <1>1, <2>1
  <2>3. Min(hits) \in hits /\ Min(hits) <= 1
    BY <2>2, MinIsLeast
  <2>4. Min(hits) = 1
    <3>1. Min(hits) \in 1..13
      BY <2>3
    <3> HIDE DEF hits
    <3> QED
      BY <2>3, <3>1
  <2> QED
    BY <1>1, <2>1, <2>2, <2>4, ChecksDomain DEF Evaluate, EvaluateGraphqlSecurity
<1>2. ASSUME Inv PROVE IntrospectionNeverMasked
  <2> SUFFICES ASSUME call # None, cfg.enabled, cfg.block_introspection,
                      ~(cfg.allow_introspection_header /\ call.rq.allow_header),
                      ContainsIntrospection(call.rq, call.body)
               PROVE  reason = "introspection_blocked"
    BY DEF IntrospectionNeverMasked
  <2>1. Fires(cfg, call.rq, call.body).introspection_blocked
    BY DEF Fires
  <2> QED
    BY <1>1, <1>2, <2>1 DEF Inv
<1> QED
  BY <1>2, InvHolds, PTL

(* The { __typename } probe gets through whatever is blocked, as long as no*)
(* limit is set, for all requests and configurations: none of the thirteen *)
(* checks takes back what the GET gate lets through.                       *)
(* (graphql_security.rs:218-223, 648-652)                                  *)
THEOREM ProbesPass == Spec => []HealthProbePasses
<1>1. ASSUME NEW c \in Configs, NEW k \in Calls,
             k.rq.method = "GET", k.rq.query # None, k.body.empty,
             Query(k.rq, k.body).probe, ~k.rq.query.intro,
             Variables(k.rq, k.body) = None,
             \A f \in LimitFields : c[f] = None
      PROVE  Evaluate(c, k) = None
  <2> DEFINE doc == ExtractQueryFromGet(k.rq)
  <2>1. /\ doc # None /\ doc = Query(k.rq, k.body) /\ doc.probe
        /\ doc.parses /\ ~doc.intro /\ ~k.body.intro
    BY <1>1, ProbesAssumption DEF Query, OrElse
  <2> HIDE DEF doc
  <2>2. ~ContainsIntrospection(k.rq, k.body)
    BY <1>1, <2>1 DEF ContainsIntrospection, doc
  <2>3. ~GetGateFires(c, k.rq)
    BY <2>1 DEF GetGateFires, doc
  <2>4. ~IsBatchedJson(k.rq, k.body)
    BY <1>1 DEF IsBatchedJson
  <2>5. \A f \in LimitFields : \A n : ~Over(c[f], n)
    BY <1>1 DEF Over
  <2>6. \A f \in LimitFields, s \in {"bytes", "depth", "keys", "array", "aliases", "directives", "cost"} :
          /\ ~VariablesFire(c, Variables(k.rq, k.body), f, s)
          /\ ~DocumentFires(c, Query(k.rq, k.body), f, s)
    BY <2>5 DEF VariablesFire, DocumentFires
  <2>7. ASSUME NEW r \in Reasons PROVE ~Fires(c, k.rq, k.body)[r]
    <3>1. r \in {"introspection_blocked", "get_disabled",
                 "variables_too_large", "variables_depth", "variables_keys",
                 "variables_array", "batch_blocked", "query_too_large",
                 "invalid_query", "depth", "aliases", "directives", "cost"}
      BY ChecksDomain DEF Reasons, Checks
    <3>2. CASE r \in {"introspection_blocked", "get_disabled", "batch_blocked"}
      <4>1. CASE r = "introspection_blocked"
        BY <2>2, <4>1 DEF Fires
      <4>2. CASE r = "get_disabled"
        BY <2>3, <4>2 DEF Fires
      <4>3. CASE r = "batch_blocked"
        BY <2>4, <4>3 DEF Fires
      <4> QED
        BY <3>2, <4>1, <4>2, <4>3
    <3>3. CASE r \in {"query_too_large", "invalid_query"}
      <4>1. CASE r = "query_too_large"
        <5>1. ~Over(c.max_query_bytes, Query(k.rq, k.body).bytes)
          BY <2>5 DEF LimitFields
        <5> QED
          BY <4>1, <5>1 DEF Fires
      <4>2. CASE r = "invalid_query"
        <5>1. ~(Query(k.rq, k.body) # None /\ ~Query(k.rq, k.body).parses /\ c.block_invalid_query)
          BY <2>1
        <5> QED
          BY <4>2, <5>1 DEF Fires
      <4> QED
        BY <3>3, <4>1, <4>2
    <3>4. CASE r \in {"variables_too_large", "variables_depth", "variables_keys", "variables_array"}
      BY <2>6, <3>4 DEF Fires, LimitFields
    <3>5. CASE r \in {"depth", "aliases", "directives", "cost"}
      BY <2>6, <3>5 DEF Fires, LimitFields
    <3> QED
      BY <3>1, <3>2, <3>3, <3>4, <3>5
  <2>8. \A i \in 1..13 : ~Fires(c, k.rq, k.body)[Checks[i]]
    BY <2>7, ChecksDomain DEF Reasons
  <2> QED
    BY <2>8, ChecksDomain DEF Evaluate, EvaluateGraphqlSecurity
<1>2. Inv => HealthProbePasses
  BY <1>1 DEF Inv, HealthProbePasses
<1> QED
  BY <1>2, InvHolds, PTL
=============================================================================
