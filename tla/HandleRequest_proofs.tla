----------------------- MODULE HandleRequest_proofs -----------------------
(***************************************************************************)
(* Theorems of HandleRequest, for every set of connections, configurations,*)
(* requests and responses.                                                 *)
(*                                                                         *)
(* The invariants speak of one connection's record at a time (Sound, then  *)
(* Judged), and every step of a connection replaces one record:            *)
(* StepKeepsInv and StepKeepsJudged carry the induction and each action    *)
(* only owes that its new record is Sound and Judged.                      *)
(***************************************************************************)
EXTENDS HandleRequest, TLAPS, WellFoundedInduction, NaturalsInduction

(* The part of TypeOK that speaks of one record. *)
Typed(r) ==
    /\ r \in ConnType
    /\ r.pc \notin {"closed", "idle"} =>
          r.req \in Requests /\ r.got \in 0..r.req.len
    /\ r.pc = "rewriting" =>
          r.reply \in Replies /\ r.rbuf \in 0..r.reply.len

Refuses(rq) == PathRefused(rq) \/ ShouldBlock(rq)

(* The two places that refuse, together, refuse what the configuration     *)
(* objects to, in block mode.  (proxy.rs:473-489, 525-529)                 *)
LEMMA RefusesWhatItObjectsTo ==
    ASSUME NEW rq
    PROVE  Refuses(rq) <=> app.mode = "Block" /\ Objects(app, rq)
BY DEF Refuses, PathRefused, ShouldBlock, Objects

(* What was handed to the upstream is what was read and judged. *)
HandedOver(r) ==
    /\ Buffered
    /\ r.pc \in {"upstream", "rewriting", "responding"}
    /\ r.out = r.req.len /\ r.got = r.req.len
    /\ r.upGot <= r.out
    /\ ~Refuses(r.req)

Sound(r) ==
    /\ Typed(r)
    /\ r.pc = "reading" => Buffered
    /\ r.out # None => HandedOver(r)
    /\ Buffered /\ r.out = None =>
          /\ r.upGot = 0 /\ r.pc \notin {"upstream", "rewriting"}
          /\ r.resp \notin {"streamed", "unchanged", "rewritten"}
    /\ r.resp # "none" => r.pc = "responding"
    /\ r.resp = "blocked" => Refuses(r.req)
    /\ r.reply = None => r.rbuf = 0
    /\ r.pc \in {"reading", "upstream"} => r.reply = None

HInv ==
    /\ app \in AppStates
    /\ server \in {"serving", "draining", "stopped"}
    /\ conn \in [Conn -> ConnType]
    /\ \A c \in Conn : Sound(conn[c])

(* A connection that carries no request is sound. *)
LEMMA FreshSound == Idle \in ConnType /\ Sound(Idle) /\ Closed \in ConnType /\ Sound(Closed)
<1>1. Idle \in ConnType
  BY DEF Idle, ConnType
<1>2. Closed \in ConnType
  BY DEF Closed, Idle, ConnType
<1> QED
  BY <1>1, <1>2 DEF Sound, Typed, HandedOver, Idle, Closed

(* Replacing one connection's record by a sound one keeps the invariant. *)
LEMMA StepKeepsInv ==
    ASSUME HInv, NEW c \in Conn, NEW r, Sound(r), Step(c, r)
    PROVE  HInv'
<1>1. r \in ConnType
  BY DEF Sound, Typed
<1>2. app' = app /\ server' = server /\ conn' = [conn EXCEPT ![c] = r]
  BY DEF Step
<1>3. \A d \in Conn : conn'[d] = IF d = c THEN r ELSE conn[d]
  BY <1>2 DEF HInv
<1>4. \A x : Sound(x)' <=> Sound(x)
  BY <1>2 DEF Sound, Typed, HandedOver, Buffered, Refuses, PathRefused,
     ShouldBlock, BlockedPath, Detected, MatchedWirefilter, ModsecIntervention, InspectedBody, BodyTooLarge
<1>5. conn' \in [Conn -> ConnType]
  BY <1>1, <1>2 DEF HInv
<1> QED
  BY <1>2, <1>3, <1>4, <1>5 DEF HInv

(* A request taken, streamed at once in off mode or read first.            *)
LEMMA ReceiveKeepsInv ==
    ASSUME HInv, NEW c \in Conn, NEW rq \in Requests,
           ReceiveOff(c, rq) \/ ReceiveBuffered(c, rq)
    PROVE  HInv'
<1>1. CASE ReceiveOff(c, rq)
  <2> DEFINE r == [Idle EXCEPT !.req = rq,
                       !.pc   = IF rq.uri_ok THEN "upstream" ELSE "responding",
                       !.resp = IF rq.uri_ok THEN "none" ELSE "bad_gateway"]
  <2>1. r \in ConnType
    BY DEF Idle, ConnType
  <2>2. Sound(r)
    BY <1>1, <2>1, LengthsAssumption DEF ReceiveOff, Sound, Typed, HandedOver, Idle
  <2> QED
    BY <1>1, <2>2, StepKeepsInv DEF ReceiveOff
<1>2. CASE ReceiveBuffered(c, rq)
  <2> DEFINE r == [Idle EXCEPT !.req = rq, !.pc = "reading"]
  <2>1. r \in ConnType
    BY DEF Idle, ConnType
  <2>2. Sound(r)
    BY <1>2, <2>1, LengthsAssumption
    DEF ReceiveBuffered, Sound, Typed, HandedOver, Idle
  <2> QED
    BY <1>2, <2>2, StepKeepsInv DEF ReceiveBuffered
<1> QED
  BY <1>1, <1>2

(* An answer given from any state of a handler, but for the upstream's.    *)
LEMMA AnswerKeepsInv ==
    ASSUME HInv, NEW c \in Conn, conn[c].pc \in {"reading", "upstream", "rewriting"},
           NEW resp \in {"blocked", "bad_gateway", "unchanged", "rewritten"},
           resp = "blocked" => Refuses(conn[c].req),
           resp \in {"unchanged", "rewritten"} => conn[c].pc = "rewriting",
           Answer(c, resp)
    PROVE  HInv'
<1> DEFINE r == [conn[c] EXCEPT !.pc = "responding", !.resp = resp]
<1>1. Sound(conn[c]) /\ conn[c] \in ConnType
  BY DEF HInv
<1>2. Sound(r)
  BY <1>1 DEF Sound, Typed, HandedOver, ConnType
<1> QED
  BY <1>2, StepKeepsInv DEF Answer

(* Reading stays within the body and hands nothing over.                   *)
LEMMA ReadBodyKeepsInv ==
    ASSUME HInv, NEW c \in Conn, ReadBody(c)
    PROVE  HInv'
<1> DEFINE r == [conn[c] EXCEPT !.got = @ + 1]
<1>1. Sound(conn[c]) /\ conn[c] \in ConnType
  BY DEF HInv
<1>2. conn[c].pc = "reading" /\ conn[c].req \in Requests /\ conn[c].req.len \in Nat
  BY <1>1, LengthsAssumption DEF ReadBody, Sound, Typed
<1>3. r.got \in 0..r.req.len /\ r \in ConnType
  BY <1>1, <1>2 DEF ReadBody, Sound, Typed, ConnType
<1>4. Sound(r)
  BY <1>1, <1>2, <1>3 DEF Sound, Typed, HandedOver, ConnType
<1> QED
  BY <1>4, StepKeepsInv DEF ReadBody

(* The only step that hands a body over: it was read whole and not blocked.*)
LEMMA InspectKeepsInv ==
    ASSUME HInv, NEW c \in Conn, Inspect(c)
    PROVE  HInv'
<1> DEFINE rq == conn[c].req
           r  == [conn[c] EXCEPT
                    !.pc = "upstream", !.out = conn[c].got,
                    !.graphql = LooksLikeGraphqlRequest(rq, InspectedBody(app, rq))]
<1>1. Sound(conn[c]) /\ conn[c] \in ConnType
  BY DEF HInv
<1>2. CASE (Refuses(rq) /\ Answer(c, "blocked")) \/ Answer(c, "bad_gateway")
  BY <1>2, AnswerKeepsInv DEF Inspect
<1>3. CASE ~Refuses(rq) /\ Step(c, r)
  <2>1. conn[c].pc = "reading" /\ rq \in Requests /\ rq.len \in Nat /\ conn[c].got = rq.len
    BY <1>1, LengthsAssumption DEF Inspect, Sound, Typed
  <2>2. Buffered /\ conn[c].upGot = 0
    BY <1>1, <2>1 DEF Sound, Typed, HandedOver, ConnType
  <2>3. r \in ConnType
    BY <1>1, <2>1 DEF ConnType, LooksLikeGraphqlRequest
  <2>4. Sound(r)
    BY <1>1, <1>3, <2>1, <2>2, <2>3, NoneAssumption DEF Sound, Typed, HandedOver, ConnType
  <2> QED
    BY <1>3, <2>4, StepKeepsInv
<1> QED
  BY <1>2, <1>3 DEF Inspect, Refuses

(* The upstream receives no more than was handed over.                     *)
LEMMA UpstreamReceiveKeepsInv ==
    ASSUME HInv, NEW c \in Conn, UpstreamReceive(c)
    PROVE  HInv'
<1>1. Sound(conn[c]) /\ conn[c] \in ConnType
  BY DEF HInv
<1>2. /\ conn[c].pc \in {"upstream", "rewriting", "responding"}
      /\ conn[c].req \in Requests /\ conn[c].req.len \in Nat
  BY <1>1, LengthsAssumption DEF UpstreamReceive, Exchanging, Sound, Typed
<1>3. CASE Buffered
  <2> DEFINE r == [conn[c] EXCEPT !.upGot = @ + 1]
  <2>1. r \in ConnType
    BY <1>1 DEF ConnType
  <2>2. HandedOver(conn[c])
    BY <1>1, <1>3 DEF Sound, UpstreamReceive, Exchanging
  <2>3. conn[c].upGot < conn[c].out /\ conn[c].out \in Nat /\ conn[c].upGot \in Nat
    BY <1>1, <1>2, <1>3, <2>2 DEF UpstreamReceive, HandedOver, ConnType
  <2>4. /\ r.upGot <= r.out /\ r.pc = conn[c].pc /\ r.req = conn[c].req
        /\ r.got = conn[c].got /\ r.out = conn[c].out /\ r.reply = conn[c].reply
        /\ r.rbuf = conn[c].rbuf /\ r.resp = conn[c].resp
    BY <1>1, <2>3 DEF ConnType
  <2> HIDE DEF r
  <2>5. HandedOver(r)
    BY <2>2, <2>4 DEF HandedOver
  <2>6. Sound(r)
    BY <1>1, <2>1, <2>2, <2>3, <2>4, <2>5, NoneAssumption DEF Sound, Typed
  <2> QED
    BY <1>3, <2>6, StepKeepsInv DEF UpstreamReceive, r
<1>4. CASE ~Buffered
  <2> DEFINE r == [conn[c] EXCEPT !.got = @ + 1, !.upGot = @ + 1]
  <2>0. conn[c].got + 1 \in Nat /\ conn[c].upGot + 1 \in Nat
    BY <1>1 DEF ConnType
  <2>1. r \in ConnType
    BY <1>1, <2>0 DEF ConnType
  <2>2. conn[c].got < conn[c].req.len /\ conn[c].got \in Nat
    BY <1>1, <1>4 DEF UpstreamReceive, ConnType
  <2>3. r.got = conn[c].got + 1 /\ r.req = conn[c].req
    BY <1>1 DEF ConnType
  <2>4. r.got \in 0..r.req.len
    BY <1>2, <2>2, <2>3
  <2>5. Sound(r)
    BY <1>1, <1>2, <1>4, <2>1, <2>4 DEF Sound, Typed, HandedOver, ConnType
  <2> QED
    BY <1>4, <2>5, StepKeepsInv DEF UpstreamReceive
<1> QED
  BY <1>3, <1>4

(* The head of a response leaves what was handed over alone.               *)
LEMMA UpstreamReplyKeepsInv ==
    ASSUME HInv, NEW c \in Conn, NEW rp \in Replies, UpstreamReply(c, rp)
    PROVE  HInv'
<1> DEFINE r == [conn[c] EXCEPT !.pc = "rewriting", !.reply = rp]
           s == [conn[c] EXCEPT !.pc = "responding", !.reply = rp, !.resp = "streamed"]
<1>1. Sound(conn[c]) /\ conn[c] \in ConnType /\ conn[c].pc = "upstream"
  BY DEF HInv, UpstreamReply
<1>2. r \in ConnType /\ s \in ConnType
  BY <1>1 DEF ConnType
<1>3. Sound(s)
  BY <1>1, <1>2 DEF Sound, Typed, HandedOver, ConnType
<1>4. Step(c, r) \/ Step(c, s)
  BY DEF UpstreamReply
<1>5. rp.len \in Nat
  BY LengthsAssumption
<1>6. conn[c].rbuf = 0
  BY <1>1 DEF Sound
<1>7. Sound(r)
  BY <1>1, <1>2, <1>5, <1>6 DEF Sound, Typed, HandedOver, ConnType
<1> QED
  BY <1>3, <1>4, <1>7, StepKeepsInv

(* Buffering a response stays within its body.                             *)
LEMMA ReadReplyKeepsInv ==
    ASSUME HInv, NEW c \in Conn, ReadReply(c)
    PROVE  HInv'
<1> DEFINE r == [conn[c] EXCEPT !.rbuf = @ + 1]
<1>1. Sound(conn[c]) /\ conn[c] \in ConnType
  BY DEF HInv
<1>2. conn[c].pc = "rewriting" /\ conn[c].reply \in Replies /\ conn[c].reply.len \in Nat
  BY <1>1, LengthsAssumption DEF ReadReply, Sound, Typed
<1>3. r.rbuf \in 0..r.reply.len /\ r \in ConnType
  BY <1>1, <1>2 DEF ReadReply, Sound, Typed, ConnType
<1>4. Sound(r)
  BY <1>1, <1>2, <1>3, NoneAssumption DEF Sound, Typed, HandedOver, ConnType
<1> QED
  BY <1>4, StepKeepsInv DEF ReadReply

(* Every step keeps the invariant, one case per action.                    *)
LEMMA NextKeepsInv == HInv /\ [Next]_vars => HInv'
<1> SUFFICES ASSUME HInv, [Next]_vars PROVE HInv'
  OBVIOUS
<1>1. ASSUME NEW c \in Conn, Connect(c) \/ FinishResponse(c) \/ RelayFail(c)
                               \/ Disconnect(c) \/ CloseIdle(c)
      PROVE  HInv'
  <2>1. Step(c, Idle) \/ Step(c, Closed)
    BY <1>1 DEF Connect, FinishResponse, RelayFail, Disconnect, CloseIdle
  <2> QED
    BY <2>1, FreshSound, StepKeepsInv
<1>2. ASSUME NEW c \in Conn, NEW rq \in Requests,
             ReceiveOff(c, rq) \/ ReceiveBuffered(c, rq)
      PROVE  HInv'
  BY <1>2, ReceiveKeepsInv
<1>3. ASSUME NEW c \in Conn, ReadBody(c) PROVE HInv'
  BY <1>3, ReadBodyKeepsInv
<1>4. ASSUME NEW c \in Conn,
             ClientBodyError(c) \/ UpstreamFail(c) \/ ReplyFail(c) \/ RewriteReply(c)
      PROVE  HInv'
  <2>1. conn[c].pc \in {"reading", "upstream", "rewriting"}
    BY <1>4 DEF ClientBodyError, UpstreamFail, ReplyFail, RewriteReply
  <2>2. \E resp \in {"bad_gateway", "unchanged", "rewritten"} :
           /\ Answer(c, resp)
           /\ resp \in {"unchanged", "rewritten"} => conn[c].pc = "rewriting"
    BY <1>4 DEF ClientBodyError, UpstreamFail, ReplyFail, RewriteReply
  <2> QED
    BY <2>1, <2>2, AnswerKeepsInv
<1>5. ASSUME NEW c \in Conn, Inspect(c) PROVE HInv'
  BY <1>5, InspectKeepsInv
<1>6. ASSUME NEW c \in Conn, UpstreamReceive(c) PROVE HInv'
  BY <1>6, UpstreamReceiveKeepsInv
<1>7. ASSUME NEW c \in Conn, NEW rp \in Replies, UpstreamReply(c, rp) PROVE HInv'
  BY <1>7, UpstreamReplyKeepsInv
<1>8. ASSUME NEW c \in Conn, ReadReply(c) PROVE HInv'
  BY <1>8, ReadReplyKeepsInv
<1>9. ASSUME CtrlC \/ Exit \/ UNCHANGED vars PROVE HInv'
  BY <1>9 DEF CtrlC, Exit, vars, HInv, Sound, Typed, HandedOver, Buffered, Refuses,
     PathRefused, ShouldBlock, BlockedPath, Detected, MatchedWirefilter, ModsecIntervention,
     InspectedBody, BodyTooLarge
<1> QED
  BY <1>1, <1>2, <1>3, <1>4, <1>5, <1>6, <1>7, <1>8, <1>9 DEF Next

(* The proxy starts with every connection closed.                          *)
LEMMA InitInv == Init => HInv
<1> SUFFICES ASSUME Init PROVE HInv
  OBVIOUS
<1>1. \A c \in Conn : conn[c] = Closed
  BY DEF Init
<1>2. conn \in [Conn -> ConnType]
  BY FreshSound DEF Init
<1> QED
  BY <1>1, <1>2, FreshSound DEF Init, HInv

(* The inductive invariant holds in every reachable state.                 *)
(* (proxy.rs:425-610: what the handler's locals say at each await)         *)
THEOREM Invariance == Spec => []HInv
BY InitInv, NextKeepsInv, PTL DEF Spec

(* Type correctness, for every configuration, request and response.        *)
(* (proxy.rs:425-610)                                                      *)
THEOREM TypeCorrect == Spec => []TypeOK
<1>1. HInv => TypeOK
  BY DEF HInv, TypeOK, Sound, Typed
<1> QED
  BY <1>1, Invariance, PTL

(* The upstream gets the client's whole body or nothing of it, unless the  *)
(* mode is off.  (proxy.rs:450-468, 566-567)                               *)
THEOREM ForwardsWholeBodies == Spec => []WholeBodyForwarded
<1>1. HInv => WholeBodyForwarded
  BY DEF HInv, WholeBodyForwarded, Sound, HandedOver
<1> QED
  BY <1>1, Invariance, PTL

(* In block mode with oversized bodies rejected, neither a detector nor the*)
(* path check objects to the bytes handed to the upstream.                 *)
(* (proxy.rs:454-468, 473-489, 525-567)                                    *)
THEOREM ForwardsOnlyClean == Spec => []CleanAsForwarded
<1>1. ASSUME HInv PROVE CleanAsForwarded
  <2> SUFFICES ASSUME NEW c \in Conn, app.mode = "Block", app.reject_oversized_body,
                      conn[c].out # None
               PROVE  /\ ~BlockedPath(app, conn[c].req)
                      /\ ~Detected(app, conn[c].req, conn[c].req.view[conn[c].out])
    BY DEF CleanAsForwarded
  <2>1. HandedOver(conn[c])
    BY <1>1 DEF HInv, Sound
  <2>2. ~Objects(app, conn[c].req)
    BY <2>1, RefusesWhatItObjectsTo DEF HandedOver
  <2>3. InspectedBody(app, conn[c].req) = conn[c].req.view[conn[c].out]
    BY <2>1, <2>2 DEF HandedOver, Objects, InspectedBody
  <2> QED
    BY <2>2, <2>3 DEF Objects
<1> QED
  BY <1>1, Invariance, PTL

(* A configuration objects to a request exactly when it does without the   *)
(* detectors that fail on it.                                              *)
LEMMA FailingDetectorsSayNothing ==
    ASSUME app \in AppStates, NEW rq
    PROVE  Objects(WithoutFailing(rq), rq) <=> Objects(app, rq)
<1> DEFINE w == WithoutFailing(rq)
<1>1. app \in [mode : {"Off", "Audit", "Block"}, wirefilter : {"none", "valid", "invalid"},
              modsec : BOOLEAN, max_body_bytes : Nat, reject_oversized_body : BOOLEAN,
              graphql_sec : {a.graphql_sec : a \in AppStates}]
  BY AppStatesAssumption
<1>2. /\ w.graphql_sec = app.graphql_sec /\ w.max_body_bytes = app.max_body_bytes
      /\ w.reject_oversized_body = app.reject_oversized_body
      /\ w.wirefilter = "valid" <=> app.wirefilter = "valid"
      /\ w.modsec <=> app.modsec /\ rq.ms # "error"
  BY <1>1 DEF WithoutFailing
<1> HIDE DEF w
<1>3. \A body : /\ MatchedWirefilter(w, rq) <=> MatchedWirefilter(app, rq)
                /\ ModsecIntervention(w, rq, body) <=> ModsecIntervention(app, rq, body)
  BY <1>2 DEF MatchedWirefilter, ModsecIntervention
<1>4. /\ BlockedPath(w, rq) <=> BlockedPath(app, rq)
      /\ BodyTooLarge(w, rq) <=> BodyTooLarge(app, rq)
      /\ InspectedBody(w, rq) = InspectedBody(app, rq)
  BY <1>2 DEF BlockedPath, BodyTooLarge, InspectedBody
<1>5. \A body : Detected(w, rq, body) <=> Detected(app, rq, body)
  BY <1>2, <1>3 DEF Detected
<1>6. Objects(w, rq) <=> Objects(app, rq)
  BY <1>2, <1>4, <1>5 DEF Objects
<1> QED
  BY <1>6 DEF w

(* A request is refused or handed over as if the proxy had been started    *)
(* without the detectors that fail on it.  (proxy.rs:502-529)              *)
THEOREM FailuresAreNeutral == Spec => []FailuresDecideNothing
<1>1. ASSUME HInv PROVE FailuresDecideNothing
  <2> SUFFICES ASSUME NEW c \in Conn
               PROVE  LET refused == /\ app.mode = "Block"
                                     /\ Objects(WithoutFailing(conn[c].req), conn[c].req)
                      IN /\ conn[c].resp = "blocked" => refused
                         /\ conn[c].out # None => ~refused
    BY DEF FailuresDecideNothing
  <2>1. Sound(conn[c]) /\ app \in AppStates
    BY <1>1 DEF HInv
  <2>2. /\ conn[c].resp = "blocked" => Refuses(conn[c].req)
        /\ conn[c].out # None => ~Refuses(conn[c].req)
    BY <2>1 DEF Sound, HandedOver
  <2> QED
    BY <2>1, <2>2, RefusesWhatItObjectsTo, FailingDetectorsSayNothing
<1> QED
  BY <1>1, Invariance, PTL
-----------------------------------------------------------------------------
(***************************************************************************)
(* The response side: what was found out of a request before it was handed *)
(* over is still true of it when its response comes, and decides whether   *)
(* that is rewritten.                                                      *)
(***************************************************************************)
Strip == app.graphql_sec.block_field_suggestions
Budget == app.graphql_sec.max_response_bytes

(* The response of r is one that is to be rewritten. *)
ToRewrite(r) ==
    /\ Buffered /\ Strip
    /\ LooksLikeGraphqlRequest(r.req, InspectedBody(app, r.req))
    /\ r.reply.json /\ Suggests(r.reply) /\ r.reply.len <= Budget

(* The response of r is one that is read before it is passed on. *)
ToRead(r) ==
    /\ Buffered /\ Strip
    /\ LooksLikeGraphqlRequest(r.req, InspectedBody(app, r.req))
    /\ r.reply.json
    /\ r.reply.content_length = None \/ r.reply.content_length <= Budget

Judged(r) ==
    /\ r.out # None => r.graphql = LooksLikeGraphqlRequest(r.req, InspectedBody(app, r.req))
    /\ r.pc # "responding" => r.resp = "none"
    /\ r.pc = "rewriting" => ToRead(r)
    /\ r.resp \in {"streamed", "unchanged", "rewritten"} => (r.resp = "rewritten" <=> ToRewrite(r))
    /\ r.resp = "rewritten" => r.reply \in Replies
    /\ r.rbuf > 0 /\ r.reply.content_length # None => r.rbuf <= Budget

RInv == HInv /\ \A c \in Conn : Judged(conn[c])

(* A connection that carries no request is judged. *)
LEMMA FreshJudged == Judged(Idle) /\ Judged(Closed)
BY DEF Judged, Idle, Closed

(* What a record is judged by is fixed when the proxy starts. *)
LEMMA JudgedStays ==
    ASSUME UNCHANGED app, NEW r
    PROVE  Judged(r)' <=> Judged(r)
BY DEF Judged, ToRead, ToRewrite, Strip, Budget, Buffered, LooksLikeGraphqlRequest,
   InspectedBody, BodyTooLarge

(* Replacing one connection's record by a judged one. *)
LEMMA StepKeepsJudged ==
    ASSUME RInv, NEW c \in Conn, NEW r, Judged(r), Step(c, r)
    PROVE  \A d \in Conn : Judged(conn[d])'
<1>1. app' = app /\ conn' = [conn EXCEPT ![c] = r] /\ conn \in [Conn -> ConnType]
  BY DEF RInv, HInv, Step
<1>2. \A x : Judged(x)' <=> Judged(x)
  BY <1>1, JudgedStays
<1>3. ASSUME NEW d \in Conn PROVE Judged(conn'[d])
  BY <1>1 DEF RInv
<1>4. ASSUME NEW d \in Conn PROVE Judged(conn[d])'
  BY <1>1, <1>2, <1>3 DEF Judged, ToRead, ToRewrite, Strip, Budget, Buffered,
     LooksLikeGraphqlRequest, InspectedBody, BodyTooLarge
<1> QED
  BY <1>4

(* Steps before the response, and answers that relay none, judge nothing.  *)
LEMMA EarlyStep ==
    ASSUME RInv, NEW c \in Conn,
           \/ ReadBody(c) \/ Inspect(c) \/ UpstreamReceive(c)
           \/ Answer(c, "bad_gateway") /\ conn[c].pc \in {"reading", "upstream", "rewriting"}
    PROVE  \A d \in Conn : Judged(conn[d])'
<1>1. /\ conn[c] \in ConnType /\ Sound(conn[c]) /\ Judged(conn[c])
  BY DEF RInv, HInv
<1>2. CASE Answer(c, "bad_gateway")
  <2> DEFINE r == [conn[c] EXCEPT !.pc = "responding", !.resp = "bad_gateway"]
  <2>1. Judged(r)
    BY <1>1 DEF Judged, ToRead, ToRewrite, ConnType
  <2> QED
    BY <1>2, <2>1, StepKeepsJudged DEF Answer
<1>3. CASE ReadBody(c)
  <2> DEFINE r == [conn[c] EXCEPT !.got = @ + 1]
  <2>1. Judged(r)
    BY <1>1 DEF Judged, ToRead, ToRewrite, ConnType
  <2> QED
    BY <1>3, <2>1, StepKeepsJudged DEF ReadBody
<1>4. CASE UpstreamReceive(c)
  <2> DEFINE r == [conn[c] EXCEPT !.upGot = @ + 1]
             s == [conn[c] EXCEPT !.got = @ + 1, !.upGot = @ + 1]
  <2>1. Judged(r) /\ Judged(s)
    BY <1>1 DEF Judged, ToRead, ToRewrite, ConnType
  <2> QED
    BY <1>4, <2>1, StepKeepsJudged DEF UpstreamReceive
<1>5. CASE Inspect(c)
  <2> DEFINE rq == conn[c].req
             r == [conn[c] EXCEPT !.pc = "upstream", !.out = conn[c].got,
                       !.graphql = LooksLikeGraphqlRequest(rq, InspectedBody(app, rq))]
             b == [conn[c] EXCEPT !.pc = "responding", !.resp = "blocked"]
             w == [conn[c] EXCEPT !.pc = "responding", !.resp = "bad_gateway"]
  <2>1. conn[c].pc = "reading"
    BY <1>5 DEF Inspect
  <2>2. Judged(r)
    BY <1>1, <2>1 DEF Judged, ToRead, ToRewrite, ConnType
  <2>3. Judged(b) /\ Judged(w)
    BY <1>1 DEF Judged, ToRead, ToRewrite, ConnType
  <2>4. Step(c, r) \/ Step(c, b) \/ Step(c, w)
    BY <1>5 DEF Inspect, Answer
  <2> QED
    BY <2>2, <2>3, <2>4, StepKeepsJudged
<1> QED
  BY <1>2, <1>3, <1>4, <1>5

(* The head of a response: it is read exactly when it may be rewritten.    *)
LEMMA UpstreamReplyJudged ==
    ASSUME RInv, NEW c \in Conn, NEW rp \in Replies, UpstreamReply(c, rp)
    PROVE  \A d \in Conn : Judged(conn[d])'
<1> DEFINE r == [conn[c] EXCEPT !.pc = "rewriting", !.reply = rp]
           s == [conn[c] EXCEPT !.pc = "responding", !.reply = rp, !.resp = "streamed"]
           graphql == LooksLikeGraphqlRequest(conn[c].req, InspectedBody(app, conn[c].req))
<1>1. /\ conn[c] \in ConnType /\ Sound(conn[c]) /\ Judged(conn[c])
      /\ conn[c].pc = "upstream" /\ conn[c].rbuf = 0
  BY DEF RInv, HInv, UpstreamReply, Sound
<1>2. Buffered => conn[c].graphql = graphql
  BY <1>1 DEF Sound, Judged
<1>3. rp.content_length \in {None, rp.len} \/ ~Suggests(rp)
  BY LengthsAssumption, BodiesAssumption DEF Suggests, StripGraphqlFieldSuggestions
<1>4. CASE MayStrip(c, rp)
  <2>1. r.req = conn[c].req /\ r.reply = rp /\ r.out = conn[c].out /\ r.rbuf = 0
        /\ r.graphql = conn[c].graphql /\ r.resp = conn[c].resp
    BY <1>1 DEF ConnType
  <2>2. ToRead(r)
    BY <1>2, <1>4, <2>1 DEF MayStrip, ToRead, Strip, Budget
  <2>3. r.resp = "none"
    BY <1>1, <2>1 DEF Judged
  <2>4. Judged(r)
    BY <1>1, <2>1, <2>2, <2>3 DEF Judged
  <2> QED
    BY <1>4, <2>4, StepKeepsJudged DEF UpstreamReply
<1>5. CASE ~MayStrip(c, rp)
  <2>1. /\ s.req = conn[c].req /\ s.reply = rp /\ s.out = conn[c].out /\ s.rbuf = 0
        /\ s.graphql = conn[c].graphql /\ s.resp = "streamed" /\ s.pc = "responding"
    BY <1>1 DEF ConnType
  <2>2. ~ToRewrite(s)
    BY <1>2, <1>3, <1>5, <2>1 DEF MayStrip, ToRewrite, Strip, Budget
  <2>3. Judged(s)
    BY <1>1, <2>1, <2>2 DEF Judged
  <2> QED
    BY <1>5, <2>3, StepKeepsJudged DEF UpstreamReply
<1> QED
  BY <1>4, <1>5

(* Reading a response: one that announces its length is within the budget. *)
LEMMA ReadReplyJudged ==
    ASSUME RInv, NEW c \in Conn, ReadReply(c)
    PROVE  \A d \in Conn : Judged(conn[d])'
<1> DEFINE r == [conn[c] EXCEPT !.rbuf = @ + 1]
           rp == conn[c].reply
<1>1. /\ conn[c] \in ConnType /\ Sound(conn[c]) /\ Judged(conn[c])
      /\ conn[c].pc = "rewriting" /\ conn[c].rbuf < rp.len
  BY DEF RInv, HInv, ReadReply
<1>2. rp \in Replies /\ conn[c].rbuf \in Nat /\ ToRead(conn[c]) /\ conn[c].resp = "none"
  BY <1>1 DEF Sound, Typed, ConnType, Judged
<1>3. /\ r.req = conn[c].req /\ r.reply = rp /\ r.out = conn[c].out
      /\ r.rbuf = conn[c].rbuf + 1 /\ r.graphql = conn[c].graphql
      /\ r.resp = "none" /\ r.pc = "rewriting"
  BY <1>1, <1>2 DEF ConnType
<1>4. rp.content_length # None => r.rbuf <= Budget
  <2>1. app \in AppStates
    BY DEF RInv, HInv
  <2>2. Budget \in Nat /\ rp.len \in Nat /\ rp.content_length \in {None, rp.len}
    BY <1>1, <1>2, <2>1, AppStatesAssumption, LengthsAssumption DEF Budget
  <2>3. rp.content_length # None => rp.content_length <= Budget
    BY <1>2 DEF ToRead
  <2> QED
    BY <1>1, <1>2, <1>3, <2>2, <2>3
<1>5. ToRead(r)
  BY <1>2, <1>3 DEF ToRead
<1>6. Judged(r)
  BY <1>1, <1>3, <1>4, <1>5 DEF Judged
<1> QED
  BY <1>6, StepKeepsJudged DEF ReadReply

(* A response read to its end: rewritten when it fits, kept as it is else. *)
LEMMA RewriteReplyJudged ==
    ASSUME RInv, NEW c \in Conn, RewriteReply(c)
    PROVE  \A d \in Conn : Judged(conn[d])'
<1> DEFINE r(resp) == [conn[c] EXCEPT !.pc = "responding", !.resp = resp]
           rp == conn[c].reply
           fits == Suggests(rp) /\ rp.len <= Budget
<1>1. /\ conn[c] \in ConnType /\ Judged(conn[c]) /\ conn[c].pc = "rewriting"
      /\ conn[c].reply \in Replies
  BY DEF RInv, HInv, RewriteReply, Sound, Typed
<1>2. ToRead(conn[c])
  BY <1>1 DEF Judged
<1>3. ASSUME NEW resp \in {"unchanged", "rewritten"}, resp = "rewritten" <=> fits
      PROVE  Judged(r(resp))
  <2>1. /\ r(resp).req = conn[c].req /\ r(resp).reply = rp /\ r(resp).out = conn[c].out
        /\ r(resp).rbuf = conn[c].rbuf /\ r(resp).graphql = conn[c].graphql
        /\ r(resp).resp = resp /\ r(resp).pc = "responding"
    BY <1>1 DEF ConnType
  <2> HIDE DEF r
  <2>2. ToRewrite(r(resp)) <=> fits
    BY <1>2, <2>1 DEF ToRead, ToRewrite
  <2> QED
    BY <1>1, <1>3, <2>1, <2>2 DEF Judged
<1>4. CASE fits
  BY <1>3, <1>4, StepKeepsJudged DEF RewriteReply, Answer, Budget
<1>5. CASE ~fits
  BY <1>3, <1>5, StepKeepsJudged DEF RewriteReply, Answer, Budget
<1> QED
  BY <1>4, <1>5

(* A request just taken has no response. *)
LEMMA ReceiveJudged ==
    ASSUME RInv, NEW c \in Conn, NEW rq \in Requests,
           ReceiveOff(c, rq) \/ ReceiveBuffered(c, rq)
    PROVE  \A d \in Conn : Judged(conn[d])'
<1> DEFINE r == [Idle EXCEPT !.req = rq,
                     !.pc   = IF rq.uri_ok THEN "upstream" ELSE "responding",
                     !.resp = IF rq.uri_ok THEN "none" ELSE "bad_gateway"]
           s == [Idle EXCEPT !.req = rq, !.pc = "reading"]
<1>1. Judged(r) /\ Judged(s)
  BY DEF Judged, Idle
<1>2. Step(c, r) \/ Step(c, s)
  BY DEF ReceiveOff, ReceiveBuffered
<1> QED
  BY <1>1, <1>2, StepKeepsJudged

(* Every step keeps the invariant. *)
LEMMA NextKeepsRInv == RInv /\ [Next]_vars => RInv'
<1> SUFFICES ASSUME RInv, [Next]_vars PROVE RInv'
  OBVIOUS
<1>1. HInv /\ HInv'
  BY NextKeepsInv DEF RInv
<1> SUFFICES \A d \in Conn : Judged(conn[d])'
  BY <1>1 DEF RInv
<1>2. ASSUME NEW c \in Conn, Connect(c) \/ FinishResponse(c) \/ RelayFail(c)
                               \/ Disconnect(c) \/ CloseIdle(c)
      PROVE  \A d \in Conn : Judged(conn[d])'
  <2>1. Step(c, Idle) \/ Step(c, Closed)
    BY <1>2 DEF Connect, FinishResponse, RelayFail, Disconnect, CloseIdle
  <2> QED
    BY <2>1, FreshJudged, StepKeepsJudged
<1>3. ASSUME NEW c \in Conn, ReadBody(c) \/ Inspect(c) \/ UpstreamReceive(c)
      PROVE  \A d \in Conn : Judged(conn[d])'
  BY <1>3, EarlyStep
<1>4. ASSUME NEW c \in Conn, ClientBodyError(c) \/ UpstreamFail(c) \/ ReplyFail(c)
      PROVE  \A d \in Conn : Judged(conn[d])'
  <2>1. Answer(c, "bad_gateway") /\ conn[c].pc \in {"reading", "upstream", "rewriting"}
    BY <1>4 DEF ClientBodyError, UpstreamFail, ReplyFail
  <2> QED
    BY <2>1, EarlyStep
<1>5. ASSUME NEW c \in Conn, NEW rq \in Requests, ReceiveOff(c, rq) \/ ReceiveBuffered(c, rq)
      PROVE  \A d \in Conn : Judged(conn[d])'
  BY <1>5, ReceiveJudged
<1>6. ASSUME NEW c \in Conn, NEW rp \in Replies, UpstreamReply(c, rp)
      PROVE  \A d \in Conn : Judged(conn[d])'
  BY <1>6, UpstreamReplyJudged
<1>7. ASSUME NEW c \in Conn, ReadReply(c) \/ RewriteReply(c)
      PROVE  \A d \in Conn : Judged(conn[d])'
  BY <1>7, ReadReplyJudged, RewriteReplyJudged
<1>8. ASSUME CtrlC \/ Exit \/ UNCHANGED vars
      PROVE  \A d \in Conn : Judged(conn[d])'
  <2>1. app' = app /\ conn' = conn
    BY <1>8 DEF CtrlC, Exit, vars
  <2> QED
    BY <2>1 DEF RInv, Judged, ToRead, ToRewrite, Strip, Budget, Buffered,
       LooksLikeGraphqlRequest, InspectedBody, BodyTooLarge
<1> QED
  BY <1>2, <1>3, <1>4, <1>5, <1>6, <1>7, <1>8 DEF Next

(* What is known of requests and responses in every reachable state.       *)
LEMMA ReplyInvariance == Spec => []RInv
<1>1. Init => RInv
  <2> SUFFICES ASSUME Init PROVE RInv
    OBVIOUS
  <2>1. \A c \in Conn : conn[c] = Closed
    BY DEF Init
  <2> QED
    BY <2>1, InitInv, FreshJudged DEF RInv
<1> QED
  BY <1>1, NextKeepsRInv, PTL DEF Spec

(* A response is rewritten exactly when it answers a GraphQL request of an *)
(* inspecting proxy, is JSON, carries a suggestion and fits the budget.    *)
(* (proxy.rs:469, 575-607)                                                 *)
THEOREM RewritesWhatItShould == Spec => []SuggestionsRemovedWithinBudget
<1>1. RInv => SuggestionsRemovedWithinBudget
  BY DEF RInv, Judged, ToRewrite, Strip, Budget, SuggestionsRemovedWithinBudget
<1> QED
  BY <1>1, ReplyInvariance, PTL

(* A response that announces its length is never held in memory beyond     *)
(* max_response_bytes.  (proxy.rs:584-597)                                 *)
THEOREM AnnouncedWithinBudget == Spec => []AnnouncedReplyWithinBudget
<1>1. RInv => AnnouncedReplyWithinBudget
  BY DEF RInv, Judged, Budget, AnnouncedReplyWithinBudget
<1> QED
  BY <1>1, ReplyInvariance, PTL

-----------------------------------------------------------------------------
(* What stripping does to one message. *)

LEMMA LeastIsIn ==
    ASSUME NEW S \in SUBSET Nat, S # {}
    PROVE  Min(S) \in S /\ \A y \in S : Min(S) <= y
<1> DEFINE R == OpToRel(<, Nat)
<1>1. \A x, y \in Nat : << x, y >> \notin R => y <= x
  BY DEF OpToRel
<1>2. IsWellFoundedOn(R, Nat)
  BY NatLessThanWellFounded
<1> HIDE DEF R
<1>3. \E x \in S : \A y \in S : x <= y
  BY <1>1, <1>2, WFMin
<1> QED
  BY <1>3 DEF Min

(* A bounded set has a greatest element: the least of its upper bounds.    *)
LEMMA GreatestIsIn ==
    ASSUME NEW n \in Nat, NEW S \in SUBSET (0..n), S # {}
    PROVE  Max(S) \in S /\ \A y \in S : y <= Max(S)
<1> DEFINE U == {m \in Nat : \A x \in S : x <= m}
           b == Min(U)
<1>1. n \in U
  OBVIOUS
<1>2. b \in U /\ \A m \in U : b <= m
  BY <1>1, LeastIsIn
<1> HIDE DEF b
<1>3. b \in S
  <2> SUFFICES ASSUME b \notin S PROVE FALSE
    OBVIOUS
  <2>1. PICK x \in S : x \in 0..n
    <3>1. \E x : x \in S
      OBVIOUS
    <3> QED
      BY <3>1
  <2>2. \A y \in S : y < b
    BY <1>2
  <2>3. b - 1 \in U
    BY <1>2, <2>1, <2>2
  <2> QED
    BY <1>2, <2>3
<1>4. \A y \in S : y <= b
  BY <1>2
<1> QED
  BY <1>3, <1>4 DEF Max

(* Only white space is trimmed.                                            *)
LEMMA OnlyWhiteIsTrimmed ==
    ASSUME NEW msg \in Messages
    PROVE  \E n \in 0..Len(msg) :
              /\ TrimEnd(msg) = SubSeq(msg, 1, n)
              /\ \A k \in (n + 1)..Len(msg) : White(msg, k)
<1> DEFINE S == {0} \union {i \in DOMAIN msg : ~White(msg, i)}
           n == Max(S)
<1>1. Len(msg) \in Nat /\ DOMAIN msg = 1..Len(msg)
  BY DEF Messages
<1>2. S \in SUBSET (0..Len(msg)) /\ S # {}
  BY <1>1
<1>3. n \in S /\ \A y \in S : y <= n
  BY <1>1, <1>2, GreatestIsIn
<1>4. TrimEnd(msg) = SubSeq(msg, 1, n)
  BY DEF TrimEnd
<1> HIDE DEF n
<1>5. \A k \in (n + 1)..Len(msg) : White(msg, k)
  BY <1>1, <1>2, <1>3
<1> QED
  BY <1>1, <1>2, <1>3, <1>4, <1>5

(* A message is cut at a hint, and no suggestion stands before the cut.    *)
LEMMA CutAtHint ==
    ASSUME NEW msg \in Messages
    PROVE  \/ CutAt(msg) = 0 /\ SuggestionAt(msg) = {}
           \/ /\ CutAt(msg) \in 1..Len(msg)
              /\ CutAt(msg) \in SuggestionAt(msg) \union LowercaseAt(msg)
              /\ \A i \in SuggestionAt(msg) : CutAt(msg) <= i
<1>1. Len(msg) \in Nat /\ DOMAIN msg = 1..Len(msg)
  BY DEF Messages
<1>2. SuggestionAt(msg) \in SUBSET (1..Len(msg)) /\ LowercaseAt(msg) \in SUBSET (1..Len(msg))
  BY <1>1 DEF SuggestionAt, LowercaseAt
<1>3. CASE SuggestionAt(msg) # {}
  <2>1. /\ Min(SuggestionAt(msg)) \in SuggestionAt(msg)
        /\ \A i \in SuggestionAt(msg) : Min(SuggestionAt(msg)) <= i
    BY <1>2, <1>3, LeastIsIn
  <2> QED
    BY <1>2, <1>3, <2>1 DEF CutAt
<1>4. CASE SuggestionAt(msg) = {} /\ LowercaseAt(msg) # {}
  <2>1. Min(LowercaseAt(msg)) \in LowercaseAt(msg)
    BY <1>2, <1>4, LeastIsIn
  <2> QED
    BY <1>2, <1>4, <2>1 DEF CutAt
<1>5. CASE SuggestionAt(msg) = {} /\ LowercaseAt(msg) = {}
  BY <1>5 DEF CutAt
<1> QED
  BY <1>3, <1>4, <1>5

(* A stripped message is the part of it before the first suggestion, and   *)
(* what it lost in front of a hint is white space.                         *)
LEMMA MessageStripped ==
    ASSUME NEW msg \in Messages, msg # None
    PROVE  /\ \E n \in 0..Len(msg) :
                 /\ StripMessage(msg) = SubSeq(msg, 1, n)
                 /\ \A k \in (n + 1)..Len(msg) : White(msg, k) \/ HintUpTo(msg, k)
           /\ SuggestionAt(StripMessage(msg)) = {}
<1> DEFINE cut == CutAt(msg)
           head == SubSeq(msg, 1, cut - 1)
<1>1. Len(msg) \in Nat /\ DOMAIN msg = 1..Len(msg) /\ msg \in Seq(Pieces)
  BY DEF Messages
<1>2. CASE cut = 0
  <2>1. StripMessage(msg) = msg /\ SuggestionAt(msg) = {}
    BY <1>2, CutAtHint DEF StripMessage
  <2>2. StripMessage(msg) = SubSeq(msg, 1, Len(msg))
    BY <1>1, <2>1
  <2>3. Len(msg) \in 0..Len(msg) /\ (Len(msg) + 1)..Len(msg) = {}
    BY <1>1
  <2> HIDE DEF cut, head
  <2>4. SuggestionAt(StripMessage(msg)) = {}
    BY <2>1
  <2> QED
    BY <2>2, <2>3, <2>4, Zenon
<1>3. CASE cut # 0
  <2>1. /\ cut \in 1..Len(msg)
        /\ cut \in SuggestionAt(msg) \union LowercaseAt(msg)
        /\ \A i \in SuggestionAt(msg) : cut <= i
    BY <1>3, CutAtHint
  <2> HIDE DEF cut
  <2>2. /\ head \in Messages /\ Len(head) = cut - 1
        /\ \A k \in 1..(cut - 1) : head[k] = msg[k]
    BY <1>1, <2>1 DEF Messages
  <2>3. PICK n \in 0..(cut - 1) : /\ TrimEnd(head) = SubSeq(head, 1, n)
                                  /\ \A k \in (n + 1)..(cut - 1) : White(head, k)
    BY <2>2, OnlyWhiteIsTrimmed
  <2>4. SubSeq(head, 1, n) = SubSeq(msg, 1, n)
    BY <1>1, <2>1, <2>2, <2>3 DEF Messages
  <2>5. StripMessage(msg) = SubSeq(msg, 1, n)
    BY <1>3, <2>3, <2>4 DEF StripMessage, cut
  <2>6. \A k \in (n + 1)..Len(msg) : White(msg, k) \/ HintUpTo(msg, k)
    BY <1>1, <2>1, <2>2, <2>3 DEF White, HintUpTo
  <2>7. SuggestionAt(SubSeq(msg, 1, n)) = {}
    <3>1. Len(SubSeq(msg, 1, n)) = n /\ \A k \in 1..n : SubSeq(msg, 1, n)[k] = msg[k]
      BY <1>1, <2>1, <2>3
    <3> QED
      BY <1>1, <2>1, <2>3, <3>1 DEF SuggestionAt
  <2> QED
    BY <1>1, <2>1, <2>5, <2>6, <2>7
<1> QED
  BY <1>2, <1>3

(* Rewriting takes suggestions out of messages and nothing else.           *)
(* (graphql_security.rs:270-305, proxy.rs:598-604)                         *)
THEOREM CutsOnlySuggestions == Spec => []OnlySuggestionsAreCut
<1>1. ASSUME RInv PROVE OnlySuggestionsAreCut
  <2> SUFFICES ASSUME NEW c \in Conn, conn[c].resp = "rewritten"
               PROVE  LET before == conn[c].reply.body.errors
                          after  == Delivered(c).errors
                      IN /\ DOMAIN after = DOMAIN before
                         /\ \A i \in DOMAIN before :
                               \/ before[i] = None /\ after[i] = None
                               \/ /\ before[i] # None
                                  /\ \E n \in 0..Len(before[i]) :
                                        /\ after[i] = SubSeq(before[i], 1, n)
                                        /\ \A k \in (n + 1)..Len(before[i]) :
                                              White(before[i], k) \/ HintUpTo(before[i], k)
                                  /\ SuggestionAt(after[i]) = {}
    BY DEF OnlySuggestionsAreCut
  <2> DEFINE body == conn[c].reply.body
             before == body.errors
             after == Delivered(c).errors
  <2>1. ToRewrite(conn[c]) /\ conn[c].reply \in Replies
    BY <1>1 DEF RInv, Judged
  <2>2. body \in [kind : {"silent", "malformed", "array", "object"},
                 errors : Seq(Messages \union {None}) \union {None}]
    BY <2>1, BodiesAssumption
  <2>3. /\ before # None
        /\ after = [i \in DOMAIN before |-> StripMessage(before[i])]
    BY <2>1, <2>2 DEF ToRewrite, Suggests, StripGraphqlFieldSuggestions, Delivered
  <2>4. before \in Seq(Messages \union {None})
    BY <2>2, <2>3
  <2>5. ASSUME NEW i \in DOMAIN before, before[i] = None PROVE after[i] = None
    BY <2>3, <2>5 DEF StripMessage
  <2>6. ASSUME NEW i \in DOMAIN before, before[i] # None
        PROVE  /\ \E n \in 0..Len(before[i]) :
                     /\ after[i] = SubSeq(before[i], 1, n)
                     /\ \A k \in (n + 1)..Len(before[i]) :
                           White(before[i], k) \/ HintUpTo(before[i], k)
               /\ SuggestionAt(after[i]) = {}
    <3>1. before[i] \in Messages
      BY <2>4, <2>6
    <3>2. after[i] = StripMessage(before[i])
      BY <2>3
    <3> QED
      BY <2>6, <3>1, <3>2, MessageStripped
  <2> QED
    BY <2>3, <2>5, <2>6
<1> QED
  BY <1>1, ReplyInvariance, PTL
=============================================================================
