--------------------------- MODULE HandleRequest ---------------------------
(***************************************************************************)
(* proxy.rs: the connections of a running proxy, each with the request its *)
(* handler (handle_request) is serving, and the graceful shutdown of run.  *)
(* A connection carries one request at a time (HTTP/1.1).  Between two     *)
(* awaits of the handler nothing interleaves with it, so each such segment *)
(* is one action; every await is a place where bytes arrive, a peer fails, *)
(* or the client hangs up, which drops the handler's future.               *)
(*                                                                         *)
(* Besides the fields GraphqlSecurity lists, a request has                 *)
(*   path     "graphql" (/graphql, /graphiql) or "other",                  *)
(*   len      the length of its body, in units the network delivers whole, *)
(*   view     what the first n units of the body look like, n \in 0..len,  *)
(*   wf       the wirefilter expression is true of it,                     *)
(*   ms       its URI and headers make ModSecurity "clear", "deny" or      *)
(*            "error",                                                     *)
(*   uri_ok   its path and query make a valid URI with the upstream's host,*)
(* and a reply has json (its content type), content_length (or None), len  *)
(* and body, what SuggestionStrip can tell of it.                          *)
(***************************************************************************)
EXTENDS SuggestionStrip

CONSTANTS
    Conn,        \* client connections
    AppStates,   \* configurations the proxy may be started with
    Requests,    \* requests clients may send
    Replies      \* responses the upstream may give

ASSUME AppStatesAssumption ==
    /\ AppStates \subseteq
          [mode : {"Off", "Audit", "Block"}, wirefilter : {"none", "valid", "invalid"},
           modsec : BOOLEAN, max_body_bytes : Nat, reject_oversized_body : BOOLEAN,
           graphql_sec : {a.graphql_sec : a \in AppStates}]
    /\ \A a \in AppStates : a.graphql_sec.max_response_bytes \in Nat

(* Lengths are usize; a response that announces its length has a body of   *)
(* that length (hyper fails the body otherwise) or, to HEAD or as a 304,   *)
(* none at all.                                                            *)
ASSUME LengthsAssumption ==
    /\ \A rq \in Requests : rq.len \in Nat
    /\ \A rp \in Replies :
          /\ rp.len \in Nat /\ rp.content_length \in Nat \union {None}
          /\ rp.content_length \in {None, rp.len} \/ rp.len = 0

ASSUME BodiesAssumption ==
    \A rp \in Replies :
        /\ rp.body \in [kind : {"silent", "malformed", "array", "object"},
                       errors : Seq(Messages \union {None}) \union {None}]
        /\ rp.len = 0 => rp.body.kind = "silent"

ASSUME NoneAssumption == None \notin Requests \union Replies \union Nat

VARIABLES
    app,         \* the AppState, cloned into every handler
    server,      \* "serving", "draining" (after ctrl-c) or "stopped"
    conn         \* per connection: its state and its handler's locals

vars == <<app, server, conn>>

(***************************************************************************)
(* got      units of the request body read from the client                 *)
(* out      length of the body given to client.request, None if streamed   *)
(* upGot    units of the request body the upstream has received            *)
(* graphql  the local is_graphql                                           *)
(* rbuf     units of the response body held in memory                      *)
(* resp     what the handler returned: "blocked" (400), "bad_gateway"      *)
(*          (502), "streamed" (the upstream's body, passed on as it comes),*)
(*          "unchanged" or "rewritten" (a body the handler holds)          *)
(***************************************************************************)
Idle == [pc |-> "idle", req |-> None, got |-> 0, graphql |-> FALSE,
         out |-> None, upGot |-> 0, reply |-> None, rbuf |-> 0,
         resp |-> "none"]
Closed == [Idle EXCEPT !.pc = "closed"]

Init ==
    /\ app \in AppStates
    /\ server = "serving"
    /\ conn = [c \in Conn |-> Closed]

Step(c, next) ==
    /\ conn' = [conn EXCEPT ![c] = next]
    /\ UNCHANGED <<app, server>>

-----------------------------------------------------------------------------
(* Inspection: what the detectors see, and what they say of it. *)

Buffered == app.mode # "Off"

BodyTooLarge(a, rq) == rq.len > a.max_body_bytes

InspectedBody(a, rq) ==
    rq.view[IF BodyTooLarge(a, rq) THEN a.max_body_bytes ELSE rq.len]

BlockedPath(a, rq) ==
    /\ a.graphql_sec.enabled
    /\ a.graphql_sec.block_non_graphql_paths
    /\ rq.path # "graphql"

(* An expression that does not parse fails open. *)
MatchedWirefilter(a, rq) == a.wirefilter = "valid" /\ rq.wf

\* A slip: an inspection that fails counts as a match.
ModsecInterventionOrError(a, rq, body) ==
    /\ a.modsec
    /\ \/ rq.ms # "clear"
       \/ ~body.empty /\ body.ms

(* An error in the URI or header phase fails open; errors in the body      *)
(* phase are ignored.                                                      *)
ModsecIntervention(a, rq, body) ==
    /\ a.modsec
    /\ \/ rq.ms = "deny"
       \/ rq.ms = "clear" /\ ~body.empty /\ body.ms

Detected(a, rq, body) ==
    \/ EvaluateGraphqlSecurity(a.graphql_sec, rq, body) # None
    \/ MatchedWirefilter(a, rq)
    \/ ModsecIntervention(a, rq, body)

\* A slip: the early return of the path check is taken in audit mode too.
PathRefusedInAnyMode(rq) == Buffered /\ BlockedPath(app, rq)

(* The early return of the path check, which tests the mode by itself. *)
PathRefused(rq) == app.mode = "Block" /\ BlockedPath(app, rq)

\* A slip: the oversize clause is forgotten.
ShouldBlockWhateverTheSize(rq) ==
    app.mode = "Block" /\ Detected(app, rq, InspectedBody(app, rq))

ShouldBlock(rq) ==
    /\ app.mode = "Block"
    /\ \/ Detected(app, rq, InspectedBody(app, rq))
       \/ BodyTooLarge(app, rq) /\ app.reject_oversized_body

-----------------------------------------------------------------------------
(* The client and the handler up to client.request. *)

Connect(c) ==
    /\ server = "serving"
    /\ conn[c].pc = "closed"
    /\ Step(c, Idle)

Answer(c, resp) ==
    Step(c, [conn[c] EXCEPT !.pc = "responding", !.resp = resp])

(* Off: nothing is read, the body streams upstream as it arrives. *)
ReceiveOff(c, rq) ==
    /\ ~Buffered
    /\ conn[c].pc = "idle" /\ server # "stopped"
    /\ Step(c, [Idle EXCEPT !.req = rq,
                            !.pc   = IF rq.uri_ok THEN "upstream" ELSE "responding",
                            !.resp = IF rq.uri_ok THEN "none" ELSE "bad_gateway"])

ReceiveBuffered(c, rq) ==
    /\ Buffered
    /\ conn[c].pc = "idle" /\ server # "stopped"
    /\ Step(c, [Idle EXCEPT !.req = rq, !.pc = "reading"])

ReadBody(c) ==
    /\ conn[c].pc = "reading"
    /\ conn[c].got < conn[c].req.len
    /\ Step(c, [conn[c] EXCEPT !.got = @ + 1])

(* The body breaks off or is malformed; run turns the error into a 502. *)
ClientBodyError(c) ==
    /\ \/ conn[c].pc = "reading"
       \/ conn[c].pc = "upstream" /\ ~Buffered
    /\ conn[c].got < conn[c].req.len
    /\ Answer(c, "bad_gateway")

\* A slip: the inspected copy is put back in place of the body.
InspectSendingTheCopy(c) ==
    LET rq == conn[c].req IN
    /\ conn[c].pc = "reading"
    /\ conn[c].got = rq.len
    /\ IF PathRefused(rq) \/ ShouldBlock(rq) THEN Answer(c, "blocked")
       ELSE IF ~rq.uri_ok THEN Answer(c, "bad_gateway")
       ELSE Step(c, [conn[c] EXCEPT
                       !.pc = "upstream",
                       !.out = IF BodyTooLarge(app, rq) THEN app.max_body_bytes ELSE rq.len,
                       !.graphql = LooksLikeGraphqlRequest(rq, InspectedBody(app, rq))])

(* From the end of to_bytes to client.request. *)
Inspect(c) ==
    LET rq == conn[c].req IN
    /\ conn[c].pc = "reading"
    /\ conn[c].got = rq.len
    /\ IF PathRefused(rq) \/ ShouldBlock(rq) THEN Answer(c, "blocked")
       ELSE IF ~rq.uri_ok THEN Answer(c, "bad_gateway")
       ELSE Step(c, [conn[c] EXCEPT
                       !.pc = "upstream",
                       !.out = conn[c].got,
                       !.graphql = LooksLikeGraphqlRequest(rq, InspectedBody(app, rq))])

-----------------------------------------------------------------------------
(* The upstream, and the handler from client.request on. *)

(* The upstream is there to read what is left of the request, before its   *)
(* response and after the head of it.                                      *)
Exchanging(c) ==
    \/ conn[c].pc \in {"upstream", "rewriting"}
    \/ conn[c].resp \in {"streamed", "unchanged", "rewritten"}

UpstreamReceive(c) ==
    /\ Exchanging(c)
    /\ IF Buffered
       THEN /\ conn[c].upGot < conn[c].out
            /\ Step(c, [conn[c] EXCEPT !.upGot = @ + 1])
       ELSE /\ conn[c].got < conn[c].req.len
            /\ Step(c, [conn[c] EXCEPT !.got = @ + 1, !.upGot = @ + 1])

UpstreamFail(c) ==
    /\ conn[c].pc = "upstream"
    /\ Answer(c, "bad_gateway")

\* Slips: a response exactly at the limit is passed over; the announced
\* length is not consulted.
MayStripBelowLimit(c, rp) ==
    /\ Buffered /\ conn[c].graphql
    /\ app.graphql_sec.block_field_suggestions
    /\ rp.json
    /\ \/ rp.content_length = None
       \/ rp.content_length < app.graphql_sec.max_response_bytes

MayStripWhateverTheLength(c, rp) ==
    /\ Buffered /\ conn[c].graphql
    /\ app.graphql_sec.block_field_suggestions
    /\ rp.json

(* The response-side condition of handle_request. *)
MayStrip(c, rp) ==
    /\ Buffered
    /\ conn[c].graphql
    /\ app.graphql_sec.block_field_suggestions
    /\ rp.json
    /\ \/ rp.content_length = None
       \/ rp.content_length <= app.graphql_sec.max_response_bytes

(* The head of the response, which may come before the upstream has read   *)
(* the whole request.                                                      *)
UpstreamReply(c, rp) ==
    /\ conn[c].pc = "upstream"
    /\ IF MayStrip(c, rp)
       THEN Step(c, [conn[c] EXCEPT !.pc = "rewriting", !.reply = rp])
       ELSE Step(c, [conn[c] EXCEPT !.pc = "responding", !.reply = rp,
                                    !.resp = "streamed"])

\* A slip: the end of the body is missed by one.
ReadReplyPastTheEnd(c) ==
    /\ conn[c].pc = "rewriting"
    /\ conn[c].rbuf <= conn[c].reply.len
    /\ Step(c, [conn[c] EXCEPT !.rbuf = @ + 1])

ReadReply(c) ==
    /\ conn[c].pc = "rewriting"
    /\ conn[c].rbuf < conn[c].reply.len
    /\ Step(c, [conn[c] EXCEPT !.rbuf = @ + 1])

ReplyFail(c) ==
    /\ conn[c].pc = "rewriting"
    /\ conn[c].rbuf < conn[c].reply.len
    /\ Answer(c, "bad_gateway")

(* The body has something to be stripped. *)
Suggests(rp) == StripGraphqlFieldSuggestions(rp.body) # None

\* A slip: no answer for a body that turns out larger than the limit.
RewriteReplyWithinLimit(c) ==
    LET rp == conn[c].reply IN
    /\ conn[c].pc = "rewriting"
    /\ conn[c].rbuf = rp.len
    /\ rp.len <= app.graphql_sec.max_response_bytes
    /\ Answer(c, IF Suggests(rp) THEN "rewritten" ELSE "unchanged")

RewriteReply(c) ==
    LET rp == conn[c].reply IN
    /\ conn[c].pc = "rewriting"
    /\ conn[c].rbuf = rp.len
    /\ Answer(c, IF Suggests(rp) /\ rp.len <= app.graphql_sec.max_response_bytes
                 THEN "rewritten" ELSE "unchanged")

-----------------------------------------------------------------------------
(* The end of an exchange, and the end of a connection. *)

\* A slip: connections are kept alive during the shutdown too.
FinishResponseKeepingAlive(c) ==
    /\ conn[c].pc = "responding"
    /\ Step(c, IF conn[c].got = conn[c].req.len THEN Idle ELSE Closed)

(* The client has the whole response.  hyper keeps the connection only if  *)
(* it has read the request to its end and no shutdown is under way.        *)
FinishResponse(c) ==
    /\ conn[c].pc = "responding"
    /\ Step(c, IF server = "serving" /\ conn[c].got = conn[c].req.len
               THEN Idle ELSE Closed)

(* A body passed on as it comes breaks off when the upstream does. *)
RelayFail(c) ==
    /\ conn[c].pc = "responding"
    /\ conn[c].resp = "streamed"
    /\ Step(c, Closed)

(* http1_half_close(false): the client's EOF drops the connection and the  *)
(* handler with it, at whichever await it is.                              *)
Disconnect(c) ==
    /\ conn[c].pc # "closed"
    /\ Step(c, Closed)

CloseIdle(c) ==
    /\ server = "draining"
    /\ conn[c].pc = "idle"
    /\ Step(c, Closed)

CtrlC ==
    /\ server = "serving"
    /\ server' = "draining"
    /\ UNCHANGED <<app, conn>>

Exit ==
    /\ server = "draining"
    /\ \A c \in Conn : conn[c].pc = "closed"
    /\ server' = "stopped"
    /\ UNCHANGED <<app, conn>>

-----------------------------------------------------------------------------
Next ==
    \/ \E c \in Conn :
          \/ Connect(c)
          \/ \E rq \in Requests : ReceiveOff(c, rq) \/ ReceiveBuffered(c, rq)
          \/ ReadBody(c) \/ ClientBodyError(c) \/ Inspect(c)
          \/ UpstreamReceive(c) \/ UpstreamFail(c)
          \/ \E rp \in Replies : UpstreamReply(c, rp)
          \/ ReadReply(c) \/ ReplyFail(c) \/ RewriteReply(c)
          \/ FinishResponse(c) \/ RelayFail(c)
          \/ Disconnect(c) \/ CloseIdle(c)
    \/ CtrlC
    \/ Exit

Spec == Init /\ [][Next]_vars

(* What the runtime owes: a ready task is polled, a drained server exits.  *)
ProxyFairness ==
    /\ \A c \in Conn : WF_vars(Inspect(c) \/ RewriteReply(c) \/ CloseIdle(c))
    /\ WF_vars(Exit)

(* What only a live client owes: it sends its body and reads its response, *)
(* or breaks off.                                                          *)
ClientFairness ==
    \A c \in Conn : WF_vars(ReadBody(c)) /\ WF_vars(FinishResponse(c))

(* What only a live upstream owes: it answers and sends the whole of its   *)
(* answer, or breaks off.                                                  *)
UpstreamFairness ==
    \A c \in Conn :
        /\ WF_vars(\E rp \in Replies : UpstreamReply(c, rp))
        /\ WF_vars(ReadReply(c))

FairSpec == Spec /\ ProxyFairness /\ ClientFairness /\ UpstreamFairness

-----------------------------------------------------------------------------
(* Type invariant: every connection's record is one a handler can be in.   *)
(* (proxy.rs handle_request: its locals at each await)                     *)
ConnType ==
    [pc : {"closed", "idle", "reading", "upstream", "rewriting", "responding"},
     req : Requests \union {None}, got : Nat, graphql : BOOLEAN,
     out : Nat \union {None}, upGot : Nat, reply : Replies \union {None},
     rbuf : Nat,
     resp : {"none", "blocked", "bad_gateway", "streamed", "unchanged", "rewritten"}]

TypeOK ==
    /\ app \in AppStates
    /\ server \in {"serving", "draining", "stopped"}
    /\ conn \in [Conn -> ConnType]
    /\ \A c \in Conn :
          /\ conn[c].pc \notin {"closed", "idle"} =>
                conn[c].req \in Requests /\ conn[c].got \in 0..conn[c].req.len
          /\ conn[c].pc = "rewriting" =>
                conn[c].reply \in Replies /\ conn[c].rbuf \in 0..conn[c].reply.len

(* In block mode, with oversized bodies rejected, no detector would match  *)
(* the very bytes that were handed to the upstream: what was inspected is  *)
(* what is forwarded, although the detectors saw a copy of a prefix, and   *)
(* the path check, which returns before they run, let the path pass too.   *)
(* (proxy.rs:454-468 inspected_body, 473-489, 525-567 should_block)        *)
CleanAsForwarded ==
    \A c \in Conn :
        app.mode = "Block" /\ app.reject_oversized_body /\ conn[c].out # None =>
            /\ ~BlockedPath(app, conn[c].req)
            /\ ~Detected(app, conn[c].req, conn[c].req.view[conn[c].out])

(* What a configuration objects to in a request, whatever its mode. *)
Objects(a, rq) ==
    \/ BlockedPath(a, rq)
    \/ Detected(a, rq, InspectedBody(a, rq))
    \/ BodyTooLarge(a, rq) /\ a.reject_oversized_body

(* The configuration without the detectors that fail on a request. *)
WithoutFailing(rq) ==
    [app EXCEPT !.wirefilter = IF @ = "invalid" THEN "none" ELSE @,
                !.modsec     = @ /\ rq.ms # "error"]

(* A detector that fails decides nothing, neither way: a request is refused*)
(* or handed over as if the proxy had been started without it, so that its *)
(* failure refuses nothing and keeps no other detector from being heard.   *)
(* (proxy.rs:502-523, the two matches that fail open, and 525-529)         *)
FailuresDecideNothing ==
    \A c \in Conn :
        LET rq == conn[c].req
            refused == app.mode = "Block" /\ Objects(WithoutFailing(rq), rq)
        IN /\ conn[c].resp = "blocked" => refused
           /\ conn[c].out # None => ~refused

(* In audit and block mode the upstream sees no byte of a body before the  *)
(* client's whole body has come in, and what it is sent is that whole body *)
(* and never the truncated copy the detectors were given.                  *)
(* (proxy.rs:450-468 to_bytes and the copies, 566-567 the body put back)   *)
WholeBodyForwarded ==
    \A c \in Conn :
        Buffered /\ (conn[c].out # None \/ conn[c].upGot > 0) =>
            /\ conn[c].got = conn[c].req.len
            /\ conn[c].out = conn[c].req.len
            /\ conn[c].upGot <= conn[c].out

(* A response body is rewritten exactly when it answers a GraphQL request  *)
(* of an inspecting proxy, is JSON, carries a suggestion and fits the      *)
(* budget, whatever arrived between the inspection and the reply.          *)
(* (proxy.rs:469 is_graphql, used at 576-607 after two awaits)             *)
SuggestionsRemovedWithinBudget ==
    \A c \in Conn :
        LET rp == conn[c].reply IN
        conn[c].resp \in {"streamed", "unchanged", "rewritten"} =>
            (conn[c].resp = "rewritten" <=>
                /\ Buffered
                /\ app.graphql_sec.block_field_suggestions
                /\ LooksLikeGraphqlRequest(conn[c].req, InspectedBody(app, conn[c].req))
                /\ rp.json /\ Suggests(rp)
                /\ rp.len <= app.graphql_sec.max_response_bytes)

(* What the client is given of a reply. *)
Delivered(c) ==
    IF conn[c].resp = "rewritten" THEN StripGraphqlFieldSuggestions(conn[c].reply.body)
    ELSE conn[c].reply.body

(* Rewriting takes suggestions out of messages and nothing else: the errors*)
(* are those the upstream sent, as many and in order, each message whole or*)
(* a beginning of it, that ends before the first suggestion and lost no    *)
(* text that stood before one.                                             *)
(* (graphql_security.rs:270-305, proxy.rs:598-604)                         *)
OnlySuggestionsAreCut ==
    \A c \in Conn :
        conn[c].resp = "rewritten" =>
            LET before == conn[c].reply.body.errors
                after  == Delivered(c).errors
            IN /\ DOMAIN after = DOMAIN before
               /\ \A i \in DOMAIN before :
                     \/ before[i] = None /\ after[i] = None
                     \/ /\ before[i] # None
                        /\ \E n \in 0..Len(before[i]) :
                              /\ after[i] = SubSeq(before[i], 1, n)
                              /\ \A k \in (n + 1)..Len(before[i]) :
                                    White(before[i], k) \/ HintUpTo(before[i], k)
                        /\ SuggestionAt(after[i]) = {}

(* A response that announces its length is never held in memory beyond     *)
(* max_response_bytes.  (proxy.rs:584-593)                                 *)
AnnouncedReplyWithinBudget ==
    \A c \in Conn :
        conn[c].rbuf > 0 /\ conn[c].reply.content_length # None =>
            conn[c].rbuf <= app.graphql_sec.max_response_bytes

(* Every request taken, to be read first or streamed upstream at once, is  *)
(* answered, refused or abandoned by its client, when the clients and the  *)
(* upstream keep going.  (proxy.rs:425-610)                                *)
RequestAnswered ==
    \A c \in Conn :
        conn[c].pc \in {"reading", "upstream"} ~> conn[c].pc \in {"responding", "closed"}

(* ctrl-c ends the process once the exchanges in flight are over.          *)
(* (proxy.rs:970-975 with_graceful_shutdown)                               *)
ShutdownCompletes == server = "draining" ~> server = "stopped"

(* proxy.rs:84-85 (Cli): with reject_oversized_body false an oversized     *)
(* request is forwarded regardless, for the sake of legitimate oversized   *)
(* traffic: one whose whole body no detector matches is not blocked.       *)
OversizedOptOutForwards ==
    \A c \in Conn :
        LET rq == conn[c].req IN
        conn[c].resp = "blocked" /\ ~app.reject_oversized_body /\ BodyTooLarge(app, rq) =>
            BlockedPath(app, rq) \/ Detected(app, rq, rq.view[rq.len])

(* README.md:24-25 and 300: the hints are stripped from the messages of    *)
(* JSON error responses: one that was stripped holds none any more.        *)
NoHintLeft ==
    \A c \in Conn :
        conn[c].resp = "rewritten" =>
            \A i \in DOMAIN Delivered(c).errors :
                LET msg == Delivered(c).errors[i] IN
                msg # None => \A k \in DOMAIN msg : msg[k] \notin {"Did", "did"}

-----------------------------------------------------------------------------
(* The promise of module Gateway: an exchange is held while the handler    *)
(* reads it, passed from client.request to the response's head, and        *)
(* answered from then on; the objection is what block mode refuses for.    *)
StageOf ==
    [c \in Conn |->
        CASE conn[c].pc \in {"closed", "idle"} -> "free"
          [] conn[c].pc = "reading" -> "held"
          [] conn[c].pc \in {"upstream", "rewriting"} -> "passed"
          [] conn[c].pc = "responding" -> "answered"]

ObjectionOf ==
    [c \in Conn |-> conn[c].pc \notin {"closed", "idle"} /\ Objects(app, conn[c].req)]

AnswerOf ==
    [c \in Conn |->
        CASE conn[c].resp = "none" -> "none"
          [] conn[c].resp = "blocked" -> "refused"
          [] conn[c].resp = "bad_gateway" -> "failed"
          [] conn[c].resp \in {"streamed", "unchanged", "rewritten"} -> "relayed"]

G == INSTANCE Gateway WITH
        blocking <- app.mode = "Block", stopped <- server = "stopped",
        stage <- StageOf, objection <- ObjectionOf, answer <- AnswerOf

(* Every behaviour of the handlers keeps the promise of module Gateway.    *)
(* (proxy.rs:425-610 handle_request, 942-975 the service and its shutdown) *)
GatewayPromise == G!GatewaySpec
=============================================================================
