------------------- MODULE HandleRequest_gateway_proofs -------------------
(***************************************************************************)
(* HandleRequest implements Gateway, for every set of connections,         *)
(* configurations, requests and responses.                                 *)
(*                                                                         *)
(* Stage, Objection and Answered are the refinement mapping on one record. *)
(* A step that replaces a record either moves its connection in Gateway    *)
(* (MoveByStep) or, when the record maps to the same, stutters there       *)
(* (StutterByStep).                                                        *)
(***************************************************************************)
EXTENDS HandleRequest_proofs

Stage(r) ==
    CASE r.pc \in {"closed", "idle"} -> "free"
      [] r.pc = "reading" -> "held"
      [] r.pc \in {"upstream", "rewriting"} -> "passed"
      [] r.pc = "responding" -> "answered"

Objection(r) == r.pc \notin {"closed", "idle"} /\ Objects(app, r.req)

Answered(r) ==
    CASE r.resp = "none" -> "none"
      [] r.resp = "blocked" -> "refused"
      [] r.resp = "bad_gateway" -> "failed"
      [] r.resp \in {"streamed", "unchanged", "rewritten"} -> "relayed"

(* The mapping, record by record. *)
LEMMA Mapping ==
    /\ StageOf = [c \in Conn |-> Stage(conn[c])]
    /\ ObjectionOf = [c \in Conn |-> Objection(conn[c])]
    /\ AnswerOf = [c \in Conn |-> Answered(conn[c])]
BY DEF StageOf, ObjectionOf, AnswerOf, Stage, Objection, Answered

(* What a record maps to does not change while the proxy runs. *)
LEMMA MappingAfter ==
    ASSUME NEW c \in Conn, NEW r, Step(c, r), conn \in [Conn -> ConnType]
    PROVE  /\ StageOf' = [StageOf EXCEPT ![c] = Stage(r)]
           /\ ObjectionOf' = [ObjectionOf EXCEPT ![c] = Objection(r)]
           /\ AnswerOf' = [AnswerOf EXCEPT ![c] = Answered(r)]
<1>1. app' = app /\ \A d \in Conn : conn'[d] = IF d = c THEN r ELSE conn[d]
  BY DEF Step
<1>2. /\ StageOf' = [d \in Conn |-> Stage(conn'[d])]
      /\ AnswerOf' = [d \in Conn |-> Answered(conn'[d])]
  BY DEF StageOf, AnswerOf, Stage, Answered
<1>3. ObjectionOf' = [d \in Conn |-> Objection(conn'[d])]
  BY <1>1 DEF ObjectionOf, Objection, Objects, BlockedPath, Detected, MatchedWirefilter,
     ModsecIntervention, InspectedBody, BodyTooLarge
<1> QED
  BY <1>1, <1>2, <1>3, Mapping

(* A step moves its connection in Gateway. *)
LEMMA MoveByStep ==
    ASSUME NEW c \in Conn, NEW r, Step(c, r), conn \in [Conn -> ConnType]
    PROVE  G!Move(c, Stage(r), Objection(r), Answered(r))
<1>1. app' = app /\ server' = server
  BY DEF Step
<1> QED
  BY <1>1, MappingAfter DEF G!Move

(* A step to a record that maps to the same is none in Gateway. *)
LEMMA StutterByStep ==
    ASSUME NEW c \in Conn, NEW r, Step(c, r), conn \in [Conn -> ConnType],
           Stage(r) = Stage(conn[c]), Objection(r) = Objection(conn[c]),
           Answered(r) = Answered(conn[c])
    PROVE  UNCHANGED G!gatewayVars
<1>1. app' = app /\ server' = server
  BY DEF Step
<1>2. StageOf' = StageOf /\ ObjectionOf' = ObjectionOf /\ AnswerOf' = AnswerOf
  BY MappingAfter, Mapping
<1> QED
  BY <1>1, <1>2 DEF G!gatewayVars

(* A connection that carries no request maps to a free one. *)
LEMMA FreshFree ==
    \A r \in {Idle, Closed} : Stage(r) = "free" /\ Objection(r) = FALSE /\ Answered(r) = "none"
BY DEF Idle, Closed, Stage, Objection, Answered

(* What is known of a connection, and of what it maps to. *)
LEMMA MappedRecord ==
    ASSUME RInv, NEW c \in Conn
    PROVE  /\ conn \in [Conn -> ConnType] /\ conn[c] \in ConnType
           /\ StageOf[c] = Stage(conn[c]) /\ ObjectionOf[c] = Objection(conn[c])
           /\ AnswerOf[c] = Answered(conn[c])
           /\ conn[c].pc # "responding" => Answered(conn[c]) = "none"
<1>1. conn \in [Conn -> ConnType] /\ Judged(conn[c])
  BY DEF RInv, HInv
<1> QED
  BY <1>1, Mapping DEF Judged, Answered

Simulated == G!GatewayNext \/ UNCHANGED G!gatewayVars

(* A request taken is an exchange taken; in off mode it is passed on, or   *)
(* fails, at once, and off mode refuses nothing.                           *)
LEMMA ReceiveSimulated ==
    ASSUME RInv, NEW c \in Conn, NEW rq \in Requests,
           ReceiveOff(c, rq) \/ ReceiveBuffered(c, rq)
    PROVE  Simulated
<1> DEFINE off(pc, resp) == [Idle EXCEPT !.req = rq, !.pc = pc, !.resp = resp]
           held == [Idle EXCEPT !.req = rq, !.pc = "reading"]
           o == Objection(held)
<1>1. server # "stopped" /\ conn[c].pc = "idle"
  BY DEF ReceiveOff, ReceiveBuffered
<1>2. StageOf[c] = "free"
  BY <1>1, MappedRecord DEF Stage
<1>3. o \in BOOLEAN
  BY DEF Objection
<1>4. CASE ReceiveBuffered(c, rq)
  <2>1. Stage(held) = "held" /\ Answered(held) = "none"
    BY DEF Stage, Answered, Idle
  <2>2. G!Move(c, "held", o, "none")
    BY <1>4, <2>1, MoveByStep, MappedRecord DEF ReceiveBuffered
  <2> QED
    BY <1>1, <1>2, <1>3, <2>2 DEF Simulated, G!GatewayNext, G!Take
<1>5. CASE ReceiveOff(c, rq)
  <2>1. app.mode # "Block"
    BY <1>5 DEF ReceiveOff, Buffered
  <2>2. \/ Step(c, off("upstream", "none"))
        \/ Step(c, off("responding", "bad_gateway"))
    BY <1>5 DEF ReceiveOff
  <2>3. CASE Step(c, off("upstream", "none"))
    <3> DEFINE r == off("upstream", "none")
    <3>1. Stage(r) = "passed" /\ Answered(r) = "none" /\ Objection(r) \in BOOLEAN
      BY DEF Stage, Answered, Idle, Objection
    <3>2. G!Move(c, "passed", Objection(r), "none")
      BY <2>3, <3>1, MoveByStep, MappedRecord
    <3> QED
      BY <1>1, <1>2, <2>1, <3>1, <3>2 DEF Simulated, G!GatewayNext, G!Take, G!Refused
  <2>4. CASE Step(c, off("responding", "bad_gateway"))
    <3> DEFINE r == off("responding", "bad_gateway")
    <3>1. Stage(r) = "answered" /\ Answered(r) = "failed" /\ Objection(r) \in BOOLEAN
      BY DEF Stage, Answered, Idle, Objection
    <3>2. G!Move(c, "answered", Objection(r), "failed")
      BY <2>4, <3>1, MoveByStep, MappedRecord
    <3> QED
      BY <1>1, <1>2, <2>1, <3>1, <3>2 DEF Simulated, G!GatewayNext, G!Take, G!Refused
  <2> QED
    BY <2>2, <2>3, <2>4
<1> QED
  BY <1>4, <1>5

(* An answer leaves the request, and so the objection to it, as it was.    *)
LEMMA AnswerMoves ==
    ASSUME RInv, NEW c \in Conn, conn[c].pc \in {"reading", "upstream", "rewriting"},
           NEW resp \in {"blocked", "bad_gateway", "streamed", "unchanged", "rewritten"},
           NEW r, Step(c, r), r.pc = "responding", r.resp = resp, r.req = conn[c].req
    PROVE  /\ StageOf[c] = IF conn[c].pc = "reading" THEN "held" ELSE "passed"
           /\ G!Move(c, "answered", ObjectionOf[c],
                     CASE resp = "blocked" -> "refused"
                       [] resp = "bad_gateway" -> "failed"
                       [] resp \in {"streamed", "unchanged", "rewritten"} -> "relayed")
<1>1. Stage(r) = "answered" /\ Objection(r) = Objection(conn[c])
  BY DEF Stage, Objection
<1>2. Answered(r) = CASE resp = "blocked" -> "refused"
                      [] resp = "bad_gateway" -> "failed"
                      [] resp \in {"streamed", "unchanged", "rewritten"} -> "relayed"
  BY DEF Answered
<1>3. StageOf[c] = IF conn[c].pc = "reading" THEN "held" ELSE "passed"
  BY MappedRecord DEF Stage
<1>4. G!Move(c, Stage(r), Objection(r), Answered(r))
  BY MoveByStep, MappedRecord
<1> QED
  BY <1>1, <1>2, <1>3, <1>4, MappedRecord

(* The step that decides: it refuses what block mode objects to, and       *)
(* passes on what it does not.                                             *)
LEMMA InspectSimulated ==
    ASSUME RInv, NEW c \in Conn, Inspect(c)
    PROVE  Simulated
<1> DEFINE rq == conn[c].req
           r(resp) == [conn[c] EXCEPT !.pc = "responding", !.resp = resp]
           up == [conn[c] EXCEPT !.pc = "upstream", !.out = conn[c].got,
                      !.graphql = LooksLikeGraphqlRequest(rq, InspectedBody(app, rq))]
<1>1. conn[c].pc = "reading" /\ conn[c] \in ConnType /\ conn[c].resp = "none"
  BY MappedRecord DEF Inspect, RInv, Judged
<1>2. ObjectionOf[c] = Objection(conn[c]) /\ (Objection(conn[c]) <=> Objects(app, rq))
  BY <1>1, MappedRecord DEF Objection
<1>3. Refuses(rq) <=> G!Refused(ObjectionOf[c])
  BY <1>2, RefusesWhatItObjectsTo DEF G!Refused
<1>4. \A resp \in {"blocked", "bad_gateway"} :
        r(resp).pc = "responding" /\ r(resp).resp = resp /\ r(resp).req = conn[c].req
  BY <1>1 DEF ConnType
<1> HIDE DEF r
<1>5. CASE Refuses(rq)
  <2>1. Step(c, r("blocked"))
    BY <1>5 DEF Inspect, Refuses, Answer, r
  <2>2. StageOf[c] = "held" /\ G!Move(c, "answered", ObjectionOf[c], "refused")
    BY <1>1, <1>4, <2>1, AnswerMoves
  <2> QED
    BY <1>3, <1>5, <2>2 DEF Simulated, G!GatewayNext, G!Refuse
<1>6. CASE ~Refuses(rq) /\ ~rq.uri_ok
  <2>1. Step(c, r("bad_gateway"))
    BY <1>6 DEF Inspect, Refuses, Answer, r
  <2>2. StageOf[c] = "held" /\ G!Move(c, "answered", ObjectionOf[c], "failed")
    BY <1>1, <1>4, <2>1, AnswerMoves
  <2> QED
    BY <2>2 DEF Simulated, G!GatewayNext, G!Fail
<1>7. CASE ~Refuses(rq) /\ rq.uri_ok
  <2>1. Step(c, up)
    BY <1>7 DEF Inspect, Refuses
  <2>2. up.pc = "upstream" /\ up.resp = "none" /\ up.req = rq
    BY <1>1 DEF ConnType
  <2> HIDE DEF up
  <2>3. /\ Stage(up) = "passed" /\ Objection(up) = Objection(conn[c])
        /\ Answered(up) = "none"
    BY <1>1, <2>2 DEF Stage, Objection, Answered
  <2>4. G!Move(c, "passed", ObjectionOf[c], "none")
    BY <1>2, <2>1, <2>3, MoveByStep, MappedRecord
  <2>5. StageOf[c] = "held"
    BY <1>1, MappedRecord DEF Stage
  <2> QED
    BY <1>3, <1>7, <2>4, <2>5 DEF Simulated, G!GatewayNext, G!Pass
<1> QED
  BY <1>5, <1>6, <1>7

(* Bytes that come in change neither stage, objection nor answer.          *)
LEMMA ReadingSimulated ==
    ASSUME RInv, NEW c \in Conn, ReadBody(c) \/ UpstreamReceive(c) \/ ReadReply(c)
    PROVE  Simulated
<1> DEFINE r1 == [conn[c] EXCEPT !.got = @ + 1]
           r2 == [conn[c] EXCEPT !.upGot = @ + 1]
           r3 == [conn[c] EXCEPT !.got = @ + 1, !.upGot = @ + 1]
           r4 == [conn[c] EXCEPT !.rbuf = @ + 1]
<1>1. \/ Step(c, r1) \/ Step(c, r2) \/ Step(c, r3) \/ Step(c, r4)
  BY DEF ReadBody, UpstreamReceive, ReadReply
<1>2. conn[c] \in ConnType
  BY MappedRecord
<1>3. \A r \in {r1, r2, r3, r4} :
        r.pc = conn[c].pc /\ r.resp = conn[c].resp /\ r.req = conn[c].req
  BY <1>2 DEF ConnType
<1> HIDE DEF r1, r2, r3, r4
<1>4. \A r \in {r1, r2, r3, r4} :
        /\ Stage(r) = Stage(conn[c]) /\ Objection(r) = Objection(conn[c])
        /\ Answered(r) = Answered(conn[c])
  BY <1>3 DEF Stage, Objection, Answered
<1> QED
  BY <1>1, <1>4, StutterByStep, MappedRecord DEF Simulated

(* A failure before the response is passed on. *)
LEMMA FailSimulated ==
    ASSUME RInv, NEW c \in Conn, ClientBodyError(c) \/ UpstreamFail(c) \/ ReplyFail(c)
    PROVE  Simulated
<1> DEFINE r == [conn[c] EXCEPT !.pc = "responding", !.resp = "bad_gateway"]
<1>1. Step(c, r) /\ conn[c].pc \in {"reading", "upstream", "rewriting"}
  BY DEF ClientBodyError, UpstreamFail, ReplyFail, Answer
<1>2. r.pc = "responding" /\ r.resp = "bad_gateway" /\ r.req = conn[c].req
  BY MappedRecord DEF ConnType
<1> HIDE DEF r
<1>3. StageOf[c] \in {"held", "passed"} /\ G!Move(c, "answered", ObjectionOf[c], "failed")
  BY <1>1, <1>2, AnswerMoves
<1> QED
  BY <1>3 DEF Simulated, G!GatewayNext, G!Fail

(* A response passed on, at its head or when it has been read. *)
LEMMA ReplySimulated ==
    ASSUME RInv, NEW c \in Conn,
           (\E rp \in Replies : UpstreamReply(c, rp)) \/ RewriteReply(c)
    PROVE  Simulated
<1>1. conn[c] \in ConnType
  BY MappedRecord
<1>2. CASE \E resp \in {"unchanged", "rewritten"} : Answer(c, resp) /\ conn[c].pc = "rewriting"
  <2>1. PICK resp \in {"unchanged", "rewritten"} : Answer(c, resp) /\ conn[c].pc = "rewriting"
    BY <1>2
  <2> DEFINE r == [conn[c] EXCEPT !.pc = "responding", !.resp = resp]
  <2>2. Step(c, r) /\ r.pc = "responding" /\ r.resp = resp /\ r.req = conn[c].req
    BY <1>1, <2>1 DEF Answer, ConnType
  <2> HIDE DEF r
  <2>3. StageOf[c] = "passed" /\ G!Move(c, "answered", ObjectionOf[c], "relayed")
    BY <2>1, <2>2, AnswerMoves
  <2> QED
    BY <2>3 DEF Simulated, G!GatewayNext, G!Relay
<1>3. ASSUME NEW rp \in Replies, UpstreamReply(c, rp) PROVE Simulated
  <2> DEFINE r == [conn[c] EXCEPT !.pc = "rewriting", !.reply = rp]
             s == [conn[c] EXCEPT !.pc = "responding", !.reply = rp, !.resp = "streamed"]
  <2>1. (Step(c, r) \/ Step(c, s)) /\ conn[c].pc = "upstream"
    BY <1>3 DEF UpstreamReply
  <2>2. /\ r.pc = "rewriting" /\ r.resp = conn[c].resp /\ r.req = conn[c].req
        /\ s.pc = "responding" /\ s.resp = "streamed" /\ s.req = conn[c].req
    BY <1>1 DEF ConnType
  <2> HIDE DEF r, s
  <2>3. CASE Step(c, r)
    <3>1. /\ Stage(r) = Stage(conn[c]) /\ Objection(r) = Objection(conn[c])
          /\ Answered(r) = Answered(conn[c])
      BY <2>1, <2>2 DEF Stage, Objection, Answered
    <3> QED
      BY <2>3, <3>1, StutterByStep, MappedRecord DEF Simulated
  <2>4. CASE Step(c, s)
    <3>1. StageOf[c] = "passed" /\ G!Move(c, "answered", ObjectionOf[c], "relayed")
      BY <2>1, <2>2, <2>4, AnswerMoves
    <3> QED
      BY <3>1 DEF Simulated, G!GatewayNext, G!Relay
  <2> QED
    BY <2>1, <2>3, <2>4
<1>4. RewriteReply(c) => \E resp \in {"unchanged", "rewritten"} :
                            Answer(c, resp) /\ conn[c].pc = "rewriting"
  BY DEF RewriteReply
<1> QED
  BY <1>2, <1>3, <1>4

(* A connection that ends its exchange, however, is free again. *)
LEMMA ReleaseSimulated ==
    ASSUME RInv, NEW c \in Conn, NEW r \in {Idle, Closed}, Step(c, r)
    PROVE  Simulated
<1>1. G!Move(c, "free", FALSE, "none")
  BY FreshFree, MoveByStep, MappedRecord
<1>2. CASE StageOf[c] # "free"
  BY <1>1, <1>2 DEF Simulated, G!GatewayNext, G!Release
<1>3. CASE StageOf[c] = "free"
  <2>1. conn[c].pc \in {"closed", "idle"}
    BY <1>3, MappedRecord DEF Stage, ConnType
  <2>2. Stage(conn[c]) = "free" /\ Objection(conn[c]) = FALSE /\ Answered(conn[c]) = "none"
    BY <2>1, MappedRecord DEF Stage, Objection
  <2> QED
    BY <2>2, FreshFree, StutterByStep, MappedRecord DEF Simulated
<1> QED
  BY <1>2, <1>3

(* The shutdown: only its last step shows, with nothing in hand.           *)
LEMMA ShutdownSimulated ==
    ASSUME RInv, CtrlC \/ Exit \/ UNCHANGED vars
    PROVE  Simulated
<1>1. app' = app /\ conn' = conn
  BY DEF CtrlC, Exit, vars
<1>2. StageOf' = StageOf /\ ObjectionOf' = ObjectionOf /\ AnswerOf' = AnswerOf
  BY <1>1 DEF StageOf, ObjectionOf, AnswerOf, Objects, BlockedPath, Detected,
     MatchedWirefilter, ModsecIntervention, InspectedBody, BodyTooLarge
<1>3. CASE CtrlC \/ UNCHANGED vars
  BY <1>1, <1>2, <1>3 DEF CtrlC, vars, Simulated, G!gatewayVars
<1>4. CASE Exit
  <2>1. \A c \in Conn : StageOf[c] = "free"
    BY <1>4, MappedRecord DEF Exit, Stage
  <2> QED
    BY <1>1, <1>2, <1>4, <2>1 DEF Exit, Simulated, G!GatewayNext, G!Stop
<1> QED
  BY <1>3, <1>4

(* Every step of the handlers is one of Gateway's, or none.                *)
LEMMA NextSimulated == RInv /\ [Next]_vars => Simulated
<1> SUFFICES ASSUME RInv, [Next]_vars PROVE Simulated
  OBVIOUS
<1>1. ASSUME NEW c \in Conn, Connect(c) \/ FinishResponse(c) \/ RelayFail(c)
                               \/ Disconnect(c) \/ CloseIdle(c)
      PROVE  Simulated
  <2>1. Step(c, Idle) \/ Step(c, Closed)
    BY <1>1 DEF Connect, FinishResponse, RelayFail, Disconnect, CloseIdle
  <2> QED
    BY <2>1, ReleaseSimulated
<1> QED
  BY <1>1, ReceiveSimulated, ReadingSimulated, InspectSimulated, FailSimulated,
     ReplySimulated, ShutdownSimulated DEF Next

(* A proxy that starts is a gateway with nothing in hand.                  *)
LEMMA InitMapped == Init => G!GatewayInit
<1> SUFFICES ASSUME Init PROVE G!GatewayInit
  OBVIOUS
<1>1. \A c \in Conn : conn[c] = Closed
  BY DEF Init
<1>2. /\ StageOf = [c \in Conn |-> "free"] /\ ObjectionOf = [c \in Conn |-> FALSE]
      /\ AnswerOf = [c \in Conn |-> "none"]
  BY <1>1, Mapping, FreshFree
<1> QED
  BY <1>2 DEF Init, G!GatewayInit

(* Every behaviour of the handlers keeps the promise of module Gateway, a  *)
(* shutdown and all failures included.  (proxy.rs:425-610, 942-975)        *)
THEOREM Implements == Spec => GatewayPromise
<1>1. RInv /\ [Next]_vars => [G!GatewayNext]_(G!gatewayVars)
  BY NextSimulated DEF Simulated
<1> QED
  BY <1>1, InitMapped, ReplyInvariance, PTL DEF Spec, GatewayPromise, G!GatewaySpec
=============================================================================
