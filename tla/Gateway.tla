------------------------------ MODULE Gateway ------------------------------
(***************************************************************************)
(* What a filtering reverse proxy promises each connection, without saying *)
(* how: an exchange is taken, judged once, passed to the upstream at most  *)
(* once, and given exactly one answer.  An exchange the proxy objects to   *)
(* is refused and never passed when the proxy blocks, and never refused    *)
(* when it does not.  The proxy stops only with nothing in its hands.      *)
(* README.md:8-25 of the repository is the prose this states.             *)
(***************************************************************************)
CONSTANT Conn

VARIABLES
    blocking,    \* the proxy refuses what it objects to
    stopped,     \* the process has exited
    stage,       \* per connection: "free", "held", "passed" or "answered"
    objection,   \* per connection: the verdict on the exchange it carries
    answer       \* per connection: "none", "refused", "failed" or "relayed"

gatewayVars == <<blocking, stopped, stage, objection, answer>>

GatewayInit ==
    /\ blocking \in BOOLEAN
    /\ stopped = FALSE
    /\ stage = [c \in Conn |-> "free"]
    /\ objection = [c \in Conn |-> FALSE]
    /\ answer = [c \in Conn |-> "none"]

Refused(o) == blocking /\ o

Move(c, s, o, a) ==
    /\ stage' = [stage EXCEPT ![c] = s]
    /\ objection' = [objection EXCEPT ![c] = o]
    /\ answer' = [answer EXCEPT ![c] = a]
    /\ UNCHANGED <<blocking, stopped>>

(* An exchange comes in; it may be passed on, or fail, at once. *)
Take(c, o) ==
    /\ ~stopped /\ stage[c] = "free"
    /\ \/ Move(c, "held", o, "none")
       \/ ~Refused(o) /\ Move(c, "passed", o, "none")
       \/ ~Refused(o) /\ Move(c, "answered", o, "failed")

Pass(c) ==
    /\ stage[c] = "held" /\ ~Refused(objection[c])
    /\ Move(c, "passed", objection[c], "none")

Refuse(c) ==
    /\ stage[c] = "held" /\ Refused(objection[c])
    /\ Move(c, "answered", objection[c], "refused")

Fail(c) ==
    /\ stage[c] \in {"held", "passed"}
    /\ Move(c, "answered", objection[c], "failed")

Relay(c) ==
    /\ stage[c] = "passed"
    /\ Move(c, "answered", objection[c], "relayed")

(* The exchange is over: answered, or abandoned by the client. *)
Release(c) ==
    /\ stage[c] # "free"
    /\ Move(c, "free", FALSE, "none")

Stop ==
    /\ ~stopped /\ \A c \in Conn : stage[c] = "free"
    /\ stopped' = TRUE
    /\ UNCHANGED <<blocking, stage, objection, answer>>

GatewayNext ==
    \/ \E c \in Conn :
          \/ \E o \in BOOLEAN : Take(c, o)
          \/ Pass(c) \/ Refuse(c) \/ Fail(c) \/ Relay(c) \/ Release(c)
    \/ Stop

GatewaySpec == GatewayInit /\ [][GatewayNext]_gatewayVars
=============================================================================
