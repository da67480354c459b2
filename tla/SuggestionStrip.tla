-------------------------- MODULE SuggestionStrip --------------------------
(***************************************************************************)
(* strip_graphql_field_suggestions of graphql_security.rs, as operators.   *)
(*                                                                         *)
(*   a message   a sequence of pieces: "sp" a space, "nl" other white space*)
(*               "Did" the words Did you mean, "did" the words did you     *)
(*               mean, "text" anything else;                               *)
(*   a body      [kind, errors]   kind: "silent", the bytes hold no        *)
(*               "errors" in quotes; "malformed", they are no JSON;        *)
(*               "array" or "object", what the JSON is;                    *)
(*               errors: of an object the messages of its errors array, of *)
(*               an array those of all its elements; None for a message    *)
(*               that is missing or no string, None when there is no such  *)
(*               array.                                                    *)
(***************************************************************************)
EXTENDS GraphqlSecurity, Integers

Pieces == {"sp", "nl", "Did", "did", "text"}

Messages == Seq(Pieces)

SuggestionAt(msg) == {i \in 1..(Len(msg) - 1) : msg[i] = "sp" /\ msg[i + 1] = "Did"}
LowercaseAt(msg)  == {i \in DOMAIN msg : msg[i] = "did"}

\* A slip: the last suggestion is looked for.
CutAtLast(msg) ==
    IF SuggestionAt(msg) # {} THEN Max(SuggestionAt(msg))
    ELSE IF LowercaseAt(msg) # {} THEN Max(LowercaseAt(msg))
    ELSE 0

(* Where a message is cut: before the first suggestion, else before the    *)
(* first one in lower case; 0 when there is nothing to cut.                *)
CutAt(msg) ==
    IF SuggestionAt(msg) # {} THEN Min(SuggestionAt(msg))
    ELSE IF LowercaseAt(msg) # {} THEN Min(LowercaseAt(msg))
    ELSE 0

White(msg, i) == msg[i] \in {"sp", "nl"}

TrimEnd(msg) ==
    SubSeq(msg, 1, Max({0} \union {i \in DOMAIN msg : ~White(msg, i)}))

StripMessage(msg) ==
    IF msg = None \/ CutAt(msg) = 0 THEN msg
    ELSE TrimEnd(SubSeq(msg, 1, CutAt(msg) - 1))

(* The body with its messages cut, None when nothing is to be changed. *)
StripGraphqlFieldSuggestions(body) ==
    IF /\ body.kind = "object" /\ body.errors # None
       /\ \E i \in DOMAIN body.errors :
             body.errors[i] # None /\ CutAt(body.errors[i]) # 0
    THEN [body EXCEPT !.errors = [i \in DOMAIN body.errors |-> StripMessage(body.errors[i])]]
    ELSE None

(* A suggestion, in either case, starts at k or before.                    *)
HintUpTo(msg, k) == \E h \in SuggestionAt(msg) \union LowercaseAt(msg) : h <= k
=============================================================================
