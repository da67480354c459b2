-------------------------- MODULE MCHandleRequest --------------------------
(***************************************************************************)
(* Small instances of HandleRequest: every combination of the settings the *)
(* handler branches on, and one request for each way a request can be      *)
(* looked at.  Bodies and responses are at most two units, and the limits  *)
(* lie on both sides of them.                                              *)
(***************************************************************************)
EXTENDS HandleRequest

\* Documents and bodies.
Good == [bytes |-> 1, intro |-> FALSE, parses |-> TRUE, probe |-> FALSE,
         depth |-> 1, aliases |-> 0, directives |-> 0, cost |-> 1]
Deep  == [Good EXCEPT !.bytes = 2, !.depth = 3]
Junk  == [Good EXCEPT !.parses = FALSE, !.depth = 0]
Probe == [Good EXCEPT !.probe = TRUE]

Empty == [empty |-> TRUE, json |-> "invalid", query |-> None, text |-> None,
          vars |-> None, intro |-> FALSE, ms |-> FALSE]
Text(doc)   == [Empty EXCEPT !.empty = FALSE, !.text = doc]
Object(doc) == [Text(Junk) EXCEPT !.json = "value", !.query = doc]

\* Requests.
Post(ct, view, n) ==
    [method |-> "POST", path |-> "graphql", query |-> None, ct |-> ct,
     allow_header |-> FALSE, wf |-> FALSE, ms |-> "clear", uri_ok |-> TRUE,
     len |-> n, view |-> view]
Get(doc) ==
    [Post({}, [n \in 0..0 |-> Empty], 0) EXCEPT
        !.method = "GET",
        !.query = [intro |-> FALSE, param |-> doc, blob |-> None,
                   decoded |-> Junk, vars |-> None]]

\* A JSON request, invalid when cut short.
PostJson == Post({"json"}, [n \in 0..2 |-> IF n = 0 THEN Empty
                               ELSE IF n = 1 THEN Text(Junk) ELSE Object(Good)], 2)
\* A document whose first half passes every check and whose whole does not.
PostDeep == Post({"graphql"}, [n \in 0..2 |-> IF n = 0 THEN Empty
                               ELSE IF n = 1 THEN Text(Good) ELSE Text(Deep)], 2)
\* Bytes that are no text; a ModSecurity body rule matches their second half.
PostRaw  == Post({}, [n \in 0..2 |-> IF n = 0 THEN Empty
                               ELSE [Text(None) EXCEPT !.ms = n = 2]], 2)
PostSmall == Post({"json"}, [n \in 0..1 |-> IF n = 0 THEN Empty ELSE Object(Good)], 1)

AllRequests ==
    {PostJson, PostDeep, PostRaw, PostSmall, Get(Good), Get(Probe),
     [Get(Probe) EXCEPT !.query = None, !.path = "other"],
     [PostSmall EXCEPT !.wf = TRUE],
     [PostSmall EXCEPT !.ms = "deny"],
     [PostSmall EXCEPT !.ms = "error"],
     [PostDeep EXCEPT !.ms = "error"],
     [PostSmall EXCEPT !.ms = "error", !.wf = TRUE],
     [PostSmall EXCEPT !.uri_ok = FALSE]}

\* Nothing wrong, a body that is too large, a match next to a detector that
\* fails, and a path that block mode refuses before anything is looked at and
\* that the other modes cannot pass on.
FewRequests ==
    {PostSmall, PostDeep,
     [PostSmall EXCEPT !.wf = TRUE, !.ms = "error"],
     [PostSmall EXCEPT !.path = "other", !.uri_ok = FALSE]}

\* Responses.  Which of them suggest something matters to the handler, what
\* they suggest to the stripping: all messages of up to three pieces, in all
\* the places a message can stand, come in a response that is small enough.
Body(kind, errors) == [kind |-> kind, errors |-> errors]
Plain == Body("silent", None)
Hinting == Body("object", << << "text", "sp", "Did" >> >>)

Reply(json, announced, n, body) ==
    [json |-> json, content_length |-> IF announced THEN n ELSE None, len |-> n, body |-> body]

ShortMessages == UNION {[1..n -> {"sp", "Did", "did", "text"}] : n \in 0..3}

Bodies ==
    {Body("object", << msg >>) : msg \in ShortMessages}
      \union {Body("object", << None, << "did" >>, << "text", "nl", "sp", "Did", "text" >> >>),
              Body("object", << << "text" >>, None, << "sp", "Did", "text", "sp", "Did" >> >>),
              Body("object", None), Body("malformed", None),
              Body("array", << << "text", "sp", "Did" >> >>)}

AllReplies ==
    {Reply(json, announced, n, Plain) : json, announced \in BOOLEAN, n \in 0..2}
      \union {Reply(TRUE, announced, n, Hinting) : announced \in BOOLEAN, n \in 1..2}
      \union {Reply(TRUE, TRUE, 1, body) : body \in Bodies}
      \union {[Reply(TRUE, TRUE, 0, Plain) EXCEPT !.content_length = n] : n \in 1..2}

FewReplies ==
    {Reply(TRUE, FALSE, 1, Hinting), Reply(TRUE, FALSE, 2, Hinting), Reply(TRUE, TRUE, 2, Hinting)}

\* Configurations.
Gql(enabled, paths, strip) ==
    [enabled |-> enabled, block_non_graphql_paths |-> paths,
     block_introspection |-> TRUE, allow_introspection_header |-> FALSE,
     allow_get |-> FALSE, block_invalid_query |-> TRUE, block_batch |-> TRUE,
     max_query_bytes |-> None, max_depth |-> 2, max_aliases |-> None,
     max_directives |-> None, max_cost |-> None, max_variables_bytes |-> None,
     max_variables_depth |-> None, max_variables_keys |-> None,
     max_variables_array_len |-> None,
     block_field_suggestions |-> strip, max_response_bytes |-> 1]

Apps(modes, sections) ==
    [mode : modes, wirefilter : {"none", "valid", "invalid"}, modsec : BOOLEAN,
     max_body_bytes : {1, 2}, reject_oversized_body : BOOLEAN,
     graphql_sec : sections]

AllApps ==
    Apps({"Off", "Audit", "Block"},
         {Gql(TRUE, TRUE, TRUE), Gql(TRUE, FALSE, FALSE), Gql(FALSE, TRUE, TRUE)})

FewApps ==
    {a \in Apps({"Off", "Audit", "Block"}, {Gql(TRUE, TRUE, TRUE)}) :
        /\ a.wirefilter \in {"valid"} \union IF a.mode = "Block" THEN {"invalid"} ELSE {}
        /\ a.modsec /\ a.max_body_bytes = 1 /\ a.reject_oversized_body}
=============================================================================
