----------------------------- MODULE MCStartup -----------------------------
(***************************************************************************)
(* Instances of Startup: disks that are sound and disks that are wrong in  *)
(* one way each, in the file and in the rules, any of which may turn into  *)
(* any other between two reads; command lines that give and do not give    *)
(* what the file may give.                                                 *)
(***************************************************************************)
EXTENDS Startup, TLC

MCPlain == {"reject_oversized_body", "block_introspection"}
MCPlainDefault == ("reject_oversized_body" :> TRUE) @@ ("block_introspection" :> FALSE)

\* A path, a glob over both files, a glob that is not well formed, and a
\* path whose name looks like a glob and matches nothing.
PathA   == [wellformed |-> TRUE, matches |-> {"a"}, literal |-> "a"]
Both    == [wellformed |-> TRUE, matches |-> {"a", "b"}, literal |-> "*"]
Broken  == [wellformed |-> FALSE, matches |-> {}, literal |-> "b"]
Bracket == [wellformed |-> TRUE, matches |-> {}, literal |-> "b"]

MCPatterns == {PathA, Both, Broken, Bracket}

Minimal == ("upstream" :> "http")

\* Tables that leave the choice of rules to the command line or make it.
Ruled ==
    {Minimal,
     Minimal @@ ("modsec_rules" :> << Both >>),
     Minimal @@ ("modsec_rules" :> << PathA, Bracket >>)
             @@ ("mode" :> "blok") @@ ("reject_oversized_body" :> FALSE)}

Unruled ==
    {Minimal @@ ("mode" :> "Audit") @@ ("worker_threads" :> 4) @@ ("modsec_rules" :> << >>)
             @@ ("wirefilter" :> "unparsable"),
     Minimal @@ ("worker_threads" :> 0),
     ("listen" :> "a name") @@ ("upstream" :> "https"),
     ("upstream" :> "ftp") @@ ("block_introspection" :> TRUE),
     << >>}

Rules(a, b) == ("a" :> a) @@ ("b" :> b)
Sets == {Rules("rules", "rules"), Rules("rules", None), Rules(None, "rules"),
         Rules(None, None), Rules("uncompilable", "rules"), Rules("rules", "unreadable")}

Whole == Rules("rules", "rules")

MCDisks ==
    [file : {"sound"}, table : Ruled, rules : Sets, barred : {{}}]
      \union [file : {"sound"}, table : Ruled, rules : {Whole}, barred : {{Both}}]
      \union [file : {"sound"}, table : Unruled, rules : {Whole}, barred : {{}}]
      \union [file : {"missing", "malformed"}, table : {<< >>}, rules : {Whole}, barred : {{}}]

Cli(config, flags, rules) == [config |-> config, flags |-> flags, modsec_rules |-> rules]
MCClis ==
    {Cli(TRUE, << >>, << >>),
     Cli(TRUE, ("mode" :> "Off") @@ ("block_introspection" :> FALSE)
               @@ ("reject_oversized_body" :> TRUE), << Bracket >>),
     Cli(TRUE, ("worker_threads" :> 1) @@ ("listen" :> "0.0.0.0:80"), << PathA, Broken >>),
     Cli(FALSE, << >>, << >>),
     Cli(FALSE, ("upstream" :> "https"), << PathA, Both >>)}
=============================================================================
