---------------------------- MODULE MCTokenScan ----------------------------
(***************************************************************************)
(* All buffers of up to six bytes over an underscore, two letters, a byte  *)
(* the scan lists and one it does not although no identifier holds it (the *)
(* one that begins a directive), for two tokens of the shape of "__schema" *)
(* and "__type".                                                           *)
(***************************************************************************)
EXTENDS TokenScan

MaxLen == 6

MCByte    == {"_", "s", "t", " ", "@"}
MCIdent   == {"_", "s", "t"}
MCFollows == {" "}
MCTokens  == << << "_", "_", "s" >>, << "_", "t" >> >>
MCHaystacks == UNION {[1..n -> MCByte] : n \in 0..MaxLen}
=============================================================================
