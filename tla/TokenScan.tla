----------------------------- MODULE TokenScan -----------------------------
(***************************************************************************)
(* contains_introspection_bytes of graphql_security.rs: has_token for one  *)
(* token after another, each a loop over the occurrences memmem finds from *)
(* `start' on.  A byte is a model value; what the scan knows of it is      *)
(* whether it may stand in an identifier and whether it is one of those    *)
(* is_next_boundary lists.                                                 *)
(* Positions count from 1, as sequences do.                                *)
(***************************************************************************)
EXTENDS Naturals, Sequences

CONSTANTS
    Byte,          \* byte values
    Ident,         \* those of is_ident_byte
    Follows,       \* those is_next_boundary accepts
    Tokens,        \* the tokens looked for, in order
    Haystacks      \* the buffers scanned

At(h, i, token) ==
    /\ i + Len(token) <= Len(h) + 1
    /\ \A j \in 1..Len(token) : h[i + j - 1] = token[j]

(* No proper end of a token is also its beginning: "__schema" and "__type" *)
(* end in a letter they do not otherwise hold.                             *)
BorderFree(token) ==
    \A d \in 1..Len(token) - 1 :
        \E j \in 1..Len(token) - d : token[j + d] # token[j]

ASSUME BytesAssumption ==
    /\ Ident \subseteq Byte /\ Follows \subseteq Byte /\ Follows \cap Ident = {}
    /\ Haystacks \subseteq Seq(Byte)

ASSUME TokensAssumption ==
    /\ Tokens \in Seq(Seq(Ident))
    /\ \A k \in 1..Len(Tokens) : Tokens[k] # << >> /\ BorderFree(Tokens[k])

VARIABLES
    haystack,      \* the buffer
    k,             \* index of the token being looked for
    start,         \* where the next search begins
    verdict        \* "scanning", "found" or "absent"

vars == <<haystack, k, start, verdict>>

Init ==
    /\ haystack \in Haystacks
    /\ k = 1
    /\ start = 1
    /\ verdict = "scanning"

Token == Tokens[k]

(* memmem::find on the rest of the buffer: its first occurrence. *)
Finds(at) ==
    /\ at \in start..Len(haystack) /\ At(haystack, at, Token)
    /\ \A i \in start..at - 1 : ~At(haystack, i, Token)

\* A slip: the byte before is looked for in the rest of the buffer only.
BoundedInRest(at) ==
    /\ at > start => haystack[at - 1] \notin Ident
    /\ at + Len(Token) <= Len(haystack) => haystack[at + Len(Token)] \in Follows

(* is_prev_boundary && is_next_boundary. *)
Bounded(at) ==
    /\ at > 1 => haystack[at - 1] \notin Ident
    /\ at + Len(Token) <= Len(haystack) => haystack[at + Len(Token)] \in Follows

Hit ==
    /\ verdict = "scanning" /\ k <= Len(Tokens)
    /\ \E at \in 1..Len(haystack) : Finds(at) /\ Bounded(at)
    /\ verdict' = "found"
    /\ UNCHANGED <<haystack, k, start>>

\* Slips: the search starts again one byte too far, or at the occurrence it
\* has just left.
SkipOnePast ==
    /\ verdict = "scanning" /\ k <= Len(Tokens)
    /\ \E at \in 1..Len(haystack) :
          Finds(at) /\ ~Bounded(at) /\ start' = at + Len(Token) + 1
    /\ UNCHANGED <<haystack, k, verdict>>

SkipNothing ==
    /\ verdict = "scanning" /\ k <= Len(Tokens)
    /\ \E at \in 1..Len(haystack) : Finds(at) /\ ~Bounded(at) /\ start' = at
    /\ UNCHANGED <<haystack, k, verdict>>

(* An occurrence inside a longer word: the search goes on past it. *)
Skip ==
    /\ verdict = "scanning" /\ k <= Len(Tokens)
    /\ \E at \in 1..Len(haystack) :
          Finds(at) /\ ~Bounded(at) /\ start' = at + Len(Token)
    /\ UNCHANGED <<haystack, k, verdict>>

(* No occurrence is left: the other token, from the start. *)
Exhaust ==
    /\ verdict = "scanning" /\ k <= Len(Tokens)
    /\ \A at \in start..Len(haystack) : ~At(haystack, at, Token)
    /\ k' = k + 1 /\ start' = 1
    /\ UNCHANGED <<haystack, verdict>>

Conclude ==
    /\ verdict = "scanning" /\ k = Len(Tokens) + 1
    /\ verdict' = "absent"
    /\ UNCHANGED <<haystack, k, start>>

Next == Hit \/ Skip \/ Exhaust \/ Conclude

Spec == Init /\ [][Next]_vars

FairSpec == Spec /\ WF_vars(Next)

-----------------------------------------------------------------------------
(* Type invariant: the slice haystack[start..] always exists.              *)
(* (graphql_security.rs:86-87)                                             *)
TypeOK ==
    /\ haystack \in Haystacks
    /\ k \in 1..Len(Tokens) + 1
    /\ start \in 1..Len(haystack) + 1
    /\ verdict \in {"scanning", "found", "absent"}

(* A token stands at a place as a word of its own: what is next to it, if  *)
(* anything is, may not stand in an identifier.                            *)
WordAt(h, i, token) ==
    /\ At(h, i, token)
    /\ i = 1 \/ h[i - 1] \notin Ident
    /\ i + Len(token) = Len(h) + 1 \/ h[i + Len(token)] \notin Ident

(* ... and what comes after it, if anything does, the scan knows. *)
ListedWordAt(h, i, token) ==
    /\ WordAt(h, i, token)
    /\ i + Len(token) = Len(h) + 1 \/ h[i + Len(token)] \in Follows

HasWord(h, token) == \E i \in 1..Len(h) : WordAt(h, i, token)

HasListedWord(h, token) == \E i \in 1..Len(h) : ListedWordAt(h, i, token)

(* The scan finds a token exactly where it stands as a word of its own and *)
(* one of the bytes it knows, or nothing, comes after, although it only    *)
(* looks at occurrences that do not overlap the ones before.  Words with   *)
(* another byte after them are the subject of EveryWordIsFound.            *)
(* (graphql_security.rs:74-117)                                            *)
FindsListedWords ==
    verdict # "scanning" =>
        (verdict = "found" <=>
            \E n \in 1..Len(Tokens) : HasListedWord(haystack, Tokens[n]))

(* A buffer the scan finds nothing in holds no token as a word of its own, *)
(* as the comment asks: the bytes before and after a token that counts     *)
(* "must be a non-identifier boundary (or start/end of buffer)".           *)
(* (graphql_security.rs:75-79)                                             *)
EveryWordIsFound ==
    verdict = "absent" =>
        \A n \in 1..Len(Tokens) : ~HasWord(haystack, Tokens[n])

(* Every scan ends.  (graphql_security.rs:87-112)                          *)
ScanEnds == <>(verdict # "scanning")
=============================================================================
