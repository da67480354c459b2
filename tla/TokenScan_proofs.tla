-------------------------- MODULE TokenScan_proofs --------------------------
(***************************************************************************)
(* What TokenScan finds, for every buffer and all tokens without a border: *)
(* the scan skips no word followed by a byte it knows, because an          *)
(* occurrence that overlaps the one it leaves would make a proper end of   *)
(* the token its beginning.                                                *)
(***************************************************************************)
EXTENDS TokenScan, TLAPS

(* Two different occurrences of a token are at least its length apart.     *)
(* (graphql_security.rs:112, start = at + token.len())                     *)
LEMMA NoOverlap ==
    ASSUME NEW token, Len(token) \in Nat, BorderFree(token), NEW h,
           NEW at \in Nat, NEW i \in at + 1..at + Len(token) - 1, At(h, at, token)
    PROVE  ~At(h, i, token)
<1> SUFFICES ASSUME At(h, i, token) PROVE FALSE
  OBVIOUS
<1>1. i - at \in 1..Len(token) - 1
  OBVIOUS
<1>2. PICK j \in 1..Len(token) - (i - at) : token[j + (i - at)] # token[j]
  BY <1>1 DEF BorderFree
<1>3. j \in 1..Len(token) /\ j + (i - at) \in 1..Len(token)
  BY <1>1
<1>4. h[i + j - 1] = token[j]
  BY <1>3 DEF At
<1>5. h[at + (j + (i - at)) - 1] = token[j + (i - at)]
  BY <1>3 DEF At
<1>6. at + (j + (i - at)) - 1 = i + j - 1
  BY <1>3
<1> QED
  BY <1>2, <1>4, <1>5, <1>6

(* The tokens before the k-th, and the places before `start', are done.    *)
Past ==
    /\ \A n \in 1..k - 1 : ~HasListedWord(haystack, Tokens[n])
    /\ k <= Len(Tokens) => \A i \in 1..start - 1 : ~ListedWordAt(haystack, i, Token)

Inv == TypeOK /\ Past /\ FindsListedWords

(* What is known of the token being looked for. *)
LEMMA TokenTyped ==
    ASSUME TypeOK, k <= Len(Tokens)
    PROVE  /\ Len(haystack) \in Nat /\ Len(Tokens) \in Nat /\ k \in 1..Len(Tokens)
           /\ Len(Token) \in Nat \ {0} /\ BorderFree(Token)
<1>1. haystack \in Seq(Byte) /\ Len(Tokens) \in Nat
  BY BytesAssumption, TokensAssumption DEF TypeOK
<1>2. k \in 1..Len(Tokens)
  BY <1>1 DEF TypeOK
<1>3. Tokens[k] \in Seq(Ident) /\ Tokens[k] # << >> /\ BorderFree(Tokens[k])
  BY <1>2, TokensAssumption
<1> QED
  BY <1>1, <1>2, <1>3 DEF Token

(* A bounded occurrence is a word with a byte the scan knows after it, and *)
(* one that is not bounded is none.  (graphql_security.rs:95-108)          *)
LEMMA BoundedIsWord ==
    ASSUME TypeOK, k <= Len(Tokens), NEW at \in 1..Len(haystack), Finds(at)
    PROVE  Bounded(at) <=> ListedWordAt(haystack, at, Token)
<1>1. Len(haystack) \in Nat /\ Len(Token) \in Nat
  BY TokenTyped
<1>2. At(haystack, at, Token) /\ at + Len(Token) <= Len(haystack) + 1
  BY DEF Finds, At
<1>3. (at > 1 => haystack[at - 1] \notin Ident) <=> (at = 1 \/ haystack[at - 1] \notin Ident)
  BY <1>1
<1>4. at + Len(Token) <= Len(haystack) <=> at + Len(Token) # Len(haystack) + 1
  BY <1>1, <1>2
<1> QED
  BY <1>1, <1>2, <1>3, <1>4, BytesAssumption DEF Bounded, ListedWordAt, WordAt

(* Hit reports a word. *)
LEMMA HitKeepsInv == ASSUME Inv, Hit PROVE Inv'
<1>1. /\ TypeOK /\ Past /\ UNCHANGED <<haystack, k, start>>
      /\ verdict' = "found" /\ k <= Len(Tokens)
  BY DEF Inv, Hit
<1>2. PICK at \in 1..Len(haystack) : Finds(at) /\ Bounded(at)
  BY DEF Hit
<1>3. HasListedWord(haystack, Tokens[k]) /\ k \in 1..Len(Tokens)
  BY <1>1, <1>2, BoundedIsWord, TokenTyped DEF HasListedWord, Token
<1>4. FindsListedWords'
  BY <1>1, <1>3 DEF FindsListedWords
<1>5. TypeOK'
  BY <1>1 DEF TypeOK
<1>6. Past'
  BY <1>1 DEF Past, Token
<1> QED
  BY <1>4, <1>5, <1>6 DEF Inv

(* Skip passes an occurrence that is no word, and none overlaps it. *)
LEMMA SkipKeepsInv == ASSUME Inv, Skip PROVE Inv'
<1>1. /\ TypeOK /\ Past /\ UNCHANGED <<haystack, k, verdict>>
      /\ verdict = "scanning" /\ k <= Len(Tokens)
  BY DEF Inv, Skip
<1>2. PICK at \in 1..Len(haystack) :
         Finds(at) /\ ~Bounded(at) /\ start' = at + Len(Token)
  BY DEF Skip
<1>3. /\ Len(haystack) \in Nat /\ Len(Tokens) \in Nat
      /\ Len(Token) \in Nat \ {0} /\ BorderFree(Token) /\ start \in Nat
  BY <1>1, TokenTyped DEF TypeOK
<1>4. At(haystack, at, Token) /\ at >= start /\ at + Len(Token) <= Len(haystack) + 1
  BY <1>2, <1>3 DEF Finds, At
<1>5. TypeOK'
  <2>1. start' \in 1..Len(haystack) + 1
    BY <1>2, <1>3, <1>4
  <2> QED
    BY <1>1, <2>1 DEF TypeOK
<1>6. ASSUME NEW i \in 1..start' - 1
      PROVE  ~ListedWordAt(haystack, i, Token)
  <2>1. CASE i < start
    BY <1>1, <1>3, <2>1 DEF Past
  <2>2. CASE i \in start..at - 1
    BY <1>2, <2>2 DEF Finds, ListedWordAt, WordAt
  <2>3. CASE i = at
    BY <1>1, <1>2, <2>3, BoundedIsWord
  <2>4. CASE i \in at + 1..at + Len(Token) - 1
    BY <1>3, <1>4, <2>4, NoOverlap DEF ListedWordAt, WordAt
  <2>5. i < start \/ i \in start..at - 1 \/ i = at \/ i \in at + 1..at + Len(Token) - 1
    BY <1>2, <1>3, <1>4
  <2> QED
    BY <2>1, <2>2, <2>3, <2>4, <2>5
<1>7. Past'
  BY <1>1, <1>6 DEF Past, Token
<1>8. FindsListedWords'
  BY <1>1 DEF FindsListedWords
<1> QED
  BY <1>5, <1>7, <1>8 DEF Inv

(* Exhaust: the token stands neither before `start' nor after. *)
LEMMA ExhaustKeepsInv == ASSUME Inv, Exhaust PROVE Inv'
<1>1. /\ TypeOK /\ Past /\ UNCHANGED <<haystack, verdict>>
      /\ verdict = "scanning" /\ k <= Len(Tokens)
      /\ k' = k + 1 /\ start' = 1
      /\ \A at \in start..Len(haystack) : ~At(haystack, at, Token)
  BY DEF Inv, Exhaust
<1>2. Len(haystack) \in Nat /\ Len(Tokens) \in Nat /\ k \in 1..Len(Tokens) /\ start \in Nat
  BY <1>1, TokenTyped DEF TypeOK
<1>3. ~HasListedWord(haystack, Token)
  <2>1. ASSUME NEW i \in 1..Len(haystack) PROVE ~ListedWordAt(haystack, i, Token)
    <3>1. CASE i < start
      BY <1>1, <1>2, <3>1 DEF Past
    <3>2. CASE i >= start
      BY <1>1, <1>2, <3>2 DEF ListedWordAt, WordAt
    <3> QED
      BY <1>2, <3>1, <3>2
  <2> QED
    BY <2>1 DEF HasListedWord
<1>4. Past'
  <2>1. ASSUME NEW n \in 1..k' - 1 PROVE ~HasListedWord(haystack, Tokens[n])
    <3>1. n \in 1..k - 1 \/ n = k
      BY <1>1, <1>2
    <3> QED
      BY <1>1, <1>3, <3>1 DEF Past, Token
  <2>2. 1..start' - 1 = {}
    BY <1>1
  <2> QED
    BY <1>1, <2>1, <2>2 DEF Past
<1>5. TypeOK'
  BY <1>1, <1>2 DEF TypeOK
<1>6. FindsListedWords'
  BY <1>1 DEF FindsListedWords
<1> QED
  BY <1>4, <1>5, <1>6 DEF Inv

(* Conclude: every token has been looked for everywhere. *)
LEMMA ConcludeKeepsInv == ASSUME Inv, Conclude PROVE Inv'
<1>1. /\ TypeOK /\ Past /\ UNCHANGED <<haystack, k, start>>
      /\ k = Len(Tokens) + 1 /\ verdict' = "absent"
  BY DEF Inv, Conclude
<1>2. k - 1 = Len(Tokens)
  BY <1>1, TokensAssumption
<1>3. FindsListedWords'
  BY <1>1, <1>2 DEF Past, FindsListedWords
<1>4. TypeOK'
  BY <1>1 DEF TypeOK
<1>5. Past'
  BY <1>1 DEF Past, Token
<1> QED
  BY <1>3, <1>4, <1>5 DEF Inv

(* A scan starts with nothing behind it. *)
LEMMA InitInv == Init => Inv
<1> SUFFICES ASSUME Init PROVE Inv
  OBVIOUS
<1>1. /\ haystack \in Haystacks /\ k = 1 /\ start = 1 /\ verdict = "scanning"
  BY DEF Init
<1>2. Len(haystack) \in Nat /\ Len(Tokens) \in Nat
  BY <1>1, BytesAssumption, TokensAssumption
<1> QED
  BY <1>1, <1>2 DEF Inv, TypeOK, Past, FindsListedWords

(* Every step of the scan keeps the invariant. *)
LEMMA StepKeepsInv == Inv /\ [Next]_vars => Inv'
<1> SUFFICES ASSUME Inv, [Next]_vars PROVE Inv'
  OBVIOUS
<1>1. CASE UNCHANGED vars
  BY <1>1 DEF vars, Inv, TypeOK, Past, FindsListedWords, Token
<1> QED
  BY <1>1, HitKeepsInv, SkipKeepsInv, ExhaustKeepsInv, ConcludeKeepsInv DEF Next

(* The scan never slices past the end of its buffer.                       *)
(* (graphql_security.rs:87, &h[start..])                                   *)
THEOREM StartInBounds == Spec => []TypeOK
<1>1. Inv => TypeOK
  BY DEF Inv
<1> QED
  BY <1>1, InitInv, StepKeepsInv, PTL DEF Spec

(* The verdict of the scan is whether a token stands in the buffer as a    *)
(* word of its own with a byte the scan knows, or nothing, after it, for   *)
(* all buffers, all tokens without a border and all sets of such bytes.    *)
(* (graphql_security.rs:74-117)                                            *)
THEOREM ListedWordsAreFound == Spec => []FindsListedWords
<1>1. Inv => FindsListedWords
  BY DEF Inv
<1> QED
  BY <1>1, InitInv, StepKeepsInv, PTL DEF Spec

(* What a scan has yet to do: a buffer for each token to be looked for, of *)
(* which the part before `start' is done, and the verdict.                 *)
ToScan ==
    (Len(Tokens) + 1 - k) * (Len(haystack) + 2) + (Len(haystack) + 1 - start)
      + (IF verdict = "scanning" THEN 1 ELSE 0)

(* One token fewer is one buffer fewer.                                    *)
LEMMA OneTokenLess ==
    ASSUME NEW n \in Nat, NEW i \in 1..n, NEW h \in Nat
    PROVE  /\ (n + 1 - i) * (h + 2) \in Nat
           /\ (n + 1 - (i + 1)) * (h + 2) \in Nat
           /\ (n + 1 - i) * (h + 2) = (n + 1 - (i + 1)) * (h + 2) + (h + 2)
<1>1. \A a, b \in Nat : a * b \in Nat /\ (a + 1) * b = a * b + b
  OBVIOUS
<1>2. /\ n + 1 - (i + 1) \in Nat /\ h + 2 \in Nat
      /\ n + 1 - i = (n + 1 - (i + 1)) + 1 /\ n + 1 - i \in Nat
  OBVIOUS
<1> QED
  BY <1>1, <1>2

(* Every step of a scan leaves less to do.                                 *)
LEMMA StepScansLess ==
    ASSUME TypeOK, Next
    PROVE  ToScan' < ToScan
<1> DEFINE h == Len(haystack)
           n == Len(Tokens)
           rest == (n + 1 - k) * (h + 2)
<1>1. h \in Nat /\ n \in Nat /\ k \in 1..n + 1 /\ start \in 1..h + 1
  BY BytesAssumption, TokensAssumption DEF TypeOK
<1>2. rest \in Nat
  <2>1. \A a, b \in Nat : a * b \in Nat
    OBVIOUS
  <2>2. n + 1 - k \in Nat /\ h + 2 \in Nat
    BY <1>1
  <2> HIDE DEF h, n
  <2> QED
    BY <2>1, <2>2
<1>3. verdict = "scanning" /\ ToScan = rest + (h + 1 - start) + 1 /\ haystack' = haystack
  BY DEF ToScan, Next, Hit, Skip, Exhaust, Conclude
<1>4. CASE Hit \/ Conclude
  <2>1. ToScan' = rest + (h + 1 - start) + 0
    BY <1>4 DEF ToScan, Hit, Conclude
  <2> HIDE DEF rest, h, n
  <2> QED
    BY <1>1, <1>2, <1>3, <2>1
<1>5. CASE Skip
  <2>1. PICK at \in 1..h : Finds(at) /\ start' = at + Len(Token)
    BY <1>5 DEF Skip
  <2>2. Len(Token) \in Nat \ {0} /\ at >= start /\ start' <= h + 1
    <3>1. Len(Token) \in Nat \ {0}
      BY <1>5, TokenTyped DEF Skip
    <3> QED
      BY <1>1, <2>1, <3>1 DEF Finds, At
  <2>3. ToScan' = rest + (h + 1 - start') + 1
    BY <1>5 DEF ToScan, Skip
  <2> HIDE DEF rest, h, n
  <2> QED
    BY <1>1, <1>2, <1>3, <2>1, <2>2, <2>3
<1>6. CASE Exhaust
  <2>1. /\ k \in 1..n
        /\ ToScan' = (n + 1 - (k + 1)) * (h + 2) + (h + 1 - 1) + 1
    BY <1>1, <1>6 DEF ToScan, Exhaust
  <2>2. /\ rest = (n + 1 - (k + 1)) * (h + 2) + (h + 2)
        /\ (n + 1 - (k + 1)) * (h + 2) \in Nat
    <3> HIDE DEF h, n
    <3> QED
      BY <1>1, <2>1, OneTokenLess
  <2> DEFINE less == (n + 1 - (k + 1)) * (h + 2)
  <2>3. less \in Nat /\ rest = less + (h + 2) /\ ToScan' = less + (h + 1 - 1) + 1
    BY <2>1, <2>2
  <2> HIDE DEF less, rest, h, n
  <2> QED
    BY <1>1, <1>3, <2>3
<1> QED
  BY <1>4, <1>5, <1>6 DEF Next

(* What is left to do is a number.                                         *)
LEMMA ToScanTyped == TypeOK => ToScan \in Nat
<1> SUFFICES ASSUME TypeOK PROVE ToScan \in Nat
  OBVIOUS
<1> DEFINE h == Len(haystack)
           n == Len(Tokens)
<1>1. h \in Nat /\ n + 1 - k \in Nat /\ h + 2 \in Nat /\ h + 1 - start \in Nat
  BY BytesAssumption, TokensAssumption DEF TypeOK
<1>2. \A a, b \in Nat : a * b \in Nat
  OBVIOUS
<1>3. (n + 1 - k) * (h + 2) \in Nat
  <2> HIDE DEF h, n
  <2> QED
    BY <1>1, <1>2
<1> QED
  BY <1>1, <1>3 DEF ToScan

(* However often a token occurs inside longer words, the scan looks at no  *)
(* place twice for it: its steps are bounded by the tokens times the bytes *)
(* before it starts.  (graphql_security.rs:86-113)                         *)
THEOREM ScansAreBounded == Spec => [](ToScan \in Nat) /\ [][ToScan' < ToScan]_vars
<1>1. TypeOK /\ [Next]_vars => [ToScan' < ToScan]_vars
  BY StepScansLess
<1> QED
  BY <1>1, StartInBounds, ToScanTyped, PTL DEF Spec
=============================================================================
