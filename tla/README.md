# A TLA+ model of graphql-waf

graphql-waf is a reverse proxy for GraphQL services, written in Rust on tokio
and hyper. It takes HTTP requests, reads their bodies, asks three detectors what
they think (its own GraphQL checks, a wirefilter expression, ModSecurity rules),
and then forwards the request, forwards it with a note in the log, or refuses it
with 400. On the way back it may remove field suggestions ("Did you mean ...?")
from JSON error messages.

This directory states in TLA+ what the gateway does and what makes it right,
checks it with TLC on small instances and proves the central facts with TLAPS for
every value of the constants. Source lines below are of `src/proxy.rs` unless
another file is named; `graphql_security.rs` is abbreviated `gs.rs`.

## 1. Inventory

| Component | State it keeps | Operations | Interacts with |
|---|---|---|---|
| Request handler, `handle_request` (425-610) | locals across five awaits: body, `body_too_large`, `inspected_body`, `is_graphql`, response parts | read body, inspect, decide, forward, relay or rewrite the response | service (called by, error returned to), detectors (called), upstream client (awaited) |
| Service and shutdown, `run` (900-977) | `AppState`, cloned per connection; open connections; shutdown signal | accept, keep-alive, `Err` to 502, half close, ctrl-c, drain | handler, hyper, tokio |
| GraphQL decision, `evaluate_graphql_security` (gs.rs 609-739) | none; the configuration is read only | extraction of document and variables by GET or body, thirteen checks in order | handler (called by), walks and scan (calls) |
| Document walks (gs.rs 326-553) | call stack, `visiting` set, running totals | depth, cost, alias and directive counts of a parsed document | decision |
| Introspection token scan (gs.rs 74-117) | loop position | finds `__schema` and `__type` as words | decision |
| Suggestion stripping (gs.rs 270-305) | the parsed response | cuts each message of `errors` | handler |
| Variables statistics (gs.rs 574-607, 656-681) | recursion stack, running maxima and sums | depth, keys, array length, bytes of the variables; their limits | decision |
| Startup and configuration (`main.rs` 8-27, `config.rs` 6-59, 612-940) | command line, environment, TOML file, rules files | precedence, validation, the load of rules | builds `AppState`, binds the listener |
| wirefilter and ModSecurity adapters (286-370) | compiled rules, read only | evaluate one request | handler |
| Upstream client pool | hyper's | send a request, yield a response | handler |
| dvga-like-server, fuzz targets, k6, rules, CI | | | drive the program from outside |

What is hard here:

* **Interleaving.** Any number of connections are served at once. Within one
  handler every `.await` is a place where the peer may fail, the client may hang
  up (which drops the handler where it stands), or ctrl-c may arrive. The handler
  decides on a *copy of a prefix* of the body and forwards *the body*; it computes
  `is_graphql` before two awaits and uses it after them.
* **Partial failure.** Client body, upstream request, upstream response body and
  each detector can fail on their own; each error has its own path (502, fail
  open, an aborted stream).
* **Boundaries.** `max_body_bytes` and `max_response_bytes` with bodies at, under
  and over them, and responses that announce no length.
* **Order.** The checks of the decision return at the first match, so their order
  decides what is reported and which of them ever run.
* **Recursion.** The walks recurse through fragments that may refer to each other
  in cycles; `visiting` is mutated on the way in and on the way out of each.
* **Stale reads.** The configuration file is read in `main` for the thread count
  and again in `run` for the rest, and each rules file after the glob that found
  it; a deployment may replace any of them in between.
* **Liveness.** No await has a timeout, so answering, and shutting down, depend on
  the peers.

What makes each part right is stated as the properties of its module (section 3);
`PROJECT.json` lists the hazards, each with its line and the properties that
would catch it.

## 2. Modules

| Module | Models | Role |
|---|---|---|
| `GraphqlSecurity` | gs.rs 120-217, 307-318, 609-739 | the decision, as operators |
| `SecurityCalls` | the decision under requests and configurations that change | state machine over `GraphqlSecurity` |
| `SuggestionStrip` | gs.rs 270-305 | the cut in an error message, as operators; extends `GraphqlSecurity` |
| `HandleRequest` | `handle_request`, `run` from 896 on | the detailed specification; extends `SuggestionStrip` |
| `Gateway` | README.md:8-25 | the abstract specification `HandleRequest` implements |
| `Startup` | main.rs 8-27, config.rs 6-59, 612-940 | from the command line to a listening process or an exit |
| `GraphqlWalk` | gs.rs 218-268, 326-553 | the recursive walks, on an explicit stack; the counts and the health probe's shape, as operators |
| `VariablesStats` | gs.rs 574-607, 656-681 | the walk over the variables, and its limits; extends `GraphqlSecurity` |
| `TokenScan` | gs.rs 74-117 | the search loop |
| `MC...` | | instances for TLC |
| `..._proofs` | | theorems and their proofs |

### HandleRequest

A connection is a record: `pc` says at which await its handler is, the other
fields are the handler's locals at that await.

| `pc` | Where the code is |
|---|---|
| `closed`, `idle` | no connection; a connection between requests |
| `reading` | `to_bytes(req.body_mut())` (451) |
| `upstream` | `client.request(req)` (569; 443 in off mode) |
| `rewriting` | `to_bytes(body)` of the response (596) |
| `responding` | the handler has returned; hyper writes the response |

Between two awaits nothing interleaves with a handler, so everything from one
await to the next is one action. `Inspect` is the longest: from the end of the
body (454) through the path check, the detectors and `should_block` to
`client.request`, with its three outcomes (refused, 502 because no URI can be
built, handed over). The path check is an early return with a test of the mode of
its own (`PathRefused`, 473-489), apart from `ShouldBlock`. `UpstreamReply` is
575-594: the response is passed on as it comes, or is read for stripping. The actions of the network and the peers
(`ReadBody`, `ClientBodyError`, `UpstreamReceive`, `UpstreamFail`, `ReplyFail`,
`RelayFail`, `Disconnect`) may happen at each await they can reach. The body of a
request goes on after the head of its response has come (`Exchanging`): in off mode
the upstream may answer first and read on.
`Disconnect` models `http1_half_close(false)`: the handler is dropped.
`CtrlC`, `CloseIdle`, `FinishResponse` and `Exit` are hyper's graceful shutdown.

Abstracted: text is a record of what the checks can tell apart; a request has a
`view`, what each prefix of its body looks like, so that a truncated copy can
look different from the whole; lengths are counted in units that arrive whole.

The response a rewriting handler sends is computed by `SuggestionStrip`:
`Delivered` is the body after the cut, or the body as it came when the code
leaves it alone.

### SuggestionStrip

A message is a sequence of pieces: a space, other white space, the words of a
suggestion with and without a capital, anything else. `CutAt`, `TrimEnd` and
`StripMessage` are the search, `trim_end` and the assignment; the early returns
(no `"errors"` in the bytes, no JSON, no object, no array, nothing to cut) are the
conditions under which `StripGraphqlFieldSuggestions` is `None`.

### Startup

Each read of the disk is an action: `SizeRuntime` the one in `main`, `Configure`
the one in `run`, `Glob` the expansion of a pattern, `ReadMatched` and
`ReadLiteral` that of a rules file, `Assemble` all that follows up to the
listener, `Bind` the listener, which fails when the address is taken. `Edit`
replaces the whole disk and may come between any two of them, up to `MaxDisks - 1` times. The variable `disks` keeps
every disk there has been: the code does not, but the properties are about which
of them the settings in force are from. The settings nothing looks at during the
start are `Plain`; two stand for the rest, since `Resolve` is the same for all. A
glob is expanded in one step, where the code reads one directory after another as
it goes; one that cannot be listed (`barred`) fails the start. The order of the
files of one pattern is left open, since the rules of a process are their union,
and a file that is empty is one whose rules say nothing.

### GraphqlSecurity and SecurityCalls

`Checks` is the order of the thirteen checks and `Fires` their conditions;
`EvaluateGraphqlSecurity` is the first that fires. A missing `Option` is `None`.
The four extraction operators follow their functions branch by branch, fallbacks
included. `SecurityCalls` puts requests to a configuration one after another
(`Call`), and restarts the proxy with one setting changed and the same request
again (`Restart`), which is what comparing two configurations needs.

### GraphqlWalk

The recursion is made explicit: a frame is one activation of the walk over a
selection set, with the selections left to do (`todo`) and the value so far
(`acc`). `WalkField` and `WalkSpread` are the arms of the `match`, `Return` the
end of an activation, `NextOperation` the loop over the definitions. One machine
serves `max_depth_document` and `compute_cost`; `Join`, `Leaf`, `Whole` and
`Revisit` say what differs. The reference definitions do not mention `visiting`:
a *chain* is a path of selections from an operation downwards that enters no
fragment twice, so it is no longer than `Longest` and `ChainsOf` builds all of an
operation's by length; `Depth` is a maximum over the chains, `CostAt` a sum.
`Ahead` are the chains a walk has not reached. The costs of fields are integers in
the code and naturals here; `cost_depth_cost_factor` is any f64, and is not given a
value: a cost is a polynomial in it, a sequence of naturals whose element l + 1
(`Level`) is multiplied by the l-th power of the factor. `Plus` and `FactorTimes` are
the two things the code does with costs. What is said of costs therefore holds for
the default of 1.5 and for every other factor; the rounding of f64, and factors
that are no finite number, are left out. `DocumentsAssumption` says that a document is a
parse tree with its selections numbered as the parser meets them: a set holds each
selection once, below a selection are later ones only, and in a document without
fragments every selection stands in some set.
`IsTypenameHealthProbe` and the counts do not recurse through fragments and
are operators on the same documents.

### VariablesStats

The recursion of `walk` is an agenda: the calls still to be made, innermost
first. `Walk` makes the next one, `Compare` is what `evaluate_graphql_security`
does with the result, with the conditions of `GraphqlSecurity`. A value is a tree
given by the paths into it; the serialized length is part of the value.

### TokenScan

The loop of `has_token` for each token in turn. A byte is a model value of which
only two things are known: whether it can be part of an identifier, and whether
it is on the list of bytes that may follow a token (gs.rs 96-107). `memmem::find` is
taken by what it returns, the first occurrence. `WordAt` is a word as the comment
has it (gs.rs 75-79), with no identifier byte beside it; `ListedWordAt` one that has
a byte of the list, or nothing, after it. The scan finds the second kind
(`FindsListedWords`) and not the first (`EveryWordIsFound`, section 3).

## 3. Runs

Passing runs:

| Run | Instance | Shows |
|---|---|---|
| `handlers` | one connection, all 216 configurations, thirteen requests, all responses up to two units, messages of up to three pieces and longer ones; 2023000 states | `CleanAsForwarded`: in block mode with oversized bodies rejected, no detector matches the very bytes handed over, nor does the path check their path. `FailuresDecideNothing`: a detector that fails on a request neither refuses it nor keeps another from being heard. `WholeBodyForwarded`: the upstream sees nothing before the body is whole and then gets that body, not the copy. `SuggestionsRemovedWithinBudget`: a response is rewritten exactly when it should be, judged by the request and not by the flag. `OnlySuggestionsAreCut`: each message delivered is the upstream's or a beginning of it, ends before the first capitalised suggestion and lost no text that stood before one. `AnnouncedReplyWithinBudget`: a response with a content length is never buffered beyond the limit |
| `two_connections` | two connections, three modes and block mode with an expression that does not parse, shutdown at any time, with fairness; requests that are clean, too large, matched while another detector fails, and refused for their path; 40070 states | `GatewayPromise`: every behaviour is one of `Gateway`. `RequestAnswered`: in each mode every request taken is answered, refused or given up by its client. `ShutdownCompletes` |
| `security_calls` | the strictest and loosest configuration and all within two settings of either; 10486 states | `IntrospectionNeverMasked`, `HealthProbePasses`, and `LooseningNeverBlocks`: a looser configuration refuses nothing more and nothing earlier |
| `graphql_walk` | 326 documents in four walks, and health probes with near misses of them; 21322 states, 1352 of them initial | `VisitingIsTheOpenPath`, `DepthIsTheLongestChain`, `CostIsTheSumOverChains`, `EveryStepShortens`: no chain is walked twice, so the number of chains bounds the walk; `WalkEnds`, and `ProbeIsMinimal`: what the GET gate's probe exemption lets past costs one scalar field and carries no alias and no directive |
| `variables_stats` | all values up to three deep with at most two members each, two larger ones, five sets of limits; 3810 states | `StatsAreExact`: the counts are those of the whole value. `LimitsHoldEverywhere`: a request passes exactly when every part of its variables is within each limit that is set. `CountEnds` |
| `token_scan` | 19531 buffers; 80791 states | `FindsListedWords`: a token is reported exactly when one stands somewhere as a word with a listed byte or nothing after it. `ScanEnds` |
| `startup` | 28 disks, any of which may turn into any other twice, five command lines; 1332316 states | `SettingsOfOneMoment`: a listening process runs under what the command line and one disk said, only its thread count may be from an earlier one. `EveryPatternEnforced`: of each pattern of rules all the files there were at one moment have been read, and they compile. `StartsExactlyWhenSound`: on a disk nobody touches a start fails only for a reason. `StartEnds` |

Each passing run's `TypeOK` is its module's one type invariant. For every
property there is a mutant in `PROJECT.json`: a plausible slip in one definition
(kept beside the definition under the comment "A slip") under which TLC finds
the property violated.

Runs that TLC finds violated, because a document, a comment or a help text says
one thing and the code does another:

| Run | Says | Does |
|---|---|---|
| `oversized_opt_out` | with `reject_oversized_body` false an oversized request is forwarded regardless (84-85) | its truncated JSON fails to parse, is read as an invalid document and is refused |
| `leftover_suggestion` | "Did you mean" hints are stripped from errors (README.md:300) | one at the very start of a message, or in lower case before a capitalised one, stays (gs.rs 293) |
| `get_gate` | a GET is refused only when it plausibly carries an operation (gs.rs 645-646) | any query string counts as a document |
| `fail_fast` | an expression that does not parse fails at startup (255-256) | it is copied unparsed (641); each request then fails open on it |
| `hidden_introspection` | a token counts when no identifier byte is next to it (gs.rs 75-79); queries containing `__schema` or `__type` are blocked (README.md:280) | the byte after it must be one of twelve (gs.rs 96-107); a directive or a comment right after the token hides it |

Also met while modelling, without a run of their own:

* `enabled` is said to be the master switch for the table it heads (README.md:278);
  suggestions (README.md:300) are stripped without it (576);
* the body is said to be buffered up to `max_body_bytes` (README.md:10); it is
  buffered whole (451) and then compared;
* `cost_flatten_fragments` is described as being about fragments (190); it drops
  the depth factor at every field (gs.rs 510);
* `max_directives` is described as the directives used (README.md:288); those
  on operations are not counted (gs.rs 434);
* `listen_host` is described as a host or an address (59); a host name is no
  `SocketAddr`, so the start fails on it (938);
* a response that announces no length is buffered whole whatever
  `max_response_bytes` says (596);
* a silent upstream holds a request for as long as its client waits (569).

### Bounds, and why they are enough

* **Lengths.** Bodies and responses are at most two units and limits are 1 or 2,
  so there is a body under, at and over each limit, and one proper prefix. The
  handler compares a length with a limit and nothing else.
* **Connections.** Two in `two_connections`. Handlers share only the
  read-only `AppState` and the shutdown; a third adds no new kind of step. One
  in `handlers`, which varies everything else.
* **Requests and configurations.** Every setting `handle_request` branches on
  takes both sides in `handlers`. In `security_calls` each check is violated
  alone and together with others.
* **Configurations two settings away.** `LooseningNeverBlocks` compares settings
  changed one at a time; with a start of up to two changes from either extreme,
  every pair of checks occurs with both on, one on and none on. The theorem
  removes the bound.
* **Documents.** Two fragments that may each spread themselves, the other, both
  or nothing, once or twice, directly or under a field or an inline fragment, and
  one of which may be undefined: all cycles of length one and two, and siblings
  that spread one fragment repeatedly. The three costs differ from each other, and
  the factor has no value that could make two of its powers the same.
* **Messages.** All of up to three pieces have a suggestion in every place a
  suggestion may have, with and without white space before it; longer ones hold
  two suggestions with text between and around them.
* **Disks.** `MaxDisks` is 3: before the first read, between the two reads of the
  file, and while rules are loaded there can each be a different disk. Each disk is
  wrong in at most one way, so every reason to fail occurs alone. The theorems
  have no bound on the disks.
* **Values.** Three levels and two members are the least in which a container has
  a container beside it and below it; the two larger ones differ in where they are
  deepest and where they are longest.
* **Failing detectors.** `handlers` has each of the two fail on requests that
  nothing else objects to, that the other matches, and that are too large.
* **Buffers.** Besides identifier bytes there is one byte the code lists and one it
  does not. Six bytes hold the longer token twice, or the shorter twice with
  two bytes to spare, so words and non-words before and after one another occur.

### Fairness

`ProxyFairness` is what tokio gives: a handler that can go on (`Inspect`,
`RewriteReply`), an idle connection that is to be closed, and a drained server
are eventually run. `ClientFairness` (a client sends the rest of its body and
reads its answer) and `UpstreamFairness` (the upstream answers and sends its
whole answer) are assumptions about the peers: the code has no timeout of its
own, and `RequestAnswered` and `ShutdownCompletes` are false without them. All
are weak, and failures need no fairness: a peer that breaks off instead of going
on ends the wait as well. `GraphqlWalk`, `VariablesStats` and `TokenScan` are
sequential, so `WF(Next)` only says the function keeps running. In `Startup` it is
`WF(Start)`: the start goes on, and nobody needs to edit anything.

Deadlock is not checked, because each machine stops: a proxy that has exited, a
walk or scan that has its result, a start that listens or has exited. The liveness properties say they do not stop
earlier; `SecurityCalls` never stops.

## 4. Proofs

All for every value of the constants, under the named assumptions of the modules
(`AppStatesAssumption`, `LengthsAssumption`, `ConfigsAssumption`, ...), which TLC
evaluates in the runs.

**HandleRequest_proofs.** `TypeCorrect`, `ForwardsWholeBodies` and
`ForwardsOnlyClean`, from `Invariance`. None of the three is inductive: that a
body handed over is clean depends on its having been read whole and judged, which
no property says. `HInv` says of each connection (`Sound`) that a body handed
over was read to its end, is as long as the request's and was not objected to
(`HandedOver`), and that nothing reaches the upstream otherwise. `StepKeepsInv`
reduces the induction to one record: every action of a connection replaces its
own record, so it only owes that the new one is sound. `ForwardsOnlyClean` then
follows because a body that was not objected to under `reject_oversized_body` is
not too large, and so was inspected whole. `FailuresAreNeutral` follows from the
same invariant, which also says that a refused request was objected to: taking a
detector that fails out of the configuration leaves every objection as it was.

Its second half has `RewritesWhatItShould` and `AnnouncedWithinBudget`, from `RInv`, which adds to `HInv` what is known of the
response at each await (`Judged`): the flag `graphql` of a body handed over is
what its request says, a response being read is one that may be rewritten, and
nothing is answered before `responding`. `CutsOnlySuggestions` needs more of
`SuggestionStrip` than of the handler: where `CutAt` and `TrimEnd` may end a
message.

**HandleRequest_gateway_proofs.** `Implements`: `HandleRequest` refines
`Gateway`. The refinement mapping is taken record by record (`Stage`,
`Objection`, `Answered`); `MoveByStep` and `StutterByStep` turn a step of one
connection into a step of `Gateway` or none, and there is one lemma per kind of
action. It needs `RInv`, for a handler that has not answered has no answer. Why
a refusal in the code is one in `Gateway` is `InspectSimulated`: the two places that
refuse, `PathRefused` and `ShouldBlock`, together are `Refused` of the objection the
connection has carried since it was taken.

**SecurityCalls_proofs.** `TypeCorrect`, `NeverMasked`, `ProbesPass` and
`Loosening`. `ProbesPass` rests on `ProbesAssumption`: a document that
is a probe parses and holds no introspection token, and an empty body holds none. For `Loosening`,
`FiresMonotone` shows that each check of
the looser configuration fires only where the stricter one's does, check by
check; `RankMonotone` that the first check that fires can then only move back.
The least element of the set of firing checks comes from the well-foundedness of
the naturals (`MinIsLeast`).

**GraphqlWalk_proofs.** `TypeCorrect` and `OpenPath`. A step settles the frame on
top, pushes one or pops one; one lemma for each says what that does to the frames
(`SettleStack`, `DescendStack`, `ReturnStack`) and one that it keeps `Inv`.
That each fragment is open only once is what makes `visiting.remove` safe: the
name removed is no other open frame's.

**GraphqlWalk_chains_proofs.** `DepthOfChains`, `CostOfChains`, `ProbeCosts` and
`WalksAreBounded`. The reference definitions are recursive functions and sums, and
the library's induction theorems cannot be used with an operator of one's own; the
induction is done on a *set* of naturals instead, which contains 0 and with i also
i + 1 (`EveryNatural`, from the well-foundedness of the naturals). From it come
what the functions are, that a sum over a finite set may take its members in any
order (`SumTakes`, `SumSplits`), and that there are finitely many chains, none
longer than `Longest`: from one fragment entered to the next a chain goes on to
later selections, and each fragment is entered once (`ChainsAreShort`).

The invariant `WalkInv` says of each frame (`FrameSound`) that its accumulator is
worth (`Worth`) exactly the chains it has taken (`Handled`): the length by which the
longest of them goes on from the frame's path, or, for each power of the factor, the
sum of the costs of those chains that the fields below that path multiply by it
(`Times` counts them; `CostsAdd` and `TimesIs` are the arithmetic). A fresh frame has taken none. A frame that
settles a selection takes the one chain that ends there (with an ignored field, all
through it, which cost nothing). A frame that is done has taken every chain under
its path, so what `Return` hands down is what the chains through its selection are
worth; `NextOperation` adds the chains of an operation to those finished. That a
spread which is entered does not re-enter its fragment is `VisitingIsTheOpenPath`,
so the walk's `visiting` and the chains' own condition are the same
(`VisitingIsOnThePath`). `ProbeCosts` adds that a probe has one chain.

`WalksAreBounded`: `StepsLeft` is a natural and every step lowers it, because the
chain a walk is at has not been reached before (`HereIsAhead`). With n chains and m
operations a walk has at most 2n + m + 1 steps. This is also all the bound there is:
n can be exponential in the length of the document, and no limit is looked at before
the walk is over.

**TokenScan_proofs.** `StartInBounds`, `ListedWordsAreFound` and `ScansAreBounded`.
The invariant `Past` says that no word with a listed byte after it stands before
`start`, and none of the tokens already tried anywhere.
`Skip` keeps it because a token without a border cannot overlap itself
(`NoOverlap`), which is the one assumption about tokens and holds of `__schema`
and `__type`. `ToScan`, the buffers still to be searched, shrinks with every step.

**Startup_proofs.** `TypeCorrect`, `RunsUnderOneMoment` and
`EnforcesEveryPattern`, for any number of replacements. `Inv` says from `Configure`
on that there are disks i and j, i not after j, such that the thread count is
what disk i says, everything else what disk j says, and the patterns loaded
together with those left are the ones disk j names. A step of the load moves one
pattern from left to loaded, or keeps it left (`MomentStays`); an edit appends a
disk and so disturbs neither i nor j. That each pattern is enforced whole, with all
the files it had when it was expanded, is `WholeOrBeingRead`: with the files found and
not read yet, those loaded are all the pattern had. `StartsOnSoundDisks` needs to know in
addition what a start on an undisturbed disk has found so far: `UndisturbedInv`
says that the file that was read is sound and names some threads
(`ConfigInOrder`), that the upstream can be used, that each pattern no longer left
is well formed and had its files load, and that the combined rules are the disk's
(`RulesInOrder`), and which files of the pattern at hand have loaded
(`HeadInOrder`). Each way to fail then points at what is wrong with the disk.

**VariablesStats_proofs.** `TypeCorrect`, `CountsAreExact`,
`LimitsReachEverywhere` and `CountsAreBounded`. `Inv` says that the parts of the value not seen yet are
those under the calls of the agenda, each under exactly one (`OneCallEach`), and
that the counts are those of the parts seen (`Counts`). A walk takes the part of
its call from the unseen ones and divides what lies under it among the calls for
its children, which is why no part is missed or counted twice, and why a count
makes at most as many calls as the value has parts.

Every safety property of the passing runs is proved: all invariants, the step
properties `LooseningNeverBlocks` and `EveryStepShortens`, and the refinement
`GatewayPromise`. Only model-checked is liveness (`RequestAnswered`,
`ShutdownCompletes`, `StartEnds`, `ScanEnds`, `WalkEnds` and `CountEnds`), since fairness
and ENABLED are outside the prover's reach. Of the walks and the scan half of it
is proved all the same: they cannot go on for ever. That they do not stop before
they have a result is what remains of `WalkEnds`, `CountEnds` and `ScanEnds` for TLC.

## 5. Not modelled

HTTP/2 (several requests on one connection) and the accept loop's errors; retries
and connection reuse inside hyper's client; the text of logs, headers and answers; the wirefilter language and the ModSecurity rule
engine beyond their outcomes; the GraphQL and JSON parsers beyond theirs;
dvga-like-server, which is a deliberately vulnerable upstream for tests; the fuzz
targets, load tests, rules and scripts. Of the start, what clap refuses on the
command line, a runtime that cannot be built, the log, and changes to the disk
while one glob is being expanded. Of the costs, the rounding of f64. Of the answers,
their text and their headers. Bodies are taken as they stand on the wire: nothing
in the code decompresses one, so a compressed body is one the detectors and the
strip see as opaque bytes.

## 6. Plan

Done: the handler with its abstract specification, the decision, the walks, the
scan, the strip, the variables walk, the start; theorems for each. Left:

1. **Composition of the walks with the decision**: documents of `GraphqlWalk` and
   values of `VariablesStats` as requests of `SecurityCalls`, so that all limits
   are checked against counts that are computed and not given.
2. **Composition of the start with the handler**: which of two configurations a
   connection is judged by when a process is replaced by another on the same
   address. Nothing in the code does this; the deployment would be modelled.
3. **Proofs**: that a start takes at most so many steps after the last edit, and
   that each machine that has no result can take a step, stated without ENABLED.
4. **Connections**: several streams on one connection, if hyper's use by `run`
   shows more than independent handlers.
