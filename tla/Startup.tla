------------------------------ MODULE Startup ------------------------------
(***************************************************************************)
(* main.rs, config.rs and the first half of run (proxy.rs:612-940): from   *)
(* the command line to a listening process or an exit.  Each read of the   *)
(* disk is an action, since an operator or a deployment may replace the    *)
(* configuration file and the rules between any two of them: the file is   *)
(* read in main for the thread count and again in run, and each rules file *)
(* after the glob that found it.  What lies between two reads is one       *)
(* action.                                                                 *)
(*                                                                         *)
(*   a command line  [config, flags, modsec_rules]   config: --config is   *)
(*                   given; flags: what the other options that are given,  *)
(*                   as flags or by the environment, are set to;           *)
(*   a table         what the [waf] and [graphql] sections set: a function *)
(*                   from the keys they hold.  mode stands for any         *)
(*                   capitalisation of it; other words are kept;           *)
(*   a pattern       [wellformed, matches, literal]   the rules files it   *)
(*                   may match as a glob, and the one it names as a path;  *)
(*   a disk          [file, table, rules, barred]   file: the configuration*)
(*                   file is "sound", "missing" or "malformed", table what *)
(*                   it says; rules gives the content of each rules file:  *)
(*                   "rules" (which an empty file is, too), "uncompilable",*)
(*                   "unreadable", or None when there is no such file;     *)
(*                   barred: the patterns whose glob comes to a directory  *)
(*                   that cannot be listed.                                *)
(***************************************************************************)
EXTENDS Naturals, Sequences, SequencesExt

CONSTANTS
    None,        \* stands for every Option::None
    Patterns,    \* patterns that name rules files
    Clis,        \* command lines
    Disks,       \* what the disk may hold
    Plain,       \* settings that are taken as they are given
    PlainDefault,\* their defaults
    MaxDisks     \* bound on how often the disk changes

Modes == {"Off", "Audit", "Block"}

(* The settings the start itself looks at. *)
Looked == {"worker_threads", "mode", "upstream", "wirefilter", "listen"}

(* The fields the configuration ends up in, but for the rules. *)
Settings == Plain \union Looked

Default ==
    [f \in Settings |->
        CASE f \in Plain -> PlainDefault[f]
          [] f = "worker_threads" -> 2
          [] f = "mode" -> "Block"
          [] f = "listen" -> "127.0.0.1:8080"
          [] f \in {"upstream", "wirefilter"} -> None]

ASSUME ClisAssumption ==
    \A c \in Clis : /\ c.config \in BOOLEAN
                    /\ c.modsec_rules \in Seq(Patterns)
                    /\ DOMAIN c.flags \subseteq Settings
                    /\ \A f \in DOMAIN c.flags : c.flags[f] # None

ASSUME DisksAssumption ==
    \A d \in Disks :
        /\ \A f \in DOMAIN d.table : d.table[f] # None
        /\ "modsec_rules" \in DOMAIN d.table => d.table["modsec_rules"] \in Seq(Patterns)
        /\ d.barred \subseteq Patterns

ASSUME PlainAssumption == Plain \intersect Looked = {}

VARIABLES
    cli,         \* the command line, fixed
    disks,       \* what the disk has held since the start, last what it holds
    pc,          \* the next read, or where the start ended
    cause,       \* why it exited
    app,         \* the settings in force, as far as they are known
    patterns,    \* patterns of rules not loaded yet
    found,       \* files the first of them matched and that are not read yet
    combined     \* what has been loaded: a pattern, a file of it, its text

vars == <<cli, disks, pc, cause, app, patterns, found, combined>>

Disk == Last(disks)

Init ==
    /\ cli \in Clis
    /\ disks \in {<< d >> : d \in Disks}
    /\ pc = "main"
    /\ cause = "none"
    /\ app = [f \in Settings |-> None]
    /\ patterns = << >> /\ found = {} /\ combined = {}

(* The operator, or a deployment, replaces what is on the disk. *)
Edit ==
    /\ Len(disks) < MaxDisks
    /\ \E d \in Disks \ {Disk} : disks' = Append(disks, d)
    /\ UNCHANGED <<cli, pc, cause, app, patterns, found, combined>>

Exit(why) ==
    /\ pc' = "exited"
    /\ cause' = why
    /\ UNCHANGED <<cli, disks, app, patterns, found, combined>>

-----------------------------------------------------------------------------
Unloadable == cli.config /\ Disk.file # "sound"

(* What the file says, nothing when there is none. *)
FileTable == IF cli.config THEN Disk.table ELSE << >>

(* A mode that is none of the three words is passed over. *)
InFile(f) ==
    IF f \in DOMAIN FileTable /\ (f = "mode" => FileTable[f] \in Modes)
    THEN FileTable[f] ELSE None

OrElse(x, y) == IF x # None THEN x ELSE y

\* A slip: the file is looked at first.
ResolveFileFirst(f) ==
    OrElse(InFile(f),
           OrElse(IF f \in DOMAIN cli.flags THEN cli.flags[f] ELSE None, Default[f]))

(* The command line, else the file, else the default. *)
Resolve(f) ==
    OrElse(IF f \in DOMAIN cli.flags THEN cli.flags[f] ELSE None,
           OrElse(InFile(f), Default[f]))

(* An empty list on the command line is no list. *)
ModsecRules ==
    IF cli.modsec_rules # << >> THEN cli.modsec_rules
    ELSE IF "modsec_rules" \in DOMAIN FileTable THEN FileTable["modsec_rules"]
    ELSE << >>

-----------------------------------------------------------------------------
(* main: the first read, for the thread count alone. *)
SizeRuntime ==
    /\ pc = "main"
    /\ \/ Unloadable /\ Exit("config")
       \/ ~Unloadable /\ Resolve("worker_threads") = 0 /\ Exit("threads")
       \/ /\ ~Unloadable /\ Resolve("worker_threads") # 0
          /\ app' = [app EXCEPT !.worker_threads = Resolve("worker_threads")]
          /\ pc' = "run"
          /\ UNCHANGED <<cli, disks, cause, patterns, found, combined>>

(* run, up to load_modsec: the second read, for everything else. *)
Configure ==
    /\ pc = "run"
    /\ \/ Unloadable /\ Exit("config")
       \/ /\ ~Unloadable /\ Resolve("upstream") \notin {"http", "https"}
          /\ Exit("upstream")
       \/ /\ ~Unloadable /\ Resolve("upstream") \in {"http", "https"}
          /\ app' = [f \in Settings |->
                        IF f = "worker_threads" THEN app[f] ELSE Resolve(f)]
          /\ patterns' = ModsecRules
          /\ pc' = "glob"
          /\ UNCHANGED <<cli, disks, cause, found, combined>>

-----------------------------------------------------------------------------
(* load_modsec: each pattern is a glob or, when it matches nothing, a path.*)
Listable(d, p) == p.wellformed /\ p \notin d.barred

Matched == {n \in Head(patterns).matches : Disk.rules[n] # None}

Glob ==
    /\ pc = "glob" /\ patterns # << >>
    /\ \/ ~Listable(Disk, Head(patterns)) /\ Exit("rules")
       \/ /\ Listable(Disk, Head(patterns))
          /\ found' = Matched
          /\ pc' = IF Matched = {} THEN "literal" ELSE "read"
          /\ UNCHANGED <<cli, disks, cause, app, patterns, combined>>

Readable(n) == n \in DOMAIN Disk.rules /\ Disk.rules[n] \in {"rules", "uncompilable"}

\* A slip: the loop over the files is entered once too often.
LoadOnceMore(n, rest) ==
    /\ combined' = combined \union {<< Head(patterns), n, Disk.rules[n] >>}
    /\ found' = rest
    /\ patterns' = patterns
    /\ pc' = "read"
    /\ UNCHANGED <<cli, disks, cause, app>>

(* One rules file is read, and those in rest are still to be. *)
Load(n, rest) ==
    /\ combined' = combined \union {<< Head(patterns), n, Disk.rules[n] >>}
    /\ found' = rest
    /\ patterns' = IF rest = {} THEN Tail(patterns) ELSE patterns
    /\ pc' = IF rest = {} THEN "glob" ELSE "read"
    /\ UNCHANGED <<cli, disks, cause, app>>

\* A slip: one file of a pattern is enough.
ReadOneMatched ==
    /\ pc = "read"
    /\ \E n \in found :
          \/ Readable(n) /\ Load(n, {})
          \/ ~Readable(n) /\ Exit("rules")

ReadMatched ==
    /\ pc = "read"
    /\ \E n \in found :
          \/ Readable(n) /\ Load(n, found \ {n})
          \/ ~Readable(n) /\ Exit("rules")

\* A slip: the pattern is tried again until its file is there.
ReadLiteralPatiently ==
    LET n == Head(patterns).literal IN
    /\ pc = "literal"
    /\ \/ Readable(n) /\ Load(n, {})
       \/ ~Readable(n) /\ pc' = "glob"
          /\ UNCHANGED <<cli, disks, cause, app, patterns, found, combined>>

ReadLiteral ==
    LET n == Head(patterns).literal IN
    /\ pc = "literal"
    /\ \/ Readable(n) /\ Load(n, {})
       \/ ~Readable(n) /\ Exit("rules")

Compiles == \A rule \in combined : rule[3] # "uncompilable"

\* A slip: the rules are left to be compiled later.
AssembleUncompiled ==
    /\ pc = "glob" /\ patterns = << >>
    /\ \/ app.listen = "a name" /\ Exit("address")
       \/ /\ app.listen # "a name"
          /\ pc' = "bind"
          /\ UNCHANGED <<cli, disks, cause, app, patterns, found, combined>>

(* The rules are compiled; the wirefilter expression is taken as it is; the*)
(* listen address must be an address, no host name.                        *)
Assemble ==
    /\ pc = "glob" /\ patterns = << >>
    /\ \/ ~Compiles /\ Exit("rules")
       \/ Compiles /\ app.listen = "a name" /\ Exit("address")
       \/ /\ Compiles /\ app.listen # "a name"
          /\ pc' = "bind"
          /\ UNCHANGED <<cli, disks, cause, app, patterns, found, combined>>

(* Server::bind panics when the address is taken. *)
Bind ==
    /\ pc = "bind"
    /\ \/ Exit("bind")
       \/ /\ pc' = "listening"
          /\ UNCHANGED <<cli, disks, cause, app, patterns, found, combined>>

Start ==
    SizeRuntime \/ Configure \/ Glob \/ ReadMatched \/ ReadLiteral \/ Assemble \/ Bind

Next == Start \/ Edit

Spec == Init /\ [][Next]_vars

FairSpec == Spec /\ WF_vars(Start)
-----------------------------------------------------------------------------
(* Type invariant: where the start is, and what it still has to read.      *)
(* (main.rs:9-27, proxy.rs:612-760)                                        *)
TypeOK ==
    /\ cli \in Clis
    /\ disks \in Seq(Disks) /\ disks # << >>
    /\ pc \in {"main", "run", "glob", "read", "literal", "bind", "listening", "exited"}
    /\ cause \in {"none", "config", "threads", "upstream", "rules", "address", "bind"}
    /\ cause = "none" <=> pc # "exited"
    /\ DOMAIN app = Settings
    /\ patterns \in Seq(Patterns)
    /\ \A r \in combined : r[1] \in Patterns /\ r[3] \in {"rules", "uncompilable"}
    /\ pc \in {"read", "literal"} => patterns # << >>
    /\ pc = "read" => found # {}

(* What a command line and a disk say of a setting, read off README.md:257-*)
(* 259: command line and environment override the file.                    *)
Says(d, f) ==
    IF f \in DOMAIN cli.flags THEN cli.flags[f]
    ELSE IF cli.config /\ f \in DOMAIN d.table /\ (f = "mode" => d.table[f] \in Modes)
    THEN d.table[f]
    ELSE Default[f]

RulesOf(d) ==
    IF cli.modsec_rules # << >> \/ ~cli.config \/ "modsec_rules" \notin DOMAIN d.table
    THEN cli.modsec_rules ELSE d.table["modsec_rules"]

(* A process that listens runs under the settings of one moment: all of    *)
(* them are what the command line and the disk said when run read the      *)
(* file, but for the thread count, which may be from before, never later;  *)
(* whatever is replaced in between.  (main.rs:12-19, proxy.rs:722-936)     *)
SettingsOfOneMoment ==
    pc = "listening" =>
        \E i, j \in DOMAIN disks :
            /\ i <= j
            /\ app["worker_threads"] = Says(disks[i], "worker_threads")
            /\ \A f \in Settings \ {"worker_threads"} : app[f] = Says(disks[j], f)

(* The files of a pattern on a disk: those it matches or, when there is    *)
(* none, the one it names.                                                 *)
FilesOf(d, p) ==
    LET here == {n \in p.matches : d.rules[n] # None}
    IN IF here = {} THEN {p.literal} ELSE here

PatternsLoaded == {r[1] : r \in combined}

FilesLoaded(p) == {r[2] : r \in {q \in combined : q[1] = p}}

(* Every pattern of rules the settings name is enforced whole by a process *)
(* that listens: the files of it that were there at one moment, not before *)
(* the settings were read, were all read, and all of them compile, although*)
(* files come and go while they are loaded.  (proxy.rs:612-638)            *)
EveryPatternEnforced ==
    pc \in {"bind", "listening"} =>
        /\ \E j \in DOMAIN disks :
              /\ PatternsLoaded = Range(RulesOf(disks[j]))
              /\ \A p \in PatternsLoaded : \E i \in j..Len(disks) :
                    FilesOf(disks[i], p) \subseteq FilesLoaded(p)
        /\ \A r \in combined : r[3] = "rules"

(* A disk on which the start has nothing to object to.                     *)
Loads(d, p) ==
    /\ Listable(d, p)
    /\ \A n \in FilesOf(d, p) : n \in DOMAIN d.rules /\ d.rules[n] = "rules"

Sound(d) ==
    /\ cli.config => d.file = "sound"
    /\ Says(d, "worker_threads") # 0
    /\ Says(d, "upstream") \in {"http", "https"}
    /\ Says(d, "listen") # "a name"
    /\ \A p \in Range(RulesOf(d)) : Loads(d, p)

(* On a disk that nobody touches, a start fails exactly when something it  *)
(* was given is unsound, or the address is taken.                          *)
(* (main.rs:12-19, proxy.rs:612-760, 938-940, 965)                         *)
StartsExactlyWhenSound ==
    Len(disks) = 1 =>
        /\ pc = "listening" => Sound(Disk)
        /\ pc = "exited" /\ cause # "bind" => ~Sound(Disk)

(* A start comes to an end, listening or not, however often files are      *)
(* replaced meanwhile.  (proxy.rs:612-638, 710-977)                        *)
StartEnds == <>(pc \in {"listening", "exited"})

(* proxy.rs:255-256: an expression that does not parse fails at startup.   *)
ExpressionsFailFast == pc = "listening" => app["wirefilter"] # "unparsable"
=============================================================================
