--------------------------- MODULE Startup_proofs ---------------------------
(***************************************************************************)
(* Theorems of Startup, for every command line, every set of disks and any *)
(* number of replacements between two reads: the state is well typed, a    *)
(* listening process runs under the settings of one moment, and it has     *)
(* loaded, whole, every pattern these settings name.                       *)
(***************************************************************************)
EXTENDS Startup, SequenceTheorems, TLAPS

Threads == "worker_threads"

ThreadsFrom(i) == app[Threads] = Says(disks[i], Threads)

(* The settings are those of disks[j], the thread count that of disks[i].  *)
OneMoment(i, j) ==
    /\ i <= j /\ ThreadsFrom(i)
    /\ \A f \in Settings \ {Threads} : app[f] = Says(disks[j], f)

(* What disks[j] names of rules is loaded or still to be loaded.           *)
LoadedOrLeft(j) ==
    Range(RulesOf(disks[j])) = PatternsLoaded \union Range(patterns)

(* The files p had at some moment from j on are loaded, or among `more'.   *)
LoadedBut(p, j, more) ==
    \E i \in j..Len(disks) : FilesOf(disks[i], p) \subseteq FilesLoaded(p) \union more

(* What is loaded of a pattern is all of it, but for the one being read.   *)
WholeOrBeingRead(j) ==
    /\ \A p \in PatternsLoaded :
          LoadedBut(p, j, {}) \/ (pc = "read" /\ p = Head(patterns))
    /\ pc = "read" => LoadedBut(Head(patterns), j, found)
    /\ pc = "literal" => LoadedBut(Head(patterns), j, {Head(patterns).literal})

Moment(i, j) == OneMoment(i, j) /\ LoadedOrLeft(j) /\ WholeOrBeingRead(j)

Loading == {"glob", "read", "literal", "bind", "listening"}

Inv ==
    /\ TypeOK
    /\ pc = "run" => \E i \in DOMAIN disks : ThreadsFrom(i)
    /\ pc \in Loading => \E i, j \in DOMAIN disks : Moment(i, j)
    /\ pc \in {"bind", "listening"} => patterns = << >> /\ Compiles
    /\ pc \in {"main", "run"} => combined = {}

(* The disk as it is now is the last of those there have been.             *)
LEMMA DiskIsLast ==
    ASSUME TypeOK
    PROVE  /\ Len(disks) \in Nat /\ Len(disks) \in DOMAIN disks
           /\ DOMAIN disks = 1..Len(disks)
           /\ Disk = disks[Len(disks)] /\ Disk \in Disks
<1>1. disks \in Seq(Disks) /\ disks # << >>
  BY DEF TypeOK
<1>2. Len(disks) \in Nat /\ Len(disks) # 0 /\ DOMAIN disks = 1..Len(disks)
  BY <1>1, EmptySeq, LenProperties
<1>3. Disk = disks[Len(disks)]
  BY DEF Disk, Last
<1> QED
  BY <1>1, <1>2, <1>3, ElementOfSeq

(* resolve_*: the command line, else the file, else the default, is what   *)
(* the command line and the disk say.  (proxy.rs:647-708)                  *)
LEMMA ResolvesToWhatIsSaid ==
    ASSUME TypeOK, NEW f \in Settings
    PROVE  Resolve(f) = Says(Disk, f)
<1>1. Disk \in Disks /\ cli \in Clis
  BY DiskIsLast DEF TypeOK
<1>2. CASE f \in DOMAIN cli.flags
  BY <1>1, <1>2, ClisAssumption DEF Resolve, Says, OrElse
<1>3. CASE f \notin DOMAIN cli.flags
  <2>1. DOMAIN << >> = {}
    OBVIOUS
  <2>2. CASE cli.config /\ f \in DOMAIN Disk.table /\ (f = "mode" => Disk.table[f] \in Modes)
    BY <1>1, <1>3, <2>2, DisksAssumption DEF Resolve, Says, OrElse, InFile, FileTable
  <2>3. CASE ~(cli.config /\ f \in DOMAIN Disk.table /\ (f = "mode" => Disk.table[f] \in Modes))
    <3>1. InFile(f) = None
      BY <2>1, <2>3 DEF InFile, FileTable
    <3> QED
      BY <1>3, <2>3, <3>1 DEF Resolve, Says, OrElse
  <2> QED
    BY <2>2, <2>3
<1> QED
  BY <1>2, <1>3

(* The rules, likewise; an empty list on the command line is no list.      *)
LEMMA RulesAreWhatIsSaid ==
    ASSUME TypeOK
    PROVE  ModsecRules = RulesOf(Disk) /\ ModsecRules \in Seq(Patterns)
<1>1. Disk \in Disks /\ cli \in Clis
  BY DiskIsLast DEF TypeOK
<1>2. DOMAIN << >> = {}
  OBVIOUS
<1>3. ModsecRules = RulesOf(Disk)
  BY <1>2 DEF ModsecRules, RulesOf, FileTable
<1> QED
  BY <1>1, <1>3, ClisAssumption, DisksAssumption DEF RulesOf

(* What a pattern list holds: its head and the rest.                       *)
LEMMA HeadAndTail ==
    ASSUME NEW s \in Seq(Patterns), s # << >>
    PROVE  /\ Head(s) \in Patterns /\ Tail(s) \in Seq(Patterns)
           /\ Range(s) = {Head(s)} \union Range(Tail(s))
<1>1. /\ Head(s) \in Patterns /\ Tail(s) \in Seq(Patterns) /\ Head(s) = s[1]
      /\ Len(s) \in Nat /\ Len(s) # 0 /\ DOMAIN s = 1..Len(s)
      /\ DOMAIN Tail(s) = 1..(Len(s) - 1)
      /\ \A i \in 1..(Len(s) - 1) : Tail(s)[i] = s[i + 1]
  OBVIOUS
<1>2. \A i \in 1..Len(s) : i = 1 \/ (i - 1 \in 1..(Len(s) - 1) /\ (i - 1) + 1 = i)
  BY <1>1
<1>3. ASSUME NEW i \in 1..Len(s) PROVE s[i] \in {Head(s)} \union Range(Tail(s))
  <2>1. CASE i = 1
    BY <1>1, <2>1
  <2>2. CASE i - 1 \in 1..(Len(s) - 1) /\ (i - 1) + 1 = i
    <3>1. s[i] = Tail(s)[i - 1] /\ i - 1 \in DOMAIN Tail(s)
      BY <1>1, <2>2
    <3> QED
      BY <3>1 DEF Range
  <2> QED
    BY <1>2, <2>1, <2>2
<1>4. {Head(s)} \union Range(Tail(s)) \subseteq Range(s)
  <2>1. 1 \in DOMAIN s /\ \A i \in 1..(Len(s) - 1) : i + 1 \in DOMAIN s
    BY <1>1
  <2> QED
    BY <1>1, <2>1 DEF Range
<1>5. Range(s) \subseteq {Head(s)} \union Range(Tail(s))
  BY <1>1, <1>3 DEF Range
<1> QED
  BY <1>1, <1>4, <1>5

-----------------------------------------------------------------------------
(* The steps. *)

(* A failing start leaves nothing to keep.                                 *)
LEMMA ExitKeepsInv ==
    ASSUME Inv, pc # "exited",
           NEW why \in {"config", "threads", "upstream", "rules", "address", "bind"}, Exit(why)
    PROVE  Inv'
BY DEF Inv, TypeOK, Exit, Loading

(* A step that leaves disks and settings alone, what is loaded or left, and*)
(* has read whole what it is done with.                                    *)
LEMMA MomentStays ==
    ASSUME UNCHANGED <<cli, disks, app>>, NEW i \in DOMAIN disks, NEW j \in DOMAIN disks,
           PatternsLoaded' \union Range(patterns') = PatternsLoaded \union Range(patterns),
           OneMoment(i, j), LoadedOrLeft(j), WholeOrBeingRead(j)'
    PROVE  (\E a, b \in DOMAIN disks : Moment(a, b))'
<1>1. OneMoment(i, j)' /\ LoadedOrLeft(j)'
  BY DEF OneMoment, LoadedOrLeft, ThreadsFrom, Says, RulesOf
<1>2. Moment(i, j)'
  BY <1>1 DEF Moment
<1> QED
  BY <1>2

(* A pattern whose files are loaded stays so when more is.                 *)
LEMMA LoadedStays ==
    ASSUME UNCHANGED disks, combined \subseteq combined', NEW j, NEW p, NEW more, NEW less,
           more \subseteq less \union FilesLoaded(p)', LoadedBut(p, j, more)
    PROVE  LoadedBut(p, j, less)'
<1>1. FilesLoaded(p) \subseteq FilesLoaded(p)'
  BY DEF FilesLoaded
<1>2. PICK i \in j..Len(disks) : FilesOf(disks[i], p) \subseteq FilesLoaded(p) \union more
  BY DEF LoadedBut
<1>3. FilesOf(disks[i], p) \subseteq FilesLoaded(p)' \union less
  BY <1>1, <1>2
<1>4. i \in (j..Len(disks))' /\ FilesOf(disks[i], p)' = FilesOf(disks[i], p)
  BY <1>2 DEF FilesOf
<1> QED
  BY <1>3, <1>4 DEF LoadedBut

(* main: the thread count is the disk's of now.                            *)
LEMMA SizeRuntimeKeepsInv ==
    ASSUME Inv, SizeRuntime
    PROVE  Inv'
<1>1. TypeOK /\ pc = "main"
  BY DEF Inv, SizeRuntime
<1>2. CASE Exit("config") \/ Exit("threads")
  BY <1>1, <1>2, ExitKeepsInv
<1>3. CASE /\ app' = [app EXCEPT !.worker_threads = Resolve("worker_threads")]
           /\ pc' = "run"
           /\ UNCHANGED <<cli, disks, cause, patterns, found, combined>>
  <2>1. Threads \in Settings
    BY DEF Threads, Settings, Looked
  <2>2. app'[Threads] = Says(Disk, Threads) /\ DOMAIN app' = Settings
    BY <1>1, <1>3, <2>1, ResolvesToWhatIsSaid DEF TypeOK, Threads
  <2>3. ThreadsFrom(Len(disks))'
    BY <1>1, <1>3, <2>2, DiskIsLast DEF ThreadsFrom, Says
  <2>4. TypeOK'
    BY <1>1, <1>3, <2>2 DEF TypeOK
  <2>5. Len(disks) \in DOMAIN disks' /\ Len(disks) = Len(disks')
    BY <1>1, <1>3, DiskIsLast
  <2>6. (\E i \in DOMAIN disks : ThreadsFrom(i))'
    BY <1>3, <2>3, <2>5
  <2> QED
    BY <1>1, <1>3, <2>4, <2>6 DEF Inv, Loading
<1> QED
  BY <1>2, <1>3 DEF SizeRuntime

(* run: everything else is the disk's of now.                              *)
LEMMA ConfigureKeepsInv ==
    ASSUME Inv, Configure
    PROVE  Inv'
<1>1. TypeOK /\ pc = "run" /\ combined = {}
  BY DEF Inv, Configure
<1>2. CASE Exit("config") \/ Exit("upstream")
  BY <1>1, <1>2, ExitKeepsInv
<1>3. CASE /\ app' = [f \in Settings |->
                         IF f = "worker_threads" THEN app[f] ELSE Resolve(f)]
           /\ patterns' = ModsecRules
           /\ pc' = "glob"
           /\ UNCHANGED <<cli, disks, cause, found, combined>>
  <2>1. PICK i \in DOMAIN disks : ThreadsFrom(i)
    BY <1>1 DEF Inv
  <2>2. PICK j \in DOMAIN disks : i <= j /\ Disk = disks[j]
    BY <1>1, <2>1, DiskIsLast
  <2>3. /\ app'[Threads] = app[Threads]
        /\ \A f \in Settings \ {Threads} : app'[f] = Says(Disk, f)
    BY <1>1, <1>3, ResolvesToWhatIsSaid DEF Threads, Settings, Looked
  <2>4. OneMoment(i, j)'
    BY <1>3, <2>1, <2>2, <2>3 DEF OneMoment, ThreadsFrom, Says
  <2>5. LoadedOrLeft(j)'
    <3>1. RulesOf(disks[j])' = RulesOf(Disk)
      BY <1>3, <2>2 DEF RulesOf
    <3>2. PatternsLoaded' = {}
      BY <1>1, <1>3 DEF PatternsLoaded
    <3> QED
      BY <1>1, <1>3, <3>1, <3>2, RulesAreWhatIsSaid DEF LoadedOrLeft
  <2>6. TypeOK'
    BY <1>1, <1>3, RulesAreWhatIsSaid DEF TypeOK
  <2>7. i \in DOMAIN disks' /\ j \in DOMAIN disks'
    BY <1>3, <2>1, <2>2
  <2>8. WholeOrBeingRead(j)'
    BY <1>1, <1>3 DEF WholeOrBeingRead, PatternsLoaded
  <2>9. (\E a, b \in DOMAIN disks : Moment(a, b))'
    BY <2>4, <2>5, <2>7, <2>8 DEF Moment
  <2> QED
    BY <1>3, <2>6, <2>9 DEF Inv
<1> QED
  BY <1>2, <1>3 DEF Configure

(* A rules file is read: its pattern is loaded, and gone when it was the   *)
(* last file of it.                                                        *)
LEMMA LoadKeepsInv ==
    ASSUME Inv, pc \in {"read", "literal"}, NEW n, NEW rest, Readable(n), Load(n, rest),
           pc = "read" => rest = found \ {n},
           pc = "literal" => n = Head(patterns).literal
    PROVE  Inv'
<1>h. PICK head : head = Head(patterns)
  OBVIOUS
<1>1. /\ TypeOK /\ patterns \in Seq(Patterns) /\ patterns # << >>
      /\ UNCHANGED <<cli, disks, app, cause>>
  BY DEF Inv, TypeOK, Load
<1>2. /\ head \in Patterns /\ Tail(patterns) \in Seq(Patterns)
      /\ Range(patterns) = {head} \union Range(Tail(patterns))
  BY <1>1, <1>h, HeadAndTail
<1>3. /\ combined' = combined \union {<< head, n, Disk.rules[n] >>}
      /\ Disk.rules[n] \in {"rules", "uncompilable"}
      /\ patterns' = IF rest = {} THEN Tail(patterns) ELSE patterns
      /\ pc' = IF rest = {} THEN "glob" ELSE "read"
      /\ found' = rest
  BY <1>h DEF Load, Readable
<1>4. PatternsLoaded' = PatternsLoaded \union {head} /\ n \in FilesLoaded(head)'
  <2> DEFINE rule == << head, n, Disk.rules[n] >>
  <2>1. rule[1] = head /\ rule[2] = n /\ combined' = combined \union {rule}
    BY <1>3
  <2> HIDE DEF rule
  <2> QED
    BY <2>1 DEF PatternsLoaded, FilesLoaded
<1>5. PatternsLoaded' \union Range(patterns') = PatternsLoaded \union Range(patterns)
  BY <1>2, <1>3, <1>4
<1>6. PICK i \in DOMAIN disks, j \in DOMAIN disks : Moment(i, j)
  BY DEF Inv, Loading
<1>7. WholeOrBeingRead(j)'
  <2>1. combined \subseteq combined' /\ disks' = disks
    BY <1>1, <1>3
  <2>2. LoadedBut(head, j, rest)'
    <3>1. CASE pc = "read"
      <4>1. LoadedBut(head, j, found) /\ found \subseteq rest \union FilesLoaded(head)'
        BY <1>h, <1>4, <1>6, <3>1 DEF Moment, WholeOrBeingRead
      <4> QED
        BY <2>1, <4>1, LoadedStays
    <3>2. CASE pc = "literal"
      <4>1. LoadedBut(head, j, {n}) /\ {n} \subseteq rest \union FilesLoaded(head)'
        BY <1>h, <1>4, <1>6, <3>2 DEF Moment, WholeOrBeingRead
      <4> QED
        BY <2>1, <4>1, LoadedStays
    <3> QED
      BY <3>1, <3>2
  <2>3. ASSUME NEW p \in PatternsLoaded, p # head PROVE LoadedBut(p, j, {})'
    <3>1. LoadedBut(p, j, {})
      BY <1>h, <1>6, <2>3 DEF Moment, WholeOrBeingRead
    <3> QED
      BY <2>1, <3>1, LoadedStays
  <2>4. CASE rest = {}
    BY <1>3, <1>4, <2>2, <2>3, <2>4 DEF WholeOrBeingRead
  <2>5. CASE rest # {}
    <3>1. pc' = "read" /\ Head(patterns') = head /\ found' = rest
      BY <1>h, <1>3, <2>5
    <3> QED
      BY <1>4, <2>2, <2>3, <3>1 DEF WholeOrBeingRead
  <2> QED
    BY <2>4, <2>5
<1>8. (\E a, b \in DOMAIN disks : Moment(a, b))'
  BY <1>1, <1>5, <1>6, <1>7, MomentStays DEF Moment
<1>9. TypeOK'
  <2>1. \A r \in combined' : r[1] \in Patterns /\ r[3] \in {"rules", "uncompilable"}
    BY <1>1, <1>2, <1>3 DEF TypeOK
  <2> QED
    BY <1>1, <1>2, <1>3, <2>1 DEF TypeOK
<1> QED
  BY <1>3, <1>8, <1>9 DEF Inv

(* The steps from the glob to the listener keep settings and rules.        *)
LEMMA LaterStepKeepsInv ==
    ASSUME Inv, Glob \/ ReadMatched \/ ReadLiteral \/ Assemble \/ Bind
    PROVE  Inv'
<1>1. TypeOK /\ pc \in Loading \ {"listening"}
  BY DEF Inv, Glob, ReadMatched, ReadLiteral, Assemble, Bind, Loading
<1>2. CASE Exit("rules") \/ Exit("address") \/ Exit("bind")
  BY <1>1, <1>2, ExitKeepsInv DEF Loading
<1>3. CASE \E n, rest : /\ pc \in {"read", "literal"} /\ Readable(n) /\ Load(n, rest)
                        /\ pc = "read" => rest = found \ {n}
                        /\ pc = "literal" => n = Head(patterns).literal
  BY <1>3, LoadKeepsInv
<1>4. ASSUME \/ pc' = "literal"
             \/ pc' = "read" /\ found' # {}
             \/ pc' = "bind" /\ Compiles /\ patterns = << >>
             \/ pc' = "listening" /\ pc = "bind",
             pc' \in {"literal", "read"} =>
                patterns # << >> /\ pc # "read" /\ found' = Matched
                  /\ (pc' = "literal" <=> Matched = {}),
             pc' \notin {"literal", "read"} => pc # "read",
             UNCHANGED <<cli, disks, cause, app, patterns, combined>>
      PROVE  Inv'
  <2>1. (\E i, j \in DOMAIN disks : Moment(i, j))'
    <3>1. PICK i \in DOMAIN disks, j \in DOMAIN disks : Moment(i, j)
      BY <1>1 DEF Inv, Loading
    <3>2. PatternsLoaded' = PatternsLoaded /\ pc # "read"
      BY <1>4 DEF PatternsLoaded
    <3>3. \A p \in PatternsLoaded : LoadedBut(p, j, {})'
      <4> TAKE p \in PatternsLoaded
      <4>1. LoadedBut(p, j, {})
        BY <3>1, <3>2 DEF Moment, WholeOrBeingRead
      <4> QED
        BY <1>4, <4>1, LoadedStays
    <3>4. ASSUME pc' \in {"literal", "read"}
          PROVE  LoadedBut(Head(patterns), j,
                           IF Matched = {} THEN {Head(patterns).literal} ELSE Matched)'
      <4>1. FilesOf(Disk, Head(patterns))
              = IF Matched = {} THEN {Head(patterns).literal} ELSE Matched
        BY DEF FilesOf, Matched
      <4>2. Disk' = Disk /\ Matched' = Matched /\ Head(patterns)' = Head(patterns)
        BY <1>4 DEF Disk, Matched
      <4>3. Len(disks) \in j..Len(disks) /\ Disk = disks[Len(disks)] /\ disks' = disks
        BY <1>1, <1>4, DiskIsLast
      <4>4. FilesOf(disks[Len(disks)], Head(patterns))' = FilesOf(Disk, Head(patterns))
        BY <1>4, <4>3 DEF FilesOf
      <4> QED
        BY <4>1, <4>2, <4>3, <4>4 DEF LoadedBut
    <3>5. WholeOrBeingRead(j)'
      <4>1. Matched' = Matched
        BY <1>4 DEF Disk, Matched
      <4>2. CASE pc' = "read"
        BY <1>4, <3>2, <3>3, <3>4, <4>1, <4>2 DEF WholeOrBeingRead
      <4>3. CASE pc' = "literal"
        BY <1>4, <3>2, <3>3, <3>4, <4>1, <4>3 DEF WholeOrBeingRead
      <4>4. CASE pc' \notin {"read", "literal"}
        BY <3>2, <3>3, <4>4 DEF WholeOrBeingRead
      <4> QED
        BY <4>2, <4>3, <4>4
    <3> QED
      BY <1>4, <3>1, <3>2, <3>5, MomentStays DEF Moment
  <2>2. TypeOK'
    BY <1>1, <1>4 DEF TypeOK, Loading
  <2>3. Compiles' <=> Compiles
    BY <1>4 DEF Compiles
  <2> QED
    BY <1>4, <2>1, <2>2, <2>3 DEF Inv
<1>5. CASE Glob
  <2>1. CASE Exit("rules")
    BY <1>2, <2>1
  <2>2. CASE ~Exit("rules")
    <3>1. /\ patterns # << >> /\ found' = Matched /\ pc = "glob"
          /\ pc' = IF Matched = {} THEN "literal" ELSE "read"
          /\ UNCHANGED <<cli, disks, cause, app, patterns, combined>>
      BY <1>5, <2>2 DEF Glob
    <3> QED
      BY <1>4, <3>1
  <2> QED
    BY <2>1, <2>2
<1>6. CASE ReadMatched
  BY <1>2, <1>3, <1>6 DEF ReadMatched
<1>7. CASE ReadLiteral
  BY <1>2, <1>3, <1>7 DEF ReadLiteral
<1>8. CASE Assemble \/ Bind
  <2>1. CASE Exit("rules") \/ Exit("address") \/ Exit("bind")
    BY <1>2, <2>1
  <2>2. CASE ~(Exit("rules") \/ Exit("address") \/ Exit("bind"))
    <3>1. /\ \/ pc' = "bind" /\ Compiles /\ patterns = << >>
             \/ pc' = "listening" /\ pc = "bind"
          /\ pc \in {"glob", "bind"}
          /\ UNCHANGED <<cli, disks, cause, app, patterns, combined>>
      BY <1>8, <2>2 DEF Assemble, Bind
    <3> QED
      BY <1>4, <3>1
  <2> QED
    BY <2>1, <2>2
<1> QED
  BY <1>5, <1>6, <1>7, <1>8

(* Whatever the disk is replaced by, it was what it was.                   *)
LEMMA EditKeepsInv ==
    ASSUME Inv, Edit
    PROVE  Inv'
<1>1. TypeOK /\ UNCHANGED <<cli, pc, cause, app, patterns, found, combined>>
  BY DEF Inv, Edit
<1>2. PICK d \in Disks : disks' = Append(disks, d)
  BY DEF Edit
<1>3. /\ disks' \in Seq(Disks) /\ disks' # << >>
      /\ \A i \in DOMAIN disks : i \in DOMAIN disks' /\ disks'[i] = disks[i]
  BY <1>1, <1>2 DEF TypeOK
<1>4. \A i \in DOMAIN disks : ThreadsFrom(i) => ThreadsFrom(i)'
  BY <1>1, <1>3 DEF ThreadsFrom, Says
<1>5. \A i, j \in DOMAIN disks : OneMoment(i, j) => OneMoment(i, j)'
  BY <1>1, <1>3, <1>4 DEF OneMoment, Says
<1>6. \A j \in DOMAIN disks : LoadedOrLeft(j) => LoadedOrLeft(j)'
  BY <1>1, <1>3 DEF LoadedOrLeft, RulesOf, PatternsLoaded
<1>11. ASSUME NEW j \in DOMAIN disks, NEW p, NEW more, LoadedBut(p, j, more)
       PROVE  LoadedBut(p, j, more)'
  <2>1. PICK i \in j..Len(disks) : FilesOf(disks[i], p) \subseteq FilesLoaded(p) \union more
    BY <1>11 DEF LoadedBut
  <2>2. i \in DOMAIN disks /\ i \in j..Len(disks')
    BY <1>1, <1>2, <2>1 DEF TypeOK
  <2>3. FilesOf(disks[i], p)' = FilesOf(disks[i], p) /\ FilesLoaded(p)' = FilesLoaded(p)
    BY <1>1, <1>3, <2>2 DEF FilesOf, FilesLoaded
  <2> QED
    BY <2>1, <2>2, <2>3 DEF LoadedBut
<1>12. \A j \in DOMAIN disks : WholeOrBeingRead(j) => WholeOrBeingRead(j)'
  <2> TAKE j \in DOMAIN disks
  <2> SUFFICES ASSUME WholeOrBeingRead(j) PROVE WholeOrBeingRead(j)'
    OBVIOUS
  <2>1. PatternsLoaded' = PatternsLoaded
    BY <1>1 DEF PatternsLoaded
  <2>2. \A p, more : LoadedBut(p, j, more) => LoadedBut(p, j, more)'
    BY <1>11
  <2> QED
    BY <1>1, <2>1, <2>2 DEF WholeOrBeingRead
<1>7. TypeOK'
  BY <1>1, <1>3 DEF TypeOK
<1>8. Compiles' <=> Compiles
  BY <1>1 DEF Compiles
<1>9. pc' = "run" => (\E i \in DOMAIN disks : ThreadsFrom(i))'
  BY <1>1, <1>3, <1>4 DEF Inv
<1>10. pc' \in Loading => (\E i, j \in DOMAIN disks : Moment(i, j))'
  BY <1>1, <1>3, <1>5, <1>6, <1>12 DEF Inv, Moment
<1> QED
  BY <1>1, <1>7, <1>8, <1>9, <1>10 DEF Inv

(* What is known of a start in every reachable state.                      *)
LEMMA StartInvariance == Spec => []Inv
<1>1. Init => Inv
  <2> SUFFICES ASSUME Init PROVE Inv
    OBVIOUS
  <2>1. disks \in Seq(Disks) /\ disks # << >>
    <3>1. PICK d \in Disks : disks = << d >>
      BY DEF Init
    <3> QED
      BY <3>1
  <2> QED
    BY <2>1 DEF Init, Inv, TypeOK, Loading
<1>2. Inv /\ [Next]_vars => Inv'
  <2> SUFFICES ASSUME Inv, [Next]_vars PROVE Inv'
    OBVIOUS
  <2>1. CASE SizeRuntime
    BY <2>1, SizeRuntimeKeepsInv
  <2>2. CASE Configure
    BY <2>2, ConfigureKeepsInv
  <2>3. CASE Glob \/ ReadMatched \/ ReadLiteral \/ Assemble \/ Bind
    BY <2>3, LaterStepKeepsInv
  <2>4. CASE Edit
    BY <2>4, EditKeepsInv
  <2>5. CASE UNCHANGED vars
    <3>1. PatternsLoaded' = PatternsLoaded /\ Compiles' = Compiles /\ TypeOK' = TypeOK
      BY <2>5 DEF vars, PatternsLoaded, Compiles, TypeOK
    <3>2. \A i, j \in DOMAIN disks : Moment(i, j) => Moment(i, j)'
      <4> TAKE i \in DOMAIN disks, j \in DOMAIN disks
      <4>1. OneMoment(i, j) /\ LoadedOrLeft(j) => (OneMoment(i, j) /\ LoadedOrLeft(j))'
        BY <2>5, <3>1 DEF vars, OneMoment, ThreadsFrom, LoadedOrLeft, Says, RulesOf
      <4>2. \A p, more : LoadedBut(p, j, more) => LoadedBut(p, j, more)'
        BY <2>5, LoadedStays DEF vars
      <4>3. WholeOrBeingRead(j) => WholeOrBeingRead(j)'
        BY <2>5, <3>1, <4>2 DEF vars, WholeOrBeingRead
      <4> QED
        BY <4>1, <4>3 DEF Moment
    <3> QED
      BY <2>5, <3>1, <3>2 DEF vars, Inv, ThreadsFrom, Says
  <2> QED
    BY <2>1, <2>2, <2>3, <2>4, <2>5 DEF Next, Start
<1> QED
  BY <1>1, <1>2, PTL DEF Spec

(* The state of a start is well typed.  (main.rs:9-27, proxy.rs:612-760)   *)
THEOREM TypeCorrect == Spec => []TypeOK
<1>1. Inv => TypeOK
  BY DEF Inv
<1> QED
  BY <1>1, StartInvariance, PTL

(* A process that listens runs under the settings of one moment, but for   *)
(* the thread count, which may be from before; for any number of           *)
(* replacements of the file.  (main.rs:12-19, proxy.rs:722-936)            *)
THEOREM RunsUnderOneMoment == Spec => []SettingsOfOneMoment
<1>1. Inv => SettingsOfOneMoment
  BY DEF Inv, SettingsOfOneMoment, Moment, OneMoment, ThreadsFrom, Threads, Loading
<1> QED
  BY <1>1, StartInvariance, PTL

(* A process that listens has read, for every pattern that the settings    *)
(* name, all the files it had at one moment, and all it has read compiles; *)
(* for any number of files that come and go.  (proxy.rs:612-638)           *)
THEOREM EnforcesEveryPattern == Spec => []EveryPatternEnforced
<1>1. ASSUME Inv, pc \in {"bind", "listening"}
      PROVE  /\ \E j \in DOMAIN disks :
                   /\ PatternsLoaded = Range(RulesOf(disks[j]))
                   /\ \A p \in PatternsLoaded : \E i \in j..Len(disks) :
                         FilesOf(disks[i], p) \subseteq FilesLoaded(p)
             /\ \A r \in combined : r[3] = "rules"
  <2>1. patterns = << >> /\ Compiles
    BY <1>1 DEF Inv
  <2>2. Range(<< >>) = {}
    BY DEF Range
  <2>3. PICK j \in DOMAIN disks : LoadedOrLeft(j) /\ WholeOrBeingRead(j)
    BY <1>1 DEF Inv, Loading, Moment
  <2>4. Range(RulesOf(disks[j])) = PatternsLoaded
    BY <2>1, <2>2, <2>3 DEF LoadedOrLeft
  <2>5. \A p \in PatternsLoaded : \E i \in j..Len(disks) :
           FilesOf(disks[i], p) \subseteq FilesLoaded(p)
    BY <1>1, <2>3 DEF WholeOrBeingRead, LoadedBut
  <2>6. \A r \in combined : r[3] = "rules"
    BY <1>1, <2>1 DEF Inv, TypeOK, Compiles
  <2> QED
    BY <2>4, <2>5, <2>6
<1>2. Inv => EveryPatternEnforced
  BY <1>1 DEF EveryPatternEnforced
<1> QED
  BY <1>2, StartInvariance, PTL

-----------------------------------------------------------------------------
(***************************************************************************)
(* A disk nobody touches.                                                  *)
(***************************************************************************)

(* The file n has been read for the pattern p.                             *)
Taken(p, n) == n \in DOMAIN Disk.rules /\ << p, n, Disk.rules[n] >> \in combined

Named == Range(RulesOf(Disk))

(* What has been found in order when the start has come to pc.             *)
ConfigInOrder ==
    /\ cli.config => Disk.file = "sound"
    /\ Says(Disk, Threads) # 0

RulesInOrder ==
    /\ Says(Disk, "upstream") \in {"http", "https"}
    /\ app["listen"] = Says(Disk, "listen")
    /\ patterns \in Seq(Named)
    /\ \A p \in Named \ Range(patterns) :
          Listable(Disk, p) /\ \A n \in FilesOf(Disk, p) : Taken(p, n)
    /\ \A r \in combined :
          \E p \in Named : \E n \in FilesOf(Disk, p) :
              n \in DOMAIN Disk.rules /\ r = << p, n, Disk.rules[n] >>

HeadInOrder ==
    /\ Listable(Disk, Head(patterns))
    /\ pc = "read" => /\ found \subseteq Matched
                      /\ \A n \in Matched \ found : Taken(Head(patterns), n)
    /\ pc = "literal" => Matched = {}

InOrder ==
    /\ pc \in {"run"} \union Loading => ConfigInOrder
    /\ pc \in Loading => RulesInOrder
    /\ pc \in {"read", "literal"} => HeadInOrder
    /\ pc \in {"bind", "listening"} => app["listen"] # "a name"
    /\ pc = "exited" /\ cause # "bind" => ~Sound(Disk)

UndisturbedInv == Len(disks) = 1 => InOrder

(* What the command line and the disk say does not change with the start.  *)
LEMMA SameDisk ==
    ASSUME UNCHANGED <<cli, disks>>
    PROVE  /\ Disk' = Disk /\ Named' = Named
           /\ ConfigInOrder' <=> ConfigInOrder
           /\ Sound(Disk)' <=> Sound(Disk)
           /\ \A f \in Settings : Says(Disk, f)' = Says(Disk, f)
           /\ \A p : FilesOf(Disk, p)' = FilesOf(Disk, p)
<1>1. Disk' = Disk
  BY DEF Disk
<1> QED
  BY <1>1 DEF Named, RulesOf, ConfigInOrder, Says, Sound, Loads, FilesOf

(* Threads, and whatever else the start looks at, are settings.            *)
LEMMA LookedSettings == {"worker_threads", "upstream", "listen"} \subseteq Settings
BY DEF Settings, Looked

(* What is known of the rules stays while what it speaks of does.          *)
LEMMA RulesStay ==
    ASSUME UNCHANGED <<cli, disks, app, patterns, combined>>
    PROVE  RulesInOrder' <=> RulesInOrder
BY SameDisk, LookedSettings DEF RulesInOrder, Taken

(* A disk with a pattern whose files do not load is not sound.             *)
LEMMA UnloadableUnsound ==
    ASSUME NEW p \in Named,
           \/ ~Listable(Disk, p)
           \/ \E n \in FilesOf(Disk, p) : ~(n \in DOMAIN Disk.rules /\ Disk.rules[n] = "rules")
    PROVE  ~Sound(Disk)
BY DEF Sound, Loads, FilesOf, Named

(* A start that exits names a reason that is there.                        *)
LEMMA ExitStaysInOrder ==
    ASSUME NEW why \in {"config", "threads", "upstream", "rules", "address", "bind"},
           Exit(why), why = "bind" \/ ~Sound(Disk)
    PROVE  UndisturbedInv'
<1>1. /\ pc' = "exited" /\ cause' = why /\ UNCHANGED <<cli, disks>>
  BY DEF Exit
<1>2. Sound(Disk)' <=> Sound(Disk)
  BY <1>1, SameDisk
<1> QED
  BY <1>1, <1>2 DEF UndisturbedInv, InOrder, Loading

(* main: a file that loads and a thread count that is not zero.            *)
LEMMA SizeRuntimeStaysInOrder ==
    ASSUME TypeOK, UndisturbedInv, Len(disks) = 1, SizeRuntime
    PROVE  UndisturbedInv'
<1>1. Resolve(Threads) = Says(Disk, Threads)
  BY LookedSettings, ResolvesToWhatIsSaid DEF Threads
<1>2. CASE Unloadable /\ Exit("config")
  BY <1>2, ExitStaysInOrder DEF Unloadable, Sound
<1>3. CASE Resolve("worker_threads") = 0 /\ Exit("threads")
  BY <1>1, <1>3, ExitStaysInOrder DEF Sound, Threads
<1>4. CASE /\ ~Unloadable /\ Resolve("worker_threads") # 0
           /\ pc' = "run" /\ UNCHANGED <<cli, disks>>
  <2>1. ConfigInOrder
    BY <1>1, <1>4 DEF ConfigInOrder, Unloadable, Threads
  <2> QED
    BY <1>4, <2>1, SameDisk DEF UndisturbedInv, InOrder, Loading
<1> QED
  BY <1>2, <1>3, <1>4 DEF SizeRuntime

(* run: an upstream that can be reached, and the patterns of rules.        *)
LEMMA ConfigureStaysInOrder ==
    ASSUME TypeOK, UndisturbedInv, Len(disks) = 1, combined = {}, Configure
    PROVE  UndisturbedInv'
<1>1. /\ Resolve("upstream") = Says(Disk, "upstream")
      /\ Resolve("listen") = Says(Disk, "listen")
  BY LookedSettings, ResolvesToWhatIsSaid
<1>2. CASE Unloadable /\ Exit("config")
  BY <1>2, ExitStaysInOrder DEF Unloadable, Sound
<1>3. CASE Resolve("upstream") \notin {"http", "https"} /\ Exit("upstream")
  BY <1>1, <1>3, ExitStaysInOrder DEF Sound
<1>4. CASE /\ Resolve("upstream") \in {"http", "https"}
           /\ app' = [f \in Settings |-> IF f = "worker_threads" THEN app[f] ELSE Resolve(f)]
           /\ patterns' = ModsecRules /\ pc' = "glob"
           /\ UNCHANGED <<cli, disks, combined>>
  <2>1. ConfigInOrder
    BY DEF UndisturbedInv, InOrder, Configure
  <2>2. patterns' = RulesOf(Disk) /\ patterns' \in Seq(Patterns)
    BY <1>4, RulesAreWhatIsSaid
  <2>3. patterns' \in Seq(Named) /\ Range(patterns') = Named
    <3>1. \A i \in 1..Len(patterns') : patterns'[i] \in Named
      BY <2>2 DEF Named, Range
    <3> QED
      BY <2>2, <3>1 DEF Named
  <2>4. app'["listen"] = Says(Disk, "listen") /\ Says(Disk, "upstream") \in {"http", "https"}
    BY <1>1, <1>4, LookedSettings
  <2>5. RulesInOrder'
    <3>1. /\ Disk' = Disk /\ Named' = Named /\ combined' = {}
          /\ Says(Disk, "upstream")' = Says(Disk, "upstream")
          /\ Says(Disk, "listen")' = Says(Disk, "listen")
      BY <1>4, SameDisk, LookedSettings
    <3> QED
      BY <2>3, <2>4, <3>1 DEF RulesInOrder
  <2> QED
    BY <1>4, <2>1, <2>5, SameDisk DEF UndisturbedInv, InOrder, Loading
<1> QED
  BY <1>2, <1>3, <1>4 DEF Configure

(* The first pattern left is one that the settings name.                   *)
LEMMA HeadNamed ==
    ASSUME patterns \in Seq(Named), patterns # << >>
    PROVE  /\ Head(patterns) \in Named /\ Tail(patterns) \in Seq(Named)
           /\ Range(patterns) \subseteq {Head(patterns)} \union Range(Tail(patterns))
<1>1. /\ Head(patterns) \in Named /\ Tail(patterns) \in Seq(Named)
      /\ Len(patterns) \in Nat /\ DOMAIN patterns = 1..Len(patterns)
      /\ DOMAIN Tail(patterns) = 1..(Len(patterns) - 1)
      /\ \A i \in 1..(Len(patterns) - 1) : Tail(patterns)[i] = patterns[i + 1]
      /\ Head(patterns) = patterns[1]
  OBVIOUS
<1>2. ASSUME NEW i \in 1..Len(patterns), i # 1
      PROVE  patterns[i] \in Range(Tail(patterns))
  <2>1. i - 1 \in 1..(Len(patterns) - 1) /\ (i - 1) + 1 = i
    BY <1>1, <1>2
  <2> QED
    BY <1>1, <2>1 DEF Range
<1> QED
  BY <1>1, <1>2 DEF Range

(* The files that are read of a pattern are the ones it has.               *)
LEMMA FilesMatched ==
    /\ Matched = {} => FilesOf(Disk, Head(patterns)) = {Head(patterns).literal}
    /\ Matched # {} => FilesOf(Disk, Head(patterns)) = Matched
BY DEF Matched, FilesOf

(* load_modsec, a pattern: its glob is well formed or it is an error.      *)
LEMMA GlobStaysInOrder ==
    ASSUME TypeOK, UndisturbedInv, Len(disks) = 1, Glob
    PROVE  UndisturbedInv'
<1>1. /\ ConfigInOrder /\ RulesInOrder /\ pc = "glob" /\ patterns # << >>
  BY DEF UndisturbedInv, InOrder, Glob, Loading
<1>2. Head(patterns) \in Named
  BY <1>1, HeadNamed DEF RulesInOrder
<1>3. CASE ~Listable(Disk, Head(patterns)) /\ Exit("rules")
  BY <1>2, <1>3, ExitStaysInOrder, UnloadableUnsound
<1>4. CASE /\ Listable(Disk, Head(patterns)) /\ found' = Matched
           /\ pc' = IF Matched = {} THEN "literal" ELSE "read"
           /\ UNCHANGED <<cli, disks, cause, app, patterns, combined>>
  <2>1. Matched' = Matched
    BY <1>4, SameDisk DEF Matched
  <2>2. HeadInOrder'
    BY <1>4, <2>1, SameDisk DEF HeadInOrder, Listable
  <2>3. RulesInOrder' <=> RulesInOrder
    BY <1>4, RulesStay
  <2> QED
    BY <1>1, <1>4, <2>2, <2>3, SameDisk DEF UndisturbedInv, InOrder, Loading
<1> QED
  BY <1>3, <1>4 DEF Glob

(* load_modsec, a file of a pattern.                                       *)
LEMMA LoadStaysInOrder ==
    ASSUME TypeOK, UndisturbedInv, Len(disks) = 1, pc \in {"read", "literal"},
           NEW n \in FilesOf(Disk, Head(patterns)), Readable(n),
           NEW rest, Load(n, rest),
           pc = "read" => n \in found /\ rest = found \ {n},
           pc = "literal" => rest = {}
    PROVE  UndisturbedInv'
<1>p. PICK p : p = Head(patterns)
  OBVIOUS
<1> DEFINE pair == << p, n, Disk.rules[n] >>
<1>1. ConfigInOrder /\ RulesInOrder /\ HeadInOrder /\ patterns # << >>
  BY DEF UndisturbedInv, InOrder, Loading, TypeOK
<1>2. /\ p \in Named /\ Tail(patterns) \in Seq(Named)
      /\ Range(patterns) \subseteq {p} \union Range(Tail(patterns))
  BY <1>p, <1>1, HeadNamed DEF RulesInOrder
<1>3. /\ combined' = combined \union {pair} /\ found' = rest
      /\ patterns' = IF rest = {} THEN Tail(patterns) ELSE patterns
      /\ pc' = IF rest = {} THEN "glob" ELSE "read"
      /\ UNCHANGED <<cli, disks, cause, app>>
      /\ n \in DOMAIN Disk.rules
  BY <1>p DEF Load, Readable
<1>4. Disk' = Disk /\ Named' = Named /\ \A q : FilesOf(Disk, q)' = FilesOf(Disk, q)
  BY <1>3, SameDisk
<1>5. /\ \A q, m : Taken(q, m) => Taken(q, m)'
      /\ Taken(p, n)'
  BY <1>3, <1>4 DEF Taken
<1>6. pc' = "read" => HeadInOrder'
  <2> SUFFICES ASSUME pc' = "read" PROVE HeadInOrder'
    OBVIOUS
  <2>1. rest # {} /\ pc = "read" /\ rest = found \ {n} /\ patterns' = patterns
    BY <1>3
  <2>2. Matched' = Matched
    BY <1>4, <2>1 DEF Matched
  <2>3. found' \subseteq Matched /\ \A m \in Matched \ found' : Taken(p, m)'
    BY <1>p, <1>1, <1>3, <1>5, <2>1 DEF HeadInOrder
  <2> QED
    BY <1>p, <1>1, <1>4, <2>1, <2>2, <2>3 DEF HeadInOrder, Listable
<1>7. rest = {} => Listable(Disk, p) /\ \A m \in FilesOf(Disk, p) : Taken(p, m)'
  <2> SUFFICES ASSUME rest = {} PROVE Listable(Disk, p) /\ \A m \in FilesOf(Disk, p) : Taken(p, m)'
    OBVIOUS
  <2>1. CASE pc = "read"
    <3>1. found = {n} /\ Matched # {}
      BY <1>1, <2>1 DEF HeadInOrder
    <3>2. \A m \in Matched : m # n => Taken(p, m)
      BY <1>p, <1>1, <2>1, <3>1 DEF HeadInOrder
    <3> QED
      BY <1>p, <1>1, <1>5, <3>1, <3>2, FilesMatched DEF HeadInOrder
  <2>2. CASE pc = "literal"
    <3>1. FilesOf(Disk, p) = {p.literal}
      BY <1>p, <1>1, <2>2, FilesMatched DEF HeadInOrder
    <3> QED
      BY <1>p, <1>1, <1>5, <3>1 DEF HeadInOrder
  <2> QED
    BY <2>1, <2>2
<1>8. RulesInOrder'
  <2>1. patterns' \in Seq(Named)'
    BY <1>1, <1>2, <1>3, <1>4 DEF RulesInOrder
  <2>2. ASSUME NEW q \in Named, q \notin Range(patterns')
        PROVE  Listable(Disk, q) /\ \A m \in FilesOf(Disk, q) : Taken(q, m)'
    <3>1. CASE q \in Range(patterns)
      BY <1>2, <1>3, <1>7, <2>2, <3>1
    <3>2. CASE q \notin Range(patterns)
      BY <1>1, <1>5, <3>2 DEF RulesInOrder
    <3> QED
      BY <3>1, <3>2
  <2>3. ASSUME NEW r \in combined'
        PROVE  \E q \in Named : \E m \in FilesOf(Disk, q) :
                   m \in DOMAIN Disk.rules /\ r = << q, m, Disk.rules[m] >>
    <3>1. CASE r \in combined
      BY <1>1, <3>1 DEF RulesInOrder
    <3>2. CASE r = pair
      BY <1>p, <1>2, <1>3, <3>2
    <3> QED
      BY <1>3, <2>3, <3>1, <3>2
  <2>4. /\ app'["listen"] = Says(Disk, "listen")'
        /\ Says(Disk, "upstream")' \in {"http", "https"}
    BY <1>1, <1>3, SameDisk, LookedSettings DEF RulesInOrder
  <2> QED
    BY <1>4, <2>1, <2>2, <2>3, <2>4 DEF RulesInOrder
<1> QED
  BY <1>1, <1>3, <1>6, <1>8, SameDisk DEF UndisturbedInv, InOrder, Loading

(* load_modsec, the files of a pattern: each is read or is an error.       *)
LEMMA ReadStaysInOrder ==
    ASSUME TypeOK, UndisturbedInv, Len(disks) = 1, ReadMatched \/ ReadLiteral
    PROVE  UndisturbedInv'
<1>1. /\ RulesInOrder /\ HeadInOrder /\ patterns # << >> /\ pc \in {"read", "literal"}
  BY DEF UndisturbedInv, InOrder, Loading, TypeOK, ReadMatched, ReadLiteral
<1>2. Head(patterns) \in Named
  BY <1>1, HeadNamed DEF RulesInOrder
<1>3. ASSUME NEW n \in FilesOf(Disk, Head(patterns)), ~Readable(n), Exit("rules")
      PROVE  UndisturbedInv'
  BY <1>2, <1>3, UnloadableUnsound, ExitStaysInOrder DEF Readable
<1>4. CASE ReadMatched
  <2>1. PICK n \in found : \/ Readable(n) /\ Load(n, found \ {n})
                           \/ ~Readable(n) /\ Exit("rules")
    BY <1>4 DEF ReadMatched
  <2>2. pc = "read" /\ n \in FilesOf(Disk, Head(patterns))
    BY <1>1, <1>4, FilesMatched DEF HeadInOrder, ReadMatched
  <2> QED
    BY <1>3, <2>1, <2>2, LoadStaysInOrder
<1>5. CASE ReadLiteral
  <2>1. pc = "literal" /\ Head(patterns).literal \in FilesOf(Disk, Head(patterns))
    BY <1>1, <1>5, FilesMatched DEF HeadInOrder, ReadLiteral
  <2> QED
    BY <1>3, <1>5, <2>1, LoadStaysInOrder DEF ReadLiteral
<1> QED
  BY <1>4, <1>5

(* The rules compile and the address is one, or it is an error.            *)
LEMMA AssembleStaysInOrder ==
    ASSUME TypeOK, UndisturbedInv, Len(disks) = 1, Assemble
    PROVE  UndisturbedInv'
<1>1. ConfigInOrder /\ RulesInOrder /\ pc = "glob"
  BY DEF UndisturbedInv, InOrder, Loading, Assemble
<1>2. CASE ~Compiles /\ Exit("rules")
  <2>1. PICK r \in combined : r[3] = "uncompilable"
    BY <1>2 DEF Compiles
  <2>2. PICK p \in Named : \E n \in FilesOf(Disk, p) : r = << p, n, Disk.rules[n] >>
    BY <1>1 DEF RulesInOrder
  <2>3. \E n \in FilesOf(Disk, p) : Disk.rules[n] # "rules"
    BY <2>1, <2>2
  <2> QED
    BY <1>2, <2>3, UnloadableUnsound, ExitStaysInOrder
<1>3. CASE app.listen = "a name" /\ Exit("address")
  BY <1>1, <1>3, ExitStaysInOrder DEF RulesInOrder, Sound
<1>4. CASE /\ app.listen # "a name" /\ pc' = "bind"
           /\ UNCHANGED <<cli, disks, cause, app, patterns, found, combined>>
  <2>1. RulesInOrder'
    BY <1>1, <1>4, RulesStay
  <2> QED
    BY <1>1, <1>4, <2>1, SameDisk DEF UndisturbedInv, InOrder, Loading
<1> QED
  BY <1>2, <1>3, <1>4 DEF Assemble

(* The listener is bound, or the address is taken.                         *)
LEMMA BindStaysInOrder ==
    ASSUME TypeOK, UndisturbedInv, Len(disks) = 1, Bind
    PROVE  UndisturbedInv'
<1>1. CASE Exit("bind")
  BY <1>1, ExitStaysInOrder
<1>2. CASE pc' = "listening" /\ UNCHANGED <<cli, disks, cause, app, patterns, found, combined>>
  <2>1. ConfigInOrder /\ RulesInOrder /\ app["listen"] # "a name"
    BY DEF UndisturbedInv, InOrder, Loading, Bind
  <2>2. RulesInOrder'
    BY <1>2, <2>1, RulesStay
  <2> QED
    BY <1>2, <2>1, <2>2, SameDisk DEF UndisturbedInv, InOrder, Loading
<1> QED
  BY <1>1, <1>2 DEF Bind

(* What is in order in every reachable state, while the disk is the first. *)
LEMMA UndisturbedInvariance == Spec => []UndisturbedInv
<1>1. Init => UndisturbedInv
  BY DEF Init, UndisturbedInv, InOrder, Loading
<1>2. Inv /\ UndisturbedInv /\ [Next]_vars => UndisturbedInv'
  <2> SUFFICES ASSUME Inv, UndisturbedInv, [Next]_vars, Len(disks') = 1
               PROVE  UndisturbedInv'
    BY DEF UndisturbedInv
  <2>1. TypeOK
    BY DEF Inv
  <2>2. CASE Edit
    <3>1. PICK d \in Disks : disks' = Append(disks, d)
      BY <2>2 DEF Edit
    <3>2. disks \in Seq(Disks) /\ disks # << >>
      BY <2>1 DEF TypeOK
    <3>3. Len(disks') = Len(disks) + 1 /\ Len(disks) \in Nat /\ Len(disks) # 0
      BY <3>1, <3>2, AppendProperties, EmptySeq, LenProperties
    <3> QED
      BY <3>3
  <2>3. CASE UNCHANGED vars
    <3>1. Matched' = Matched
      BY <2>3, SameDisk DEF vars, Matched
    <3>2. /\ RulesInOrder' <=> RulesInOrder
          /\ HeadInOrder' <=> HeadInOrder
      BY <2>3, <3>1, SameDisk, RulesStay DEF vars, HeadInOrder, Taken
    <3> QED
      BY <2>3, <3>2, SameDisk DEF vars, UndisturbedInv, InOrder, Loading
  <2>4. CASE Start
    <3>1. Len(disks) = 1
      BY <2>4 DEF Start, SizeRuntime, Configure, Glob, ReadMatched, ReadLiteral, Assemble,
                  Bind, Exit, Load
    <3>2. pc = "run" => combined = {}
      BY DEF Inv
    <3>3. SizeRuntime => UndisturbedInv'
      BY <2>1, <3>1, SizeRuntimeStaysInOrder
    <3>4. Configure => UndisturbedInv'
      BY <2>1, <3>1, <3>2, ConfigureStaysInOrder DEF Configure
    <3>5. Glob => UndisturbedInv'
      BY <2>1, <3>1, GlobStaysInOrder
    <3>6. ReadMatched \/ ReadLiteral => UndisturbedInv'
      BY <2>1, <3>1, ReadStaysInOrder
    <3>7. Assemble \/ Bind => UndisturbedInv'
      BY <2>1, <3>1, AssembleStaysInOrder, BindStaysInOrder
    <3> QED
      BY <2>4, <3>3, <3>4, <3>5, <3>6, <3>7 DEF Start
  <2> QED
    BY <2>2, <2>3, <2>4 DEF Next
<1> QED
  BY <1>1, <1>2, StartInvariance, PTL DEF Spec

(* On a disk that nobody touches, a start fails exactly when something it  *)
(* was given is unsound, or the address is taken; for every command line   *)
(* and every disk.  (main.rs:12-19, proxy.rs:612-760, 938-940, 965)        *)
THEOREM StartsOnSoundDisks == Spec => []StartsExactlyWhenSound
<1>1. ASSUME Inv, UndisturbedInv, Len(disks) = 1, pc = "listening"
      PROVE  Sound(Disk)
  <2>1. /\ ConfigInOrder /\ RulesInOrder /\ app["listen"] # "a name"
        /\ patterns = << >> /\ Compiles /\ TypeOK
    BY <1>1 DEF UndisturbedInv, InOrder, Loading, Inv
  <2>2. Range(patterns) = {}
    <3>1. Range(<< >>) = {}
      BY DEF Range
    <3> QED
      BY <2>1, <3>1
  <2>3. ASSUME NEW p \in Named
        PROVE  Listable(Disk, p) /\ \A n \in FilesOf(Disk, p) : n \in DOMAIN Disk.rules /\ Disk.rules[n] = "rules"
    <3>1. Listable(Disk, p) /\ \A n \in FilesOf(Disk, p) : Taken(p, n)
      BY <2>1, <2>2 DEF RulesInOrder
    <3>2. ASSUME NEW n \in FilesOf(Disk, p) PROVE Disk.rules[n] = "rules"
      <4>1. << p, n, Disk.rules[n] >> \in combined
        BY <3>1 DEF Taken
      <4>2. << p, n, Disk.rules[n] >>[3] = Disk.rules[n]
        OBVIOUS
      <4> QED
        BY <2>1, <4>1, <4>2 DEF Compiles, TypeOK
    <3> QED
      BY <3>1, <3>2 DEF Taken
  <2>4. \A p \in Named : Loads(Disk, p)
    BY <2>3 DEF Loads, FilesOf
  <2> QED
    BY <2>1, <2>4 DEF Sound, Named, ConfigInOrder, RulesInOrder, Threads
<1>2. Inv /\ UndisturbedInv => StartsExactlyWhenSound
  BY <1>1 DEF UndisturbedInv, InOrder, StartsExactlyWhenSound
<1> QED
  BY <1>2, StartInvariance, UndisturbedInvariance, PTL
=============================================================================
