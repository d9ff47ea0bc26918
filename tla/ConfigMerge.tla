----------------------------- MODULE ConfigMerge ----------------------------
(***************************************************************************)
(* How the configuration is put together (internal/config/config.go): the  *)
(* main file, then the included files one after the other, each definition *)
(* of a check merged into those read before, then defaults and validation. *)
(*                                                                         *)
(* config.Checks is a Go slice: append moves it to a new array when its    *)
(* capacity is used up, and a pointer taken before then leads to the old   *)
(* copy.  The files are chosen one definition at a time.                   *)
(***************************************************************************)
EXTENDS Picking, SequencesExt

CONSTANTS
  Ids,          \* ids of checks
  Names,        \* ids of hosts
  Definitions,  \* what a file can say of a check
  HostLists,    \* hosts a file can define
  Sections,     \* what a file can say under "monitoring"
  MaxMain,      \* most checks in the main file
  MaxFiles,     \* most included files
  MaxDefs,      \* most checks in an included file
  MaxSpare      \* most spare room append leaves in an array it makes

RequiredStates == {"ok", "warning", "critical", "unknown"}

\* All of a definition but its id and its hosts; Blank has the zero values, which is
\* also what an explicit zero (enabled: false) leaves.
Blank == [named |-> FALSE, timeout |-> 0, interval |-> {}]
Body == [named : BOOLEAN, timeout : Nat, interval : SUBSET RequiredStates]

Unset == [threshold |-> 0, softFail |-> FALSE]

ASSUME FilesAssumption ==
  /\ Definitions \subseteq [id : Ids, hosts : Seq(Names), body : Body]
  /\ HostLists \subseteq Seq(Names)
  /\ Sections \subseteq [threshold : Int, softFail : BOOLEAN]
  /\ MaxMain \in Nat /\ MaxFiles \in Nat /\ MaxDefs \in Nat /\ MaxSpare \in Nat

VARIABLES
  stage,     \* "start", "between" files, "open": in an included file; "ready", "refused"
  hosts,     \* config.Hosts: ids only
  checks,    \* config.Checks
  settings,  \* config.Monitoring
  capacity,  \* cap(config.Checks)
  existing,  \* existingChecks: id -> where its pointer leads, and whether to the slice
  files,     \* included files opened
  defs,      \* definitions merged from the open file
  stranded,  \* history: the checks that were there when append last moved the array
  wanted     \* history: what the rules of the documents make of the definitions

vars == <<stage, hosts, checks, settings, capacity, existing, files, defs, stranded, wanted>>
merging == <<capacity, existing, defs, stranded, wanted>>

-----------------------------------------------------------------------------
LastOf(id) == SelectLastInSeq(checks, LAMBDA c : c.id = id)
Present == {checks[i].id : i \in DOMAIN checks}

\* Faulty: a definition without a timeout is taken for a partial one.
FaultyPartial(d) == d.hosts # <<>> /\ d.body.timeout = 0

isPartialCheckDefinition(d) == d.hosts # <<>> /\ d.body = Blank

\* append makes a new array when this one is full, with room as the runtime sees fit.
Moves == Len(checks) = capacity
Room == IF Moves THEN Len(checks) + 1 .. Len(checks) + 1 + MaxSpare ELSE {capacity}

\* A write through a pointer; one to the old array is lost.
Written(id, c) == IF existing[id].live THEN [checks EXCEPT ![existing[id].at] = c] ELSE checks

\* A map with an entry made or replaced.
Entered(map, id, e) == [i \in DOMAIN map \cup {id} |-> IF i = id THEN e ELSE map[i]]

\* Faulty: hosts are appended without a look at those that are there.
FaultyAbsent(old, new) == new

\* The hosts of a definition that the check does not have.
Absent(old, new) == Picked(new, {i \in DOMAIN new : new[i] \notin ToSet(old)})

\* A section overrides where it has a value; a flag is always taken over.
mergeMonitoringConfig(main, part) ==
  [threshold |-> IF part.threshold # 0 THEN part.threshold ELSE main.threshold,
   softFail |-> part.softFail]

setDefaults(s) == [s EXCEPT !.threshold = IF @ = 0 THEN 3 ELSE @]

validate(s) ==
  /\ s.threshold >= 1
  /\ IsInjective(hosts)
  /\ \A i \in DOMAIN checks : ToSet(checks[i].hosts) \subseteq ToSet(hosts)

\* validate fills in the intervals of a copy of the check: the map it completes is
\* that of the check, the map and the timeout it sets are lost.
Completed(c) == IF c.body.interval = {} THEN c
                                        ELSE [c EXCEPT !.body.interval = RequiredStates]

-----------------------------------------------------------------------------
\* docs/ModularConfig.md:406-409: a definition with an id and hosts adds the hosts, any
\* other replaces what was said before.  What is said of a check whose array was left
\* behind, in the file that did so, is lost: *existingCheck = newCheck and
\* existingCheck.Hosts = append(...) write to the old array.
Said(d) == [hosts |-> ToSet(d.hosts), body |-> d.body]

Record(d) ==
  wanted' = CASE d.id \in stranded -> wanted
              [] d.id \in DOMAIN wanted \ stranded /\ d.body = Blank ->
                   [wanted EXCEPT ![d.id].hosts = @ \cup ToSet(d.hosts)]
              [] OTHER -> Entered(wanted, d.id, Said(d))

Init == /\ stage = "start"
        /\ hosts = <<>> /\ checks = <<>> /\ settings = Unset
        /\ capacity = 0 /\ existing = <<>>
        /\ files = 0 /\ defs = 0
        /\ stranded = {} /\ wanted = <<>>

\* The decoder allocates exactly what the main file lists; ids are not compared.
ReadMain ==
  /\ stage = "start"
  /\ stage' = "between"
  /\ hosts' \in HostLists
  /\ checks' \in BoundedSeq(Definitions, MaxMain)
  /\ settings' \in {Unset} \cup Sections
  /\ capacity' = Len(checks')
  /\ wanted' = [id \in {checks'[i].id : i \in DOMAIN checks'} |->
                  Said(checks'[SelectLastInSeq(checks', LAMBDA c : c.id = id)])]
  /\ UNCHANGED <<existing, files, defs, stranded>>

\* Hosts are appended, and the pointers are taken before the first check is merged.
OpenInclude ==
  /\ stage = "between" /\ files < MaxFiles
  /\ stage' = "open"
  /\ \E hs \in HostLists \cup {<<>>} : hosts' = hosts \o hs
  /\ existing' = [id \in Present |-> [at |-> LastOf(id), live |-> TRUE]]
  /\ files' = files + 1
  /\ defs' = 0 /\ stranded' = {}
  /\ UNCHANGED <<checks, settings, capacity, wanted>>

\* One turn of the loop of mergeChecks over the definitions of the file.
MergeCheck(d) ==
  /\ stage = "open" /\ defs < MaxDefs
  /\ defs' = defs + 1
  /\ Record(d)
  /\ UNCHANGED <<stage, hosts, settings, files>>

appendHostsToCheck(d) ==
  /\ d.id \in DOMAIN existing
  /\ isPartialCheckDefinition(d)
  /\ LET c == checks[existing[d.id].at] IN
       checks' = Written(d.id, [c EXCEPT !.hosts = @ \o Absent(@, d.hosts)])
  /\ UNCHANGED <<capacity, existing, stranded>>

ReplaceCheck(d) ==
  /\ d.id \in DOMAIN existing
  /\ ~isPartialCheckDefinition(d)
  /\ checks' = Written(d.id, d)
  /\ UNCHANGED <<capacity, existing, stranded>>

\* Faulty: the new check is not entered in the map.
FaultyAdd(d) ==
  /\ d.id \notin DOMAIN existing
  /\ checks' = Append(checks, d)
  /\ capacity' \in Room
  /\ existing' = [id \in DOMAIN existing |->
                    [existing[id] EXCEPT !.live = @ /\ ~Moves]]
  /\ stranded' = IF Moves THEN Present ELSE stranded

\* A check with an id that is new, whole or not; when the array moves, all pointers
\* but its own are left behind.
AddCheck(d) ==
  /\ d.id \notin DOMAIN existing
  /\ checks' = Append(checks, d)
  /\ capacity' \in Room
  /\ existing' = Entered([id \in DOMAIN existing |->
                            [existing[id] EXCEPT !.live = @ /\ ~Moves]],
                         d.id, [at |-> Len(checks'), live |-> TRUE])
  /\ stranded' = IF Moves THEN Present ELSE stranded

\* The other sections of the file, of which none touches hosts or checks.
CloseInclude ==
  /\ stage = "open"
  /\ stage' = "between"
  /\ \/ UNCHANGED settings
     \/ \E s \in Sections : settings' = mergeMonitoringConfig(settings, s)
  /\ existing' = <<>> /\ stranded' = {} /\ defs' = 0
  /\ UNCHANGED <<hosts, checks, capacity, files, wanted>>

\* A file or directory that cannot be read or parsed ends the program.
LoadFails ==
  /\ stage \in {"start", "between"}
  /\ stage' = "refused"
  /\ UNCHANGED <<hosts, checks, settings, files, merging>>

Finish ==
  /\ stage = "between"
  /\ settings' = setDefaults(settings)
  /\ IF validate(settings')
     THEN /\ stage' = "ready"
          /\ checks' = [i \in DOMAIN checks |-> Completed(checks[i])]
     ELSE /\ stage' = "refused"
          /\ UNCHANGED checks
  /\ UNCHANGED <<hosts, files, merging>>

Next ==
  \/ ReadMain
  \/ OpenInclude
  \/ \E d \in Definitions :
       MergeCheck(d) /\ (appendHostsToCheck(d) \/ ReplaceCheck(d) \/ AddCheck(d))
  \/ CloseInclude
  \/ Finish
  \/ LoadFails

Spec == Init /\ [][Next]_vars

-----------------------------------------------------------------------------
\* The checks are what the rules of docs/ModularConfig.md:406-409 make of the
\* definitions, however these are spread over the files and whenever the slice moves,
\* but for exactly those definitions mergeChecks loses (Record): of a check that was
\* there when append moved the array, in the rest of the same file.  The document has
\* no such exception.  It also calls errors (:185-198, :187 and :209-223) a partial
\* definition of a check that is not there and a second full definition of one that is;
\* the code takes both, the first as a new check, the second by rule :409.  The
\* document does not say what a definition with an id alone means; the code replaces
\* the check.
MergedByTheRules ==
  (\A d \in Definitions : d.hosts # <<>> \/ d.body # Blank) =>
  (stage \in {"between", "open"} =>
    /\ Present = DOMAIN wanted
    /\ \A id \in Present : LET c == checks[LastOf(id)] IN
         ToSet(c.hosts) = wanted[id].hosts /\ c.body = wanted[id].body)

\* Merging never lists a host twice in a check, which would run the pair twice in every
\* pass, unless one definition did.
NoHostTwice ==
  (\A d \in Definitions : IsInjective(d.hosts)) =>
    \A i \in DOMAIN checks : IsInjective(checks[i].hosts)

\* No file makes a second entry of a check: the engine would store the last of the two
\* and drop the hosts of the other.
EntriesStayUnique ==
  [][stage # "start" =>
       (IsInjective([i \in DOMAIN checks |-> checks[i].id]) =>
          IsInjective([i \in DOMAIN checks' |-> checks'[i].id]))]_vars
=============================================================================
