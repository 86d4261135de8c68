------------------------------- MODULE Startup ------------------------------
(***************************************************************************)
(* The start of the agent (main.rs up to the main loop): attach the probes *)
(* one after the other, fill MONITORED_PATHS, seed PROCESS_TREE, load the  *)
(* native rules, import the Sigma rules, build the sinks.  Any error ends  *)
(* the program.  The probes run from the moment they are attached: the     *)
(* openat probe scans the paths while they are still being written.        *)
(***************************************************************************)
EXTENDS FileIntegrity, SigmaImport, FiniteSets

CONSTANTS
  Inputs,        \* the configurations, rule files and opens to explore
  DefaultPaths,  \* monitored_paths of Config::default
  Occurrences    \* what can happen to be judged by the rules

\* ProbeLoader::load attaches in this order.
Probes == <<"sys_enter_execve", "sys_enter_connect", "sys_enter_openat",
            "sched_process_fork", "sched_process_exec">>

VARIABLES
  input,     \* [paths, opens, native, sigma]: the files read, and what processes open
  stage,     \* how far main has come
  attached,  \* how many of Probes are attached
  docs,      \* how many Sigma documents load_sigma_dir has read
  kept,      \* which of them it could translate, in the order they are read
  rules      \* RuleEngine::rules

startVars == <<input, stage, attached, docs, kept, rules>>
vars == <<startVars, fileVars>>

\* Mutant of MonitoredPaths: no path stands for no path.
MonitoredAsConfigured(configured) == configured

\* Config::normalize
MonitoredPaths(configured) == IF configured = <<>> THEN DefaultPaths ELSE configured

\* Inputs are among those FileIntegrity knows, and lists are lists.
ASSUME InputAssumption ==
  /\ DefaultPaths \in Configs
  /\ \A in \in Inputs :
       /\ in.paths = <<>> \/ in.paths \in Configs
       /\ in.opens \subseteq Names
       /\ in.native \in Seq(ToSet(in.native))
       /\ in.sigma \in Seq(ToSet(in.sigma))

\* A rule file that parses has a list of conditions, and its numbers, where
\* they are not negative, are u64 numbers: no others are read as integers.
ASSUME RuleFileAssumption ==
  \A in \in Inputs : \A i \in DOMAIN in.native :
    LET section == in.native[i].section IN
    /\ DOMAIN section \subseteq {"all", "any"} /\ DOMAIN section # {}
    /\ \A list \in DOMAIN section : \A c \in section[list] :
         c.value.type = "number" => c.value.of \in Int /\ c.value.of <= U64Max

\* What a Sigma document that parses can be: texts are sequences, numbers where
\* they are not negative are u64 numbers, and a name is not a pattern.
ASSUME SigmaFileAssumption ==
  \A in \in Inputs : \A d \in DOMAIN in.sigma :
    LET doc == in.sigma[d] IN
    /\ doc.condition.form \in {"name", "all of", "one of", "expression"}
    /\ doc.condition.form = "name" =>
         doc.condition.names # Star /\ \A m, n \in ToSet(doc.condition.names) : m = n
    /\ \A name \in DOMAIN doc.selections : doc.selections[name] # NotMapping =>
         \A item \in doc.selections[name] :
           LET value == item.value IN
           \/ value.type = "text" /\ IsText(value.of)
           \/ value.type = "number" /\ value.of \in Int /\ value.of <= U64Max
           \/ value.type = "list"

\* A process executes its own image, and names it by the whole path.
ASSUME OccurrenceAssumption ==
  \A o \in Occurrences :
    /\ o.kind \in Kinds
    /\ IsText(o.image) /\ IsText(o.parent) /\ IsText(o.path)
    /\ o.kind = "exec" => o.path = o.image
    /\ o.port \in 0..U64Max

Init ==
  /\ input \in Inputs
  /\ paths = MonitoredPaths(input.paths)
  /\ monitored = [i \in 1..MaxMonitored |-> <<>>] /\ next = 1 /\ open = NoOpen
  /\ stage = "attach" /\ attached = 0 /\ docs = 0 /\ kept = <<>> /\ rules = <<>>

\* `?` at any step returns from main; the drop of the loader detaches the probes.
Fail ==
  /\ stage \notin {"running", "failed"}
  /\ stage' = "failed" /\ attached' = 0
  /\ UNCHANGED <<input, docs, kept, rules, fileVars>>

Attach ==
  /\ stage = "attach"
  /\ attached' = attached + 1
  /\ stage' = IF attached' = Len(Probes) THEN "populate" ELSE "attach"
  /\ UNCHANGED <<input, docs, kept, rules, fileVars>>

SetPaths == stage = "populate" /\ Populate /\ UNCHANGED startVars

Populated ==
  /\ stage = "populate" /\ ~ Populating
  /\ stage' = "seed"
  /\ UNCHANGED <<input, attached, docs, kept, rules, fileVars>>

\* seed_process_tree is ProcessTree's.
Seed ==
  /\ stage = "seed"
  /\ stage' = "native"
  /\ UNCHANGED <<input, attached, docs, kept, rules, fileVars>>

Native(rule) == [id |-> rule.id, enabled |-> rule.enabled, group |-> ParseGroup(rule.section)]

NativeRules == [i \in DOMAIN input.native |-> Native(input.native[i])]

DistinctIds(list) == \A i, j \in DOMAIN list : list[i].id = list[j].id => i = j

\* Mutant of LoadNative: a rule that does not compile is left out.
LoadNativeThatCompile ==
  /\ stage = "native"
  /\ DistinctIds(NativeRules)
  /\ rules' = SelectSeq(NativeRules, LAMBDA r : Compiles(r.group))
  /\ stage' = "sigma"
  /\ UNCHANGED <<input, attached, docs, kept, fileVars>>

\* load_dir: a file that does not parse, an id twice or a bad regex is an error.
LoadNative ==
  /\ stage = "native"
  /\ DistinctIds(NativeRules)
  /\ \A i \in DOMAIN NativeRules : Compiles(NativeRules[i].group)
  /\ rules' = NativeRules
  /\ stage' = "sigma"
  /\ UNCHANGED <<input, attached, docs, kept, fileVars>>

\* One turn of load_sigma_dir: a document that does not parse is an error, one
\* that cannot be translated is skipped.
ReadDoc ==
  /\ stage = "sigma" /\ docs < Len(input.sigma)
  /\ docs' = docs + 1
  /\ kept' = IF Translate(input.sigma[docs']) = {} THEN kept ELSE Append(kept, docs')
  /\ UNCHANGED <<input, stage, attached, rules, fileVars>>

Imported == [i \in DOMAIN kept |-> CHOOSE r \in Translate(input.sigma[kept[i]]) : TRUE]

\* The second half of load_from_config: imported rules are appended, their ids
\* not compared, and a bad regex is an error.
ImportSigma ==
  /\ stage = "sigma" /\ docs = Len(input.sigma)
  /\ \A i \in DOMAIN Imported : Compiles(Imported[i].group)
  /\ rules' = rules \o Imported
  /\ stage' = "sinks"
  /\ UNCHANGED <<input, attached, docs, kept, fileVars>>

BuildSinks ==
  /\ stage = "sinks"
  /\ stage' = "running"
  /\ UNCHANGED <<input, attached, docs, kept, rules, fileVars>>

\* An open reaches the probe once that is attached; a scan that has begun ends.
OpenProbe ==
  /\ \/ \E path \in input.opens, write, readable \in BOOLEAN :
          /\ \E i \in 1..attached : Probes[i] = "sys_enter_openat"
          /\ Openat(path, write, readable)
     \/ ScanHit \/ ScanOn
  /\ UNCHANGED startVars

Next == Attach \/ SetPaths \/ Populated \/ Seed \/ LoadNative \/ ReadDoc \/ ImportSigma
        \/ BuildSinks \/ Fail \/ OpenProbe

Spec == Init /\ [][Next]_vars

-----------------------------------------------------------------------------
\* The start is all or nothing: the agent runs only with every probe attached,
\* every configured path in the array as far as it has room, every native rule
\* in force under an id of its own, and behind them a rule for every Sigma
\* document that can be translated, in the order of the documents.
RunningIsComplete ==
  stage = "running" =>
    /\ attached = Len(Probes)
    /\ \A j \in Wanted : monitored[j] = Key(paths[j])
    /\ Len(rules) = Len(input.native) + Len(kept)
    /\ ToSet(kept) = {d \in DOMAIN input.sigma : Translate(input.sigma[d]) # {}}
    /\ \A i, j \in DOMAIN kept : i < j => kept[i] < kept[j]
    /\ \A i \in DOMAIN kept : rules[Len(input.native) + i] \in Translate(input.sigma[kept[i]])
    /\ \A i, j \in DOMAIN input.native :
         /\ i # j => rules[i].id # rules[j].id
         /\ rules[i].id = input.native[i].id
    /\ \A r \in ToSet(rules) : Compiles(r.group)

\* The i-th rule raises an alert for the event of an occurrence.
Alerts(i, o) == i \in Evaluate(rules, Event(o))

IsNegative(cond) == cond.value.type = "number" /\ cond.value.of < 0

\* A native rule matches what its file says, with two exceptions in the code:
\* of two groups the second is dropped, and a negative number is cast to u64.
NativeAsWritten ==
  stage = "running" => \A i \in DOMAIN input.native : \A o \in Occurrences :
    LET section == input.native[i].section IN
    \/ {"all", "any"} \subseteq DOMAIN section
    \/ \E list \in DOMAIN section : \E c \in section[list] : IsNegative(c)
    \/ Alerts(i, o) <=> input.native[i].enabled /\ SectionSays(section, Event(o))

\* An imported rule misses nothing the document means, but where the
\* translation is known to be stricter: alternatives flattened by the kind, a
\* list of values, and the other cases of MayMiss.
ImportMissesOnlyWhereKnown ==
  stage = "running" => \A i \in DOMAIN kept : \A o \in Occurrences :
    LET doc == input.sigma[kept[i]] IN
    Means(doc, o) /\ ~ Alerts(Len(input.native) + i, o) => MayMiss(doc, o)

\* An imported rule matches nothing the document does not mean, but where the
\* translation is known to be laxer: dropped fields, categories and selections,
\* images reduced to names, requirements split into alternatives.
ImportExceedsOnlyWhereKnown ==
  stage = "running" => \A i \in DOMAIN kept : \A o \in Occurrences :
    LET doc == input.sigma[kept[i]] IN
    Alerts(Len(input.native) + i, o) /\ ~ Means(doc, o) => MayExceed(doc)
=============================================================================
