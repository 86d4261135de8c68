---------------------------- MODULE StartupProofs ---------------------------
(***************************************************************************)
(* Proofs about the start of the agent and, in it, FileIntegrity, for any  *)
(* configuration and rule files, length of paths and buffers and number of *)
(* entries: first what loader and openat probe do to each other, then that *)
(* the start is an instance of it and all or nothing; and about the rules  *)
(* it loads, native and imported, for any documents and occurrences.       *)
(***************************************************************************)
EXTENDS Startup, SequenceTheorems, WellFoundedInduction, TLAPS

-----------------------------------------------------------------------------
(* Cutting a path.                                                         *)

\* A path cut at n keeps its first bytes.
LEMMA CutFacts ==
  ASSUME NEW p \in Seq(Bytes), NEW n \in Nat
  PROVE  /\ Cut(p, n) \in Seq(Bytes)
         /\ Len(Cut(p, n)) = IF Len(p) < n THEN Len(p) ELSE n
         /\ \A i \in 1..Len(Cut(p, n)) : Cut(p, n)[i] = p[i]
<1> DEFINE m == IF Len(p) < n THEN Len(p) ELSE n
<1>1. m \in Nat /\ m <= Len(p) /\ \A i \in 1..m : p[i] \in Bytes
  OBVIOUS
<1>2. Cut(p, n) = SubSeq(p, 1, m)
  BY DEF Cut
<1> HIDE DEF m
<1>3. /\ SubSeq(p, 1, m) \in Seq(Bytes)
      /\ Len(SubSeq(p, 1, m)) = IF 1 <= m THEN m - 1 + 1 ELSE 0
      /\ \A i \in 1..(m - 1 + 1) : SubSeq(p, 1, m)[i] = p[1 + i - 1]
  BY <1>1, SubSeqProperties
<1>4. Len(SubSeq(p, 1, m)) = m
  BY <1>1, <1>3
<1>5. \A i \in 1..m : SubSeq(p, 1, m)[i] = p[i]
  BY <1>1, <1>3
<1> QED
  BY <1>2, <1>3, <1>4, <1>5 DEF m

\* Cutting both sides does not part a path from its prefix.
LEMMA CutKeepsPrefix ==
  ASSUME NEW path \in Seq(Bytes), NEW p \in Seq(Bytes), NEW n \in Nat, StartsWith(path, p)
  PROVE  StartsWith(Cut(path, n), Cut(p, n))
<1>1. Len(p) <= Len(path) /\ \A i \in 1..Len(p) : path[i] = p[i]
  BY DEF StartsWith
<1>2. /\ Len(Cut(p, n)) = IF Len(p) < n THEN Len(p) ELSE n
      /\ \A i \in 1..Len(Cut(p, n)) : Cut(p, n)[i] = p[i]
  BY CutFacts
<1>3. /\ Len(Cut(path, n)) = IF Len(path) < n THEN Len(path) ELSE n
      /\ \A i \in 1..Len(Cut(path, n)) : Cut(path, n)[i] = path[i]
  BY CutFacts
<1>4. Len(p) \in Nat /\ Len(path) \in Nat
  OBVIOUS
<1>5. Len(Cut(p, n)) <= Len(Cut(path, n)) /\ Len(Cut(p, n)) <= Len(p)
  BY <1>1, <1>2, <1>3, <1>4
<1> QED
  BY <1>1, <1>2, <1>3, <1>4, <1>5 DEF StartsWith

\* What the front of a path starts with, the path starts with.
LEMMA FrontIsPrefix ==
  ASSUME NEW path \in Seq(Bytes), NEW q \in Seq(Bytes), NEW n \in Nat,
         StartsWith(Cut(path, n), q)
  PROVE  StartsWith(path, q)
<1>1. /\ Len(Cut(path, n)) = IF Len(path) < n THEN Len(path) ELSE n
      /\ \A i \in 1..Len(Cut(path, n)) : Cut(path, n)[i] = path[i]
  BY CutFacts
<1>2. Len(path) \in Nat /\ Len(q) \in Nat
  OBVIOUS
<1>3. Len(Cut(path, n)) <= Len(path)
  BY <1>1, <1>2
<1> QED
  BY <1>1, <1>2, <1>3 DEF StartsWith

\* A path that fits is stored whole.
LEMMA ShortKeyIsPath ==
  ASSUME NEW path \in Seq(Bytes), NEW p \in Seq(Bytes), Len(p) < MaxPathLen,
         StartsWith(path, Key(p))
  PROVE  StartsWith(path, p)
<1>1. MaxPathLen - 1 \in Nat /\ MaxPathLen \in Nat
  BY SizeAssumption
<1>2. /\ Len(Key(p)) = IF Len(p) < MaxPathLen - 1 THEN Len(p) ELSE MaxPathLen - 1
      /\ \A i \in 1..Len(Key(p)) : Key(p)[i] = p[i]
  BY <1>1, CutFacts DEF Key
<1>3. Len(p) \in Nat
  OBVIOUS
<1>4. Len(Key(p)) = Len(p)
  BY <1>1, <1>2, <1>3
<1> QED
  BY <1>2, <1>4 DEF StartsWith

\* A key is the front of its path, and empty only if the path is.
LEMMA KeyIsFront ==
  ASSUME NEW p \in Seq(Bytes), Key(p) # <<>>
  PROVE  \E n \in 1..Len(p) : Key(p) = Cut(p, n)
<1> DEFINE m == IF Len(p) < MaxPathLen - 1 THEN Len(p) ELSE MaxPathLen - 1
<1>1. MaxPathLen - 1 \in Nat /\ Len(p) \in Nat
  BY SizeAssumption
<1>2. Key(p) = Cut(p, m) /\ m \in 0..Len(p)
  BY <1>1 DEF Key, Cut
<1>3. Len(Key(p)) = m /\ Key(p) \in Seq(Bytes)
  BY <1>1, CutFacts DEF Key
<1>4. m # 0
  BY <1>3
<1> HIDE DEF m
<1>5. m \in 1..Len(p)
  BY <1>1, <1>2, <1>4
<1> QED
  BY <1>2, <1>5

LEMMA KeyType == ASSUME NEW p \in Seq(Bytes) PROVE Key(p) \in Seq(Bytes)
BY SizeAssumption, CutFacts DEF Key

-----------------------------------------------------------------------------
(* The inductive invariant.                                                *)

FileTypeOK ==
  /\ paths \in Seq(Seq(Bytes))
  /\ monitored \in [1..MaxMonitored -> Seq(Bytes)]
  /\ next \in 1..(MaxMonitored + 1)
  /\ open.at \in {"idle", "scan", "done"}
  /\ open.at # "idle" =>
       /\ open \in [at : {"scan", "done"}, entry : 1..MaxMonitored, path : Seq(Bytes),
                    write : BOOLEAN, readable : BOOLEAN, buf : Seq(Bytes),
                    since : 1..next, reported : BOOLEAN]
       /\ open.buf = ReadUserPath(open.path, open.readable)
  /\ open.at = "scan" => open.write /\ ~ open.reported

\* An entry holds the front of its path, and all of its key once it is set.
EntriesAreFronts ==
  \A j \in 1..MaxMonitored :
    /\ j < next => j <= Len(paths) /\ monitored[j] = Key(paths[j])
    /\ monitored[j] # <<>> =>
         /\ j <= Len(paths)
         /\ \E n \in 1..Len(paths[j]) : monitored[j] = Cut(paths[j], n)

\* The scan has not passed over an entry that was set when the open began.
NotPassedOver ==
  \A j \in Wanted :
    \/ open.at = "scan" /\ j < open.entry
    \/ open.at = "done" /\ open.write /\ ~ open.reported
    => (j < open.since => ~ StartsWith(open.buf, Key(paths[j])))

\* What the buffer matched when a report was made.
HitBy ==
  open.at = "done" /\ open.reported =>
    /\ open.write
    /\ \E j \in Wanted : \E n \in 1..Len(paths[j]) :
         /\ StartsWith(open.buf, Cut(paths[j], n))
         /\ j < open.since => Cut(paths[j], n) = Key(paths[j])

FileInv == FileTypeOK /\ EntriesAreFronts /\ NotPassedOver /\ HitBy

LEMMA FileInitInv == FileInit => FileInv
<1> SUFFICES ASSUME FileInit PROVE FileInv
  OBVIOUS
<1>1. /\ paths \in Seq(Seq(Bytes))
      /\ monitored = [i \in 1..MaxMonitored |-> <<>>]
      /\ next = 1 /\ open.at = "idle"
  BY NameAssumption DEF FileInit, NoOpen
<1>2. <<>> \in Seq(Bytes)
  OBVIOUS
<1>3. FileTypeOK
  BY <1>1, <1>2, SizeAssumption DEF FileTypeOK
<1>4. EntriesAreFronts
  BY <1>1 DEF EntriesAreFronts
<1> QED
  BY <1>1, <1>3, <1>4 DEF FileInv, NotPassedOver, HitBy

\* The loader writes an entry behind those that are set.
LEMMA CopyByteInv == FileInv /\ CopyByte => FileInv'
<1> SUFFICES ASSUME FileInv, CopyByte PROVE FileInv'
  OBVIOUS
<1> DEFINE p == paths[next]  n == Len(monitored[next])
<1>1. /\ next <= Len(paths) /\ next <= MaxMonitored /\ n < Len(Key(p))
      /\ monitored' = [monitored EXCEPT ![next] = Cut(p, n + 1)]
      /\ UNCHANGED <<paths, next, open>>
  BY DEF CopyByte, Populating
<1>2. /\ paths \in Seq(Seq(Bytes)) /\ monitored \in [1..MaxMonitored -> Seq(Bytes)]
      /\ next \in 1..MaxMonitored
  BY <1>1, SizeAssumption DEF FileInv, FileTypeOK
<1>3. p \in Seq(Bytes) /\ n \in Nat
  BY <1>1, <1>2
<1>4. Len(Key(p)) <= Len(p) /\ Len(Key(p)) \in Nat /\ Len(p) \in Nat
  BY <1>3, CutFacts, KeyType, SizeAssumption DEF Key
<1>5. n + 1 \in 1..Len(p) /\ Cut(p, n + 1) \in Seq(Bytes)
  BY <1>1, <1>3, <1>4, CutFacts
<1> HIDE DEF p, n
<1>6. FileTypeOK'
  BY <1>1, <1>2, <1>5 DEF FileInv, FileTypeOK
<1>7. EntriesAreFronts'
  BY <1>1, <1>2, <1>5 DEF FileInv, EntriesAreFronts, p
<1>8. NotPassedOver' /\ HitBy'
  BY <1>1 DEF FileInv, NotPassedOver, HitBy, Wanted
<1> QED
  BY <1>6, <1>7, <1>8 DEF FileInv

LEMMA SetReturnsInv == FileInv /\ SetReturns => FileInv'
<1> SUFFICES ASSUME FileInv, SetReturns PROVE FileInv'
  OBVIOUS
<1>1. /\ next <= Len(paths) /\ next <= MaxMonitored /\ monitored[next] = Key(paths[next])
      /\ next' = next + 1
      /\ UNCHANGED <<paths, monitored, open>>
  BY DEF SetReturns, Populating
<1>2. MaxMonitored \in Nat /\ next \in Nat
  BY SizeAssumption DEF FileInv, FileTypeOK
<1>3. FileTypeOK'
  <2>1. next' \in 1..(MaxMonitored + 1) /\ 1..next \subseteq 1..next'
    BY <1>1, <1>2 DEF FileInv, FileTypeOK
  <2>2. ASSUME open.at # "idle"
        PROVE  open \in [at : {"scan", "done"}, entry : 1..MaxMonitored, path : Seq(Bytes),
                         write : BOOLEAN, readable : BOOLEAN, buf : Seq(Bytes),
                         since : 1..next', reported : BOOLEAN]
    BY <2>1, <2>2 DEF FileInv, FileTypeOK
  <2> QED
    BY <1>1, <2>1, <2>2 DEF FileInv, FileTypeOK
<1>4. EntriesAreFronts'
  BY <1>1, <1>2 DEF FileInv, EntriesAreFronts
<1>5. NotPassedOver' /\ HitBy'
  BY <1>1 DEF FileInv, NotPassedOver, HitBy, Wanted
<1> QED
  BY <1>3, <1>4, <1>5 DEF FileInv

LEMMA OpenatInv ==
  ASSUME FileInv, NEW path \in Names, NEW write \in BOOLEAN, NEW readable \in BOOLEAN,
         Openat(path, write, readable)
  PROVE  FileInv'
<1>1. /\ open' = [at |-> IF write THEN "scan" ELSE "done", entry |-> 1,
                  path |-> path, write |-> write, readable |-> readable,
                  buf |-> ReadUserPath(path, readable), since |-> next, reported |-> FALSE]
      /\ UNCHANGED <<paths, monitored, next>>
  BY DEF Openat
<1>2. path \in Seq(Bytes) /\ ReadUserPath(path, readable) \in Seq(Bytes)
  BY NameAssumption, KeyType DEF ReadUserPath, Key
<1>3. 1 \in 1..MaxMonitored /\ next \in 1..next
  BY SizeAssumption DEF FileInv, FileTypeOK
<1>4. FileTypeOK'
  BY <1>1, <1>2, <1>3 DEF FileInv, FileTypeOK
<1>5. EntriesAreFronts'
  BY <1>1 DEF FileInv, EntriesAreFronts
<1>6. NotPassedOver'
  BY <1>1 DEF NotPassedOver, Wanted
<1>7. HitBy'
  BY <1>1 DEF HitBy
<1> QED
  BY <1>4, <1>5, <1>6, <1>7 DEF FileInv

\* A report is made for the entry in hand, which is the front of its path, and
\* the whole key if it was set when the open began.
LEMMA ScanHitInv == FileInv /\ ScanHit => FileInv'
<1> SUFFICES ASSUME FileInv, ScanHit PROVE FileInv'
  OBVIOUS
<1> DEFINE e == open.entry
<1>1. /\ open.at = "scan" /\ monitored[e] # <<>> /\ StartsWith(open.buf, monitored[e])
      /\ open' = [open EXCEPT !.at = "done", !.reported = TRUE]
      /\ UNCHANGED <<paths, monitored, next>>
  BY DEF ScanHit, Matches
<1>2. /\ e \in 1..MaxMonitored /\ open.since \in 1..next /\ open.write
      /\ open \in [at : {"scan", "done"}, entry : 1..MaxMonitored, path : Seq(Bytes),
                   write : BOOLEAN, readable : BOOLEAN, buf : Seq(Bytes),
                   since : 1..next, reported : BOOLEAN]
  BY <1>1 DEF FileInv, FileTypeOK
<1>3. /\ open'.at = "done" /\ open'.reported /\ open'.write = open.write
      /\ open'.buf = open.buf /\ open'.since = open.since
  BY <1>1, <1>2
<1>4. FileTypeOK'
  BY <1>1, <1>2 DEF FileInv, FileTypeOK
<1>5. EntriesAreFronts'
  BY <1>1 DEF FileInv, EntriesAreFronts
<1>6. NotPassedOver'
  BY <1>3 DEF NotPassedOver
<1>7. HitBy'
  <2>1. e \in Wanted
    <3>1. e <= Len(paths) /\ \E n \in 1..Len(paths[e]) : monitored[e] = Cut(paths[e], n)
      BY <1>1, <1>2 DEF FileInv, EntriesAreFronts
    <3>2. paths[e] # <<>>
      BY <3>1
    <3> QED
      BY <3>1, <3>2, <1>2 DEF Wanted
  <2>2. PICK n \in 1..Len(paths[e]) : monitored[e] = Cut(paths[e], n)
    BY <1>1, <1>2 DEF FileInv, EntriesAreFronts
  <2>3. e < open.since => monitored[e] = Key(paths[e])
    BY <1>2 DEF FileInv, FileTypeOK, EntriesAreFronts
  <2> QED
    BY <1>1, <1>2, <1>3, <2>1, <2>2, <2>3 DEF HitBy, Wanted
<1> QED
  BY <1>4, <1>5, <1>6, <1>7 DEF FileInv

\* An entry that is passed over does not match; if it was set when the open
\* began it is the whole key.
LEMMA ScanOnInv == FileInv /\ ScanOn => FileInv'
<1> SUFFICES ASSUME FileInv, ScanOn PROVE FileInv'
  OBVIOUS
<1> DEFINE e == open.entry
<1>1. /\ open.at = "scan" /\ ~ (monitored[e] # <<>> /\ StartsWith(open.buf, monitored[e]))
      /\ open' = IF e < MaxMonitored THEN [open EXCEPT !.entry = e + 1]
                                     ELSE [open EXCEPT !.at = "done"]
      /\ UNCHANGED <<paths, monitored, next>>
  BY DEF ScanOn, Matches
<1>2. /\ e \in 1..MaxMonitored /\ open.since \in 1..next /\ open.write /\ ~ open.reported
      /\ open \in [at : {"scan", "done"}, entry : 1..MaxMonitored, path : Seq(Bytes),
                   write : BOOLEAN, readable : BOOLEAN, buf : Seq(Bytes),
                   since : 1..next, reported : BOOLEAN]
  BY <1>1 DEF FileInv, FileTypeOK
<1>3. /\ open'.reported = open.reported /\ open'.write = open.write
      /\ open'.path = open.path /\ open'.readable = open.readable
      /\ open'.buf = open.buf /\ open'.since = open.since
      /\ open' \in [at : {"scan", "done"}, entry : 1..MaxMonitored, path : Seq(Bytes),
                    write : BOOLEAN, readable : BOOLEAN, buf : Seq(Bytes),
                    since : 1..next, reported : BOOLEAN]
      /\ \/ e < MaxMonitored /\ open'.at = "scan" /\ open'.entry = e + 1
         \/ e >= MaxMonitored /\ open'.at = "done" /\ open'.entry = e
  <2>1. CASE e < MaxMonitored
    <3>1. e + 1 \in 1..MaxMonitored
      BY <1>2, <2>1, SizeAssumption
    <3>2. open' = [open EXCEPT !.entry = e + 1]
      BY <1>1, <2>1
    <3> HIDE DEF e
    <3> QED
      BY <1>1, <1>2, <2>1, <3>1, <3>2
  <2>2. CASE ~ (e < MaxMonitored)
    <3>1. e >= MaxMonitored
      BY <1>2, <2>2, SizeAssumption
    <3>2. open' = [open EXCEPT !.at = "done"]
      BY <1>1, <2>2
    <3> QED
      BY <1>2, <3>1, <3>2
  <2> QED
    BY <2>1, <2>2
<1>4. FileTypeOK'
  BY <1>1, <1>2, <1>3 DEF FileInv, FileTypeOK
<1>5. EntriesAreFronts'
  BY <1>1 DEF FileInv, EntriesAreFronts
<1>6. NotPassedOver'
  <2> SUFFICES ASSUME NEW j \in Wanted, j < open.since, j <= e
               PROVE  ~ StartsWith(open.buf, Key(paths[j]))
    BY <1>1, <1>2, <1>3, SizeAssumption DEF NotPassedOver, Wanted
  <2>1. CASE j < e
    BY <2>1, <1>1 DEF FileInv, NotPassedOver
  <2>2. CASE j = e
    <3>1. monitored[e] = Key(paths[e])
      BY <2>2, <1>2 DEF FileInv, FileTypeOK, EntriesAreFronts
    <3>2. paths[e] \in Seq(Bytes) /\ paths[e] # <<>>
      BY <2>2 DEF Wanted, FileInv, FileTypeOK
    <3>3. Key(paths[e]) # <<>>
      <4>1. Len(Key(paths[e])) # 0
        BY <3>2, CutFacts, SizeAssumption DEF Key
      <4> QED
        BY <4>1
    <3> QED
      BY <2>2, <3>1, <3>3, <1>1
  <2> QED
    BY <2>1, <2>2, <1>2 DEF Wanted
<1>7. HitBy'
  BY <1>2, <1>3 DEF HitBy
<1> QED
  BY <1>4, <1>5, <1>6, <1>7 DEF FileInv

LEMMA FileStepInv == FileInv /\ [FileNext]_fileVars => FileInv'
<1> SUFFICES ASSUME FileInv, [FileNext]_fileVars PROVE FileInv'
  OBVIOUS
<1>1. CASE Populate
  BY <1>1, CopyByteInv, SetReturnsInv DEF Populate
<1>2. CASE Probe
  BY <1>2, OpenatInv, ScanHitInv, ScanOnInv DEF Probe
<1>3. CASE UNCHANGED fileVars
  BY <1>3 DEF fileVars, FileInv, FileTypeOK, EntriesAreFronts, NotPassedOver, HitBy, Wanted
<1> QED
  BY <1>1, <1>2, <1>3 DEF FileNext

\* Entries are fronts of their paths, and the scan passes over none that
\* matches, whatever the interleaving of loader and probe.
THEOREM FileInvariant == FileSpec => []FileInv
<1> QED
  BY FileInitInv, FileStepInv, PTL DEF FileSpec

LEMMA InvMissesNothing == FileInv => NoWriteMissed
<1> SUFFICES ASSUME FileInv, open.at = "done", open.write, open.readable,
                    NEW j \in Wanted, j < open.since, StartsWith(open.path, paths[j])
             PROVE  open.reported
  BY DEF NoWriteMissed
<1>1. /\ paths[j] \in Seq(Bytes) /\ open.path \in Seq(Bytes)
      /\ open.buf = Key(open.path) /\ open.reported \in BOOLEAN
  BY DEF FileInv, FileTypeOK, Wanted, ReadUserPath, Key
<1>2. StartsWith(open.buf, Key(paths[j]))
  BY <1>1, CutKeepsPrefix, SizeAssumption DEF Key
<1> QED
  BY <1>1, <1>2 DEF FileInv, NotPassedOver

LEMMA InvHasCause == FileInv => ReportedForCause
<1> SUFFICES ASSUME FileInv, open.at = "done", open.reported
             PROVE  /\ open.write
                    /\ \E j \in Wanted :
                         \/ StartsWith(open.path, paths[j])
                         \/ Len(paths[j]) >= MaxPathLen /\ StartsWith(open.path, Key(paths[j]))
                         \/ /\ j >= open.since
                            /\ \E n \in 1..Len(paths[j]) : StartsWith(open.path, Cut(paths[j], n))
  BY DEF ReportedForCause
<1>0. PICK j \in Wanted : \E n \in 1..Len(paths[j]) :
        /\ StartsWith(open.buf, Cut(paths[j], n))
        /\ j < open.since => Cut(paths[j], n) = Key(paths[j])
  BY DEF FileInv, HitBy
<1>1. PICK n \in 1..Len(paths[j]) :
        /\ StartsWith(open.buf, Cut(paths[j], n))
        /\ j < open.since => Cut(paths[j], n) = Key(paths[j])
  BY <1>0
<1>2. /\ paths[j] \in Seq(Bytes) /\ open.path \in Seq(Bytes) /\ j \in Int
      /\ open.since \in Int /\ open.readable \in BOOLEAN
      /\ open.buf = ReadUserPath(open.path, open.readable)
  BY DEF FileInv, FileTypeOK, Wanted
<1>3. Cut(paths[j], n) \in Seq(Bytes) /\ Len(Cut(paths[j], n)) # 0
  BY <1>2, CutFacts
<1>4. open.buf = Cut(open.path, MaxPathLen - 1)
  <2>1. Len(open.buf) # 0
    BY <1>1, <1>2, <1>3, CutFacts, SizeAssumption DEF StartsWith, ReadUserPath
  <2> QED
    BY <1>2, <2>1 DEF ReadUserPath
<1>5. StartsWith(open.path, Cut(paths[j], n))
  BY <1>1, <1>2, <1>3, <1>4, FrontIsPrefix, SizeAssumption
<1>6. CASE j < open.since
  <2>1. StartsWith(open.path, Key(paths[j]))
    BY <1>1, <1>5, <1>6
  <2>2. Len(paths[j]) < MaxPathLen => StartsWith(open.path, paths[j])
    BY <1>2, <2>1, ShortKeyIsPath
  <2>3. Len(paths[j]) \in Nat /\ MaxPathLen \in Nat
    BY <1>2, SizeAssumption
  <2>4. Len(paths[j]) < MaxPathLen \/ Len(paths[j]) >= MaxPathLen
    BY <2>3
  <2> QED
    BY <2>1, <2>2, <2>4 DEF FileInv, HitBy
<1>7. CASE j >= open.since
  BY <1>5, <1>7 DEF FileInv, HitBy
<1> QED
  BY <1>2, <1>6, <1>7

\* An open for writing under a path that was set when the open began is
\* reported, for any paths, buffer length and number of entries.
THEOREM NoWriteMissedEver == FileSpec => []NoWriteMissed
<1> QED
  BY FileInvariant, InvMissesNothing, PTL

\* Nothing is reported but a write under a configured path, the front of one
\* that is too long, or the front of one being copied.
THEOREM ReportedForCauseEver == FileSpec => []ReportedForCause
<1> QED
  BY FileInvariant, InvHasCause, PTL

-----------------------------------------------------------------------------
(* The start of the agent.                                                 *)

\* The invariant of the start, next to FileInv: what a stage has made is still
\* there in the stages behind it.
Stages == <<"attach", "populate", "seed", "native", "sigma", "sinks", "running">>

\* The agent has come to a stage, and not failed.
Reached(s) == \E i, j \in DOMAIN Stages : i <= j /\ Stages[i] = s /\ Stages[j] = stage

StageInv ==
  /\ stage \in {Stages[i] : i \in DOMAIN Stages} \union {"failed"}
  /\ attached \in 0..Len(Probes)
  /\ stage = "attach" => attached < Len(Probes)
  /\ Reached("populate") => attached = Len(Probes)
  /\ Reached("seed") => ~ Populating

\* The documents read that could be translated, in their order.
KeptInv ==
  /\ docs \in 0..Len(input.sigma)
  /\ kept \in Seq(1..docs)
  /\ ToSet(kept) = {d \in 1..docs : Translate(input.sigma[d]) # {}}
  /\ \A i, j \in DOMAIN kept : i < j => kept[i] < kept[j]

RulesInv ==
  /\ Reached("sigma") => /\ DistinctIds(NativeRules)
                         /\ \A i \in DOMAIN NativeRules : Compiles(NativeRules[i].group)
  /\ stage = "sigma" => rules = NativeRules
  /\ Reached("sinks") => /\ docs = Len(input.sigma)
                         /\ rules = NativeRules \o Imported
                         /\ \A i \in DOMAIN Imported : Compiles(Imported[i].group)

StartInv ==
  /\ input \in Inputs /\ paths = MonitoredPaths(input.paths)
  /\ StageInv /\ KeptInv /\ RulesInv

\* What it means to have come to a stage, stage by stage.
ReachedMeans ==
  /\ Reached("populate") <=> stage \in {"populate", "seed", "native", "sigma", "sinks", "running"}
  /\ Reached("seed") <=> stage \in {"seed", "native", "sigma", "sinks", "running"}
  /\ Reached("sigma") <=> stage \in {"sigma", "sinks", "running"}
  /\ Reached("sinks") <=> stage \in {"sinks", "running"}

LEMMA ReachedStages == ReachedMeans
<1>1. DOMAIN Stages = {1, 2, 3, 4, 5, 6, 7}
  BY DEF Stages
<1>2. /\ Stages[1] = "attach" /\ Stages[2] = "populate" /\ Stages[3] = "seed"
      /\ Stages[4] = "native" /\ Stages[5] = "sigma" /\ Stages[6] = "sinks"
      /\ Stages[7] = "running"
  BY DEF Stages
<1>3. ASSUME NEW s, NEW n \in 1..7, Stages[n] = s, \A i \in 1..7 : Stages[i] = s => i = n
      PROVE  Reached(s) <=> \E j \in n..7 : Stages[j] = stage
  <2>1. DOMAIN Stages = 1..7
    BY <1>1
  <2> QED
    BY <1>3, <2>1 DEF Reached
<1>4. /\ Reached("populate") <=> \E j \in 2..7 : Stages[j] = stage
      /\ Reached("seed") <=> \E j \in 3..7 : Stages[j] = stage
      /\ Reached("sigma") <=> \E j \in 5..7 : Stages[j] = stage
      /\ Reached("sinks") <=> \E j \in 6..7 : Stages[j] = stage
  BY <1>2, <1>3
<1>5. /\ 2..7 = {2, 3, 4, 5, 6, 7} /\ 3..7 = {3, 4, 5, 6, 7}
      /\ 5..7 = {5, 6, 7} /\ 6..7 = {6, 7}
  OBVIOUS
<1> QED
  BY <1>2, <1>4, <1>5 DEF ReachedMeans

LEMMA ReachedStagesNext == ReachedMeans'
BY ReachedStages, PTL

LEMMA StageNames ==
  {Stages[i] : i \in DOMAIN Stages}
    = {"attach", "populate", "seed", "native", "sigma", "sinks", "running"}
<1>1. DOMAIN Stages = {1, 2, 3, 4, 5, 6, 7}
  BY DEF Stages
<1>2. /\ Stages[1] = "attach" /\ Stages[2] = "populate" /\ Stages[3] = "seed"
      /\ Stages[4] = "native" /\ Stages[5] = "sigma" /\ Stages[6] = "sinks"
      /\ Stages[7] = "running"
  BY DEF Stages
<1> QED
  BY <1>1, <1>2

LEMMA ProbeCount == Len(Probes) = 5
BY DEF Probes

LEMMA StartInitInv == Init => StartInv
<1> SUFFICES ASSUME Init PROVE StartInv
  OBVIOUS
<1>1. /\ input \in Inputs /\ paths = MonitoredPaths(input.paths) /\ stage = "attach"
      /\ attached = 0 /\ docs = 0 /\ kept = <<>>
  BY DEF Init
<1>2. StageInv
  BY <1>1, ReachedStages, StageNames, ProbeCount DEF ReachedMeans, StageInv
<1>3. KeptInv
  <2>1. Len(input.sigma) \in Nat
    BY <1>1, InputAssumption
  <2> QED
    BY <1>1, <2>1 DEF KeptInv, ToSet
<1>4. RulesInv
  BY <1>1, ReachedStages DEF ReachedMeans, RulesInv
<1> QED
  BY <1>1, <1>2, <1>3, <1>4 DEF StartInv

\* A document is kept behind those kept before, if it can be translated.
LEMMA ReadDocInv == StartInv /\ ReadDoc => StartInv'
<1> SUFFICES ASSUME StartInv, ReadDoc PROVE StartInv'
  OBVIOUS
<1>1. /\ stage = "sigma" /\ docs < Len(input.sigma) /\ docs' = docs + 1
      /\ kept' = IF Translate(input.sigma[docs']) = {} THEN kept ELSE Append(kept, docs')
      /\ UNCHANGED <<input, stage, attached, rules, fileVars>>
  BY DEF ReadDoc
<1>2. /\ Len(input.sigma) \in Nat /\ docs \in Nat /\ kept \in Seq(1..docs)
      /\ ToSet(kept) = {d \in 1..docs : Translate(input.sigma[d]) # {}}
      /\ \A i, j \in DOMAIN kept : i < j => kept[i] < kept[j]
  BY InputAssumption DEF StartInv, KeptInv
<1>3. 1..docs \subseteq 1..docs' /\ docs' \in 1..docs' /\ docs' \in 0..Len(input.sigma)
      /\ 1..docs' = (1..docs) \union {docs'}
  BY <1>1, <1>2
<1>4. kept \in Seq(1..docs')
  <2>1. Len(kept) \in Nat /\ kept \in [1..Len(kept) -> 1..docs']
    BY <1>2, <1>3
  <2> QED
    BY <2>1, SeqDef
<1>5. KeptInv'
  <2>1. CASE Translate(input.sigma[docs']) = {}
    <3>1. kept' = kept
      BY <1>1, <2>1
    <3>2. ToSet(kept) = {d \in 1..docs' : Translate(input.sigma[d]) # {}}
      BY <1>2, <1>3, <2>1
    <3> QED
      BY <1>1, <1>2, <1>3, <1>4, <3>1, <3>2 DEF KeptInv
  <2>2. CASE Translate(input.sigma[docs']) # {}
    <3> DEFINE n == Len(kept)
    <3>1. kept' = Append(kept, docs')
      BY <1>1, <2>2
    <3>2. /\ n \in Nat /\ DOMAIN kept = 1..n /\ DOMAIN kept' = 1..(n + 1)
          /\ kept' \in Seq(1..docs')
          /\ kept'[n + 1] = docs' /\ \A i \in 1..n : kept'[i] = kept[i]
      BY <1>3, <1>4, <3>1
    <3> HIDE DEF n
    <3>3. ToSet(kept') = ToSet(kept) \union {docs'}
      <4>1. 1..(n + 1) = (1..n) \union {n + 1}
        BY <3>2
      <4> QED
        BY <3>2, <4>1 DEF ToSet
    <3>4. ToSet(kept') = {d \in 1..docs' : Translate(input.sigma[d]) # {}}
      BY <1>2, <1>3, <2>2, <3>3
    <3>5. ASSUME NEW i \in 1..(n + 1), NEW j \in 1..(n + 1), i < j
          PROVE  kept'[i] < kept'[j]
      <4>1. i \in 1..n /\ kept[i] \in 1..docs /\ kept'[i] = kept[i]
        BY <1>2, <3>2, <3>5
      <4>2. CASE j \in 1..n
        BY <1>2, <3>2, <3>5, <4>1, <4>2
      <4>3. CASE j = n + 1
        <5>1. kept'[j] = docs + 1
          BY <1>1, <3>2, <4>3
        <5>2. kept[i] <= docs /\ kept[i] \in Nat
          BY <1>2, <4>1
        <5> QED
          BY <1>2, <4>1, <5>1, <5>2
      <4> QED
        BY <3>2, <4>2, <4>3
    <3> QED
      BY <1>1, <1>3, <3>2, <3>4, <3>5 DEF KeptInv
  <2> QED
    BY <2>1, <2>2
<1>6. RulesInv'
  BY <1>1, ReachedStages, ReachedStagesNext
     DEF ReachedMeans, StartInv, RulesInv, NativeRules, DistinctIds
<1>7. StageInv'
  BY <1>1 DEF StartInv, StageInv, Reached, Populating, fileVars
<1> QED
  BY <1>1, <1>5, <1>6, <1>7 DEF StartInv, fileVars

\* The stages up to the native rules: what the other variables say stays.
LEMMA EarlyStageInv ==
  ASSUME StartInv, Attach \/ Populated \/ Seed \/ Fail
  PROVE  StartInv'
<1>1. UNCHANGED <<input, docs, kept, rules, fileVars>>
  BY DEF Attach, Populated, Seed, Fail
<1>2. KeptInv' /\ input' \in Inputs /\ paths' = MonitoredPaths(input'.paths)
  BY <1>1 DEF StartInv, KeptInv, fileVars
<1>3. stage \in {"attach", "populate", "seed", "native", "sigma", "sinks", "running", "failed"}
  BY StageNames DEF StartInv, StageInv
<1>4. StageInv' /\ stage' \in {"attach", "populate", "seed", "native", "failed"}
  <2>1. CASE Attach
    <3>1. /\ stage = "attach" /\ attached \in 0..4 /\ attached' = attached + 1
          /\ stage' = IF attached' = 5 THEN "populate" ELSE "attach"
      BY <2>1, ProbeCount DEF Attach, StartInv, StageInv
    <3>2. /\ attached' \in 0..5 /\ stage' \in {"attach", "populate"}
          /\ stage' = "attach" => attached' < 5
          /\ stage' = "populate" => attached' = 5
      BY <3>1
    <3> QED
      BY <3>2, StageNames, ProbeCount, ReachedStages, ReachedStagesNext DEF ReachedMeans, StageInv
  <2>2. CASE Populated
    BY <2>2, <1>1, StageNames, ReachedStages, ReachedStagesNext
       DEF ReachedMeans, Populated, StartInv, StageInv, Populating, fileVars
  <2>3. CASE Seed
    BY <2>3, <1>1, StageNames, ReachedStages, ReachedStagesNext
       DEF ReachedMeans, Seed, StartInv, StageInv, Populating, fileVars
  <2>4. CASE Fail
    BY <2>4, StageNames, ProbeCount, ReachedStages, ReachedStagesNext DEF ReachedMeans, Fail, StageInv
  <2> QED
    BY <2>1, <2>2, <2>3, <2>4
<1>5. RulesInv'
  BY <1>4, ReachedStages, ReachedStagesNext DEF ReachedMeans, RulesInv
<1> QED
  BY <1>2, <1>4, <1>5 DEF StartInv

\* While the paths are set and probes scan, the start stays where it is; the
\* array is complete once the loader has left it.
LEMMA FileStepsInv == StartInv /\ (SetPaths \/ OpenProbe) => StartInv'
<1> SUFFICES ASSUME StartInv, SetPaths \/ OpenProbe PROVE StartInv'
  OBVIOUS
<1>1. UNCHANGED startVars /\ paths' = paths
  BY DEF SetPaths, OpenProbe, Populate, CopyByte, SetReturns, Openat, ScanHit, ScanOn
<1>2. StageInv'
  <2>1. CASE SetPaths
    BY <1>1, <2>1, ReachedStages, ReachedStagesNext DEF ReachedMeans, SetPaths, StartInv, StageInv, startVars
  <2>2. CASE OpenProbe
    <3>1. next' = next
      BY <2>2 DEF OpenProbe, Openat, ScanHit, ScanOn
    <3> QED
      BY <1>1, <3>1 DEF StartInv, StageInv, startVars, Reached, Populating
  <2> QED
    BY <2>1, <2>2
<1>3. KeptInv' /\ NativeRules' = NativeRules /\ Imported' = Imported
  <2>1. KeptInv'
    BY <1>1 DEF StartInv, KeptInv, startVars
  <2>2. NativeRules' = NativeRules /\ Imported' = Imported
    BY <1>1 DEF startVars, NativeRules, Imported
  <2> QED
    BY <2>1, <2>2
<1>4. RulesInv'
  BY <1>1, <1>3 DEF StartInv, RulesInv, startVars, Reached, DistinctIds
<1> QED
  BY <1>1, <1>2, <1>3, <1>4 DEF StartInv, startVars

LEMMA RuleStepsInv == StartInv /\ (LoadNative \/ ImportSigma \/ BuildSinks) => StartInv'
<1> SUFFICES ASSUME StartInv, LoadNative \/ ImportSigma \/ BuildSinks PROVE StartInv'
  OBVIOUS
<1>1. /\ UNCHANGED <<input, attached, docs, kept, fileVars>>
      /\ stage \in {"native", "sigma", "sinks"} /\ stage' \in {"sigma", "sinks", "running"}
  BY DEF LoadNative, ImportSigma, BuildSinks
<1>2. StageInv'
  BY <1>1, StageNames, ReachedStages, ReachedStagesNext DEF ReachedMeans, StartInv, StageInv, Populating, fileVars
<1>3. KeptInv'
  BY <1>1 DEF StartInv, KeptInv
<1>4. NativeRules' = NativeRules /\ Imported' = Imported
  BY <1>1 DEF NativeRules, Imported
<1>5. RulesInv'
  <2>1. CASE LoadNative
    BY <1>1, <1>4, <2>1, ReachedStages, ReachedStagesNext DEF ReachedMeans, LoadNative, RulesInv, DistinctIds
  <2>2. CASE ImportSigma
    BY <1>1, <1>4, <2>2, ReachedStages, ReachedStagesNext DEF ReachedMeans, ImportSigma, StartInv, RulesInv, DistinctIds
  <2>3. CASE BuildSinks
    BY <1>1, <1>4, <2>3, ReachedStages, ReachedStagesNext DEF ReachedMeans, BuildSinks, StartInv, RulesInv, DistinctIds
  <2> QED
    BY <2>1, <2>2, <2>3
<1> QED
  BY <1>1, <1>2, <1>3, <1>5 DEF StartInv, fileVars

LEMMA StartStepInv == StartInv /\ [Next]_vars => StartInv'
<1> SUFFICES ASSUME StartInv, [Next]_vars PROVE StartInv'
  OBVIOUS
<1>1. CASE Next
  BY <1>1, EarlyStageInv, FileStepsInv, ReadDocInv, RuleStepsInv DEF Next
<1>2. CASE UNCHANGED vars
  <2>1. StageInv' /\ KeptInv'
    BY <1>2 DEF vars, startVars, fileVars, StartInv, StageInv, KeptInv, Reached, Populating
  <2>2. NativeRules' = NativeRules /\ Imported' = Imported
    BY <1>2 DEF vars, startVars, NativeRules, Imported
  <2>3. RulesInv'
    BY <1>2, <2>2 DEF vars, startVars, StartInv, RulesInv, Reached, DistinctIds
  <2> QED
    BY <1>2, <2>1, <2>3 DEF vars, startVars, fileVars, StartInv
<1> QED
  BY <1>1, <1>2

\* The stages are passed in their order, and what each has made stays: probes,
\* paths, native rules without doubles, imported rules.
THEOREM StartInvariant == Spec => []StartInv
<1> QED
  BY StartInitInv, StartStepInv, PTL DEF Spec

\* The start is an instance of FileIntegrity: what the loader and the openat
\* probe do to MONITORED_PATHS while the agent starts, and after it, is what
\* FileIntegrity says, with the paths of the normalised configuration.
THEOREM StartRunsFileIntegrity == Spec => FileSpec
<1>1. Init => FileInit
  BY InputAssumption DEF Init, FileInit, MonitoredPaths
<1>2. StartInv /\ [Next]_vars => [FileNext]_fileVars
  <2> SUFFICES ASSUME StartInv, [Next]_vars PROVE FileNext \/ UNCHANGED fileVars
    OBVIOUS
  <2>1. CASE SetPaths
    BY <2>1 DEF SetPaths, FileNext
  <2>2. CASE OpenProbe
    BY <2>2, InputAssumption DEF OpenProbe, FileNext, Probe, StartInv
  <2>3. CASE \/ Attach \/ Populated \/ Seed \/ LoadNative \/ ReadDoc \/ ImportSigma
             \/ BuildSinks \/ Fail
    BY <2>3 DEF Attach, Populated, Seed, LoadNative, ReadDoc, ImportSigma, BuildSinks, Fail
  <2>4. CASE UNCHANGED vars
    BY <2>4 DEF vars
  <2> QED
    BY <2>1, <2>2, <2>3, <2>4 DEF Next
<1> QED
  BY <1>1, <1>2, StartInvariant, PTL DEF Spec, FileSpec

\* The loader leaves the array when every path it has room for is in it.
LEMMA PopulatedIsComplete ==
  ASSUME FileInv, ~ Populating
  PROVE  \A j \in Wanted : monitored[j] = Key(paths[j])
<1> SUFFICES ASSUME NEW j \in Wanted PROVE monitored[j] = Key(paths[j])
  OBVIOUS
<1>1. j \in 1..Len(paths) /\ j <= MaxMonitored /\ MaxMonitored \in Nat /\ Len(paths) \in Nat
  BY SizeAssumption DEF Wanted, FileInv, FileTypeOK
<1>2. next \in Nat /\ ~ (next <= Len(paths) /\ next <= MaxMonitored)
  BY <1>1 DEF FileInv, FileTypeOK, Populating
<1>3. j < next /\ j \in 1..MaxMonitored
  BY <1>1, <1>2
<1> QED
  BY <1>3 DEF FileInv, EntriesAreFronts

\* The lists that are put together are lists.
LEMMA RuleLists ==
  ASSUME StartInv
  PROVE  /\ Len(input.native) \in Nat /\ DOMAIN input.native = 1..Len(input.native)
         /\ DOMAIN NativeRules = 1..Len(input.native)
         /\ Len(kept) \in Nat /\ DOMAIN kept = 1..Len(kept) /\ DOMAIN Imported = 1..Len(kept)
         /\ Len(NativeRules \o Imported) = Len(input.native) + Len(kept)
         /\ DOMAIN (NativeRules \o Imported) = 1..(Len(input.native) + Len(kept))
         /\ \A i \in 1..Len(input.native) : (NativeRules \o Imported)[i] = NativeRules[i]
         /\ \A i \in 1..Len(kept) :
              (NativeRules \o Imported)[Len(input.native) + i] = Imported[i]
<1> DEFINE m == Len(input.native)  n == Len(kept)
           R == {NativeRules[i] : i \in 1..m} \union {Imported[i] : i \in 1..n}
<1>1. m \in Nat /\ DOMAIN input.native = 1..m
  BY InputAssumption DEF StartInv
<1>2. n \in Nat /\ DOMAIN kept = 1..n
  BY DEF StartInv, KeptInv
<1>3. DOMAIN NativeRules = 1..m /\ NativeRules = [i \in 1..m |-> NativeRules[i]]
  BY <1>1 DEF NativeRules
<1>4. DOMAIN Imported = 1..n /\ Imported = [i \in 1..n |-> Imported[i]]
  BY <1>2 DEF Imported
<1> HIDE DEF m, n
<1>5. NativeRules \in [1..m -> R] /\ Imported \in [1..n -> R]
  BY <1>3, <1>4
<1> HIDE DEF R
<1>6. NativeRules \in Seq(R) /\ Imported \in Seq(R)
  BY <1>1, <1>2, <1>5, SeqDef
<1>7. Len(NativeRules) = m /\ Len(Imported) = n
  BY <1>1, <1>2, <1>3, <1>4, <1>6
<1>8. /\ Len(NativeRules \o Imported) = m + n
      /\ DOMAIN (NativeRules \o Imported) = 1..(m + n)
      /\ \A i \in 1..m : (NativeRules \o Imported)[i] = NativeRules[i]
      /\ \A i \in 1..n : (NativeRules \o Imported)[m + i] = Imported[i]
  BY <1>1, <1>2, <1>6, <1>7
<1> QED
  BY <1>1, <1>2, <1>3, <1>4, <1>8 DEF m, n

LEMMA InvIsComplete == StartInv /\ FileInv => RunningIsComplete
<1> SUFFICES ASSUME StartInv, FileInv, stage = "running"
             PROVE  /\ attached = Len(Probes)
                    /\ \A j \in Wanted : monitored[j] = Key(paths[j])
                    /\ Len(rules) = Len(input.native) + Len(kept)
                    /\ ToSet(kept) = {d \in DOMAIN input.sigma : Translate(input.sigma[d]) # {}}
                    /\ \A i, j \in DOMAIN kept : i < j => kept[i] < kept[j]
                    /\ \A i \in DOMAIN kept :
                         rules[Len(input.native) + i] \in Translate(input.sigma[kept[i]])
                    /\ \A i, j \in DOMAIN input.native :
                         /\ i # j => rules[i].id # rules[j].id
                         /\ rules[i].id = input.native[i].id
                    /\ \A r \in ToSet(rules) : Compiles(r.group)
  BY DEF RunningIsComplete
<1> DEFINE m == Len(input.native)  n == Len(kept)
<1>1. attached = Len(Probes) /\ ~ Populating
  BY ReachedStages DEF ReachedMeans, StartInv, StageInv
<1>2. /\ DistinctIds(NativeRules)
      /\ \A i \in DOMAIN NativeRules : Compiles(NativeRules[i].group)
      /\ docs = Len(input.sigma) /\ rules = NativeRules \o Imported
      /\ \A i \in DOMAIN Imported : Compiles(Imported[i].group)
  BY ReachedStages DEF ReachedMeans, StartInv, RulesInv
<1>3. /\ m \in Nat /\ n \in Nat
      /\ DOMAIN input.native = 1..m /\ DOMAIN NativeRules = 1..m
      /\ DOMAIN kept = 1..n /\ DOMAIN Imported = 1..n
      /\ Len(rules) = m + n /\ DOMAIN rules = 1..(m + n)
      /\ \A i \in 1..m : rules[i] = NativeRules[i]
      /\ \A i \in 1..n : rules[m + i] = Imported[i]
  BY <1>2, RuleLists
<1>4. /\ DOMAIN input.sigma = 1..docs
      /\ ToSet(kept) = {d \in DOMAIN input.sigma : Translate(input.sigma[d]) # {}}
      /\ \A i, j \in DOMAIN kept : i < j => kept[i] < kept[j]
  BY <1>2, InputAssumption DEF StartInv, KeptInv
<1>5. ASSUME NEW i \in 1..n PROVE rules[m + i] \in Translate(input.sigma[kept[i]])
  <2>1. kept[i] \in ToSet(kept)
    BY <1>3, <1>5 DEF ToSet
  <2>2. Translate(input.sigma[kept[i]]) # {}
    BY <1>4, <2>1
  <2>3. Imported[i] = CHOOSE r \in Translate(input.sigma[kept[i]]) : TRUE
    BY <1>3, <1>5 DEF Imported
  <2>4. Imported[i] \in Translate(input.sigma[kept[i]])
    BY <2>2, <2>3
  <2> QED
    BY <1>3, <1>5, <2>4
<1>6. ASSUME NEW i \in 1..m, NEW j \in 1..m
      PROVE  (i # j => rules[i].id # rules[j].id) /\ rules[i].id = input.native[i].id
  <2>1. rules[i].id = NativeRules[i].id /\ rules[j].id = NativeRules[j].id
    BY <1>3, <1>6
  <2>2. i # j => NativeRules[i].id # NativeRules[j].id
    BY <1>2, <1>3, <1>6 DEF DistinctIds
  <2>3. NativeRules[i] = Native(input.native[i])
    BY <1>3, <1>6 DEF NativeRules
  <2>4. NativeRules[i].id = input.native[i].id
    BY <2>3 DEF Native
  <2> QED
    BY <2>1, <2>2, <2>4
<1>7. ASSUME NEW r \in ToSet(rules) PROVE Compiles(r.group)
  <2>1. PICK k \in 1..(m + n) : r = rules[k]
    BY <1>3, <1>7 DEF ToSet
  <2>2. CASE k \in 1..m
    BY <1>2, <1>3, <2>1, <2>2
  <2>3. CASE k \notin 1..m
    <3>1. k - m \in 1..n /\ k = m + (k - m)
      BY <1>3, <2>1, <2>3
    <3>2. rules[k] = Imported[k - m]
      BY <1>3, <3>1
    <3> QED
      BY <1>2, <1>3, <2>1, <3>1, <3>2
  <2> QED
    BY <2>2, <2>3
<1> QED
  BY <1>1, <1>3, <1>4, <1>5, <1>6, <1>7, PopulatedIsComplete

\* The agent runs only with every probe attached, every path it has room for
\* in the array, every native rule, and a rule for every Sigma document that
\* can be translated: whatever the files, and whatever was opened meanwhile.
THEOREM StartIsComplete == Spec => []RunningIsComplete
<1> QED
  BY StartInvariant, StartRunsFileIntegrity, FileInvariant, InvIsComplete, PTL

-----------------------------------------------------------------------------
(* Native rules match what they say.                                       *)

\* A text is parsed to a number exactly if it is the numeral of that number.
LEMMA ParseNumeral ==
  ASSUME NEW text, NEW n \in 0..U64Max
  PROVE  ParseU64(text) = {n} <=> text = Numeral(n)
<1>1. ASSUME ParseU64(text) = {n} PROVE text = Numeral(n)
  <2>1. n \in ParseU64(text)
    BY <1>1
  <2> QED
    BY <2>1 DEF ParseU64
<1>2. ASSUME text = Numeral(n) PROVE ParseU64(text) = {n}
  <2>1. n \in ParseU64(text)
    BY <1>2 DEF ParseU64
  <2>2. ASSUME NEW k \in ParseU64(text) PROVE k = n
    <3>1. k \in 0..U64Max /\ <<Digits[k]>> = <<Digits[n]>>
      BY <1>2, <2>2 DEF ParseU64, Numeral
    <3>2. Digits[k] = Digits[n]
      BY <3>1
    <3> QED
      BY <3>1, <3>2, NumeralAssumption
  <2> QED
    BY <2>1, <2>2
<1> QED
  BY <1>1, <1>2

\* A condition whose number is a u64 is matched by what it says.
LEMMA ConditionAsWritten ==
  ASSUME NEW cond, NEW event,
         cond.value.type = "number" => cond.value.of \in 0..U64Max
  PROVE  MatchCondition(cond, event) <=> ConditionSays(cond, event)
<1>1. CASE cond.value.type # "number"
  <2>1. MatchCondition(cond, event) => Field(event, cond.field) # {}
    BY DEF MatchCondition
  <2> QED
    BY <1>1, <2>1 DEF ConditionSays
<1>2. CASE cond.value.type = "number"
  <2> DEFINE n == cond.value.of
  <2>1. n \in 0..U64Max /\ n % (U64Max + 1) = n
    BY <1>2, NumeralAssumption
  <2>2. AsStr(cond.value) = {} /\ AsU64(cond.value) = {n}
    BY <1>2, <2>1 DEF AsStr, AsU64
  <2> HIDE DEF n
  <2>3. ASSUME NEW text PROVE ValuesEqual(text, cond.value) <=> text = Numeral(n)
    BY <2>1, <2>2, ParseNumeral DEF ValuesEqual
  <2>4. MatchCondition(cond, event)
          <=> \E text \in Field(event, cond.field) :
                \/ cond.op = "eq" /\ text = Numeral(n)
                \/ cond.op = "ne" /\ text # Numeral(n)
                \/ \E a \in ParseU64(text) : (cond.op = "gt" /\ a > n) \/ (cond.op = "lt" /\ a < n)
    BY <2>2, <2>3 DEF MatchCondition
  <2> QED
    BY <1>2, <2>4 DEF ConditionSays, n
<1> QED
  BY <1>1, <1>2

\* So is a section of one list.
LEMMA SectionAsWritten ==
  ASSUME NEW section, NEW event,
         DOMAIN section \subseteq {"all", "any"}, DOMAIN section # {},
         ~ ({"all", "any"} \subseteq DOMAIN section),
         \A list \in DOMAIN section : \A c \in section[list] :
           c.value.type = "number" => c.value.of \in 0..U64Max
  PROVE  MatchGroup(ParseGroup(section), event) <=> SectionSays(section, event)
<1>1. CASE "all" \in DOMAIN section
  <2>1. "any" \notin DOMAIN section
    BY <1>1
  <2>2. \A c \in section["all"] : MatchCondition(c, event) <=> ConditionSays(c, event)
    BY <1>1, ConditionAsWritten
  <2>3. ParseGroup(section).of = "all" /\ ParseGroup(section).conds = section["all"]
    BY <1>1 DEF ParseGroup
  <2> QED
    BY <1>1, <2>1, <2>2, <2>3 DEF MatchGroup, SectionSays
<1>2. CASE "all" \notin DOMAIN section
  <2>1. "any" \in DOMAIN section
    BY <1>2
  <2>2. \A c \in section["any"] : MatchCondition(c, event) <=> ConditionSays(c, event)
    BY <2>1, ConditionAsWritten
  <2>3. ParseGroup(section).of = "any" /\ ParseGroup(section).conds = section["any"]
    BY <1>2 DEF ParseGroup
  <2> QED
    BY <1>2, <2>1, <2>2, <2>3 DEF MatchGroup, SectionSays
<1> QED
  BY <1>1, <1>2

LEMMA InvAsWritten == StartInv => NativeAsWritten
<1> SUFFICES ASSUME StartInv, stage = "running",
                    NEW i \in DOMAIN input.native, NEW o \in Occurrences,
                    ~ ({"all", "any"} \subseteq DOMAIN input.native[i].section),
                    \A list \in DOMAIN input.native[i].section :
                      \A c \in input.native[i].section[list] : ~ IsNegative(c)
             PROVE  Alerts(i, o) <=> /\ input.native[i].enabled
                                     /\ SectionSays(input.native[i].section, Event(o))
  BY DEF NativeAsWritten
<1> DEFINE file == input.native[i]  section == file.section
<1>1. /\ DOMAIN section \subseteq {"all", "any"} /\ DOMAIN section # {}
      /\ \A list \in DOMAIN section : \A c \in section[list] :
           c.value.type = "number" => c.value.of \in Int /\ c.value.of <= U64Max
  BY RuleFileAssumption DEF StartInv
<1>2. \A list \in DOMAIN section : \A c \in section[list] :
        c.value.type = "number" => c.value.of \in 0..U64Max
  BY <1>1, NumeralAssumption DEF IsNegative
<1>3. MatchGroup(ParseGroup(section), Event(o)) <=> SectionSays(section, Event(o))
  BY <1>1, <1>2, SectionAsWritten
<1>4. rules = NativeRules \o Imported
  BY ReachedStages DEF ReachedMeans, StartInv, RulesInv
<1>5. rules[i] = Native(file) /\ i \in DOMAIN rules
  <2>1. i \in 1..Len(input.native) /\ Len(input.native) \in Nat /\ Len(kept) \in Nat
    BY RuleLists
  <2>2. i \in 1..(Len(input.native) + Len(kept))
    BY <2>1
  <2> QED
    BY <1>4, <2>1, <2>2, RuleLists DEF NativeRules
<1> HIDE DEF file
<1>6. rules[i].enabled = file.enabled /\ rules[i].group = ParseGroup(section)
  BY <1>5 DEF Native
<1> QED
  BY <1>3, <1>5, <1>6 DEF Alerts, Evaluate, file

\* Once the agent runs, a native rule alerts on exactly the events its file
\* describes, but for a file with two lists and for negative numbers.
THEOREM NativeRulesAsWritten == Spec => []NativeAsWritten
<1> QED
  BY StartInvariant, InvAsWritten, PTL

-----------------------------------------------------------------------------
(* Texts: what stands in them, lower case, and the name of an image.  From *)
(* here on, what an imported rule matches next to what its document means. *)

\* The text s stands in the text t behind the first off symbols.
StandsAt(s, t, off) ==
  off + Len(s) <= Len(t) /\ \A k \in 1..Len(s) : t[off + k] = s[k]

LEMMA TextForm ==
  ASSUME NEW t, IsText(t)
  PROVE  Len(t) \in Nat /\ DOMAIN t = 1..Len(t) /\ t \in Seq(ToSet(t))
  BY DEF IsText

\* Texts of the same length and the same symbols are the same.
LEMMA SameText ==
  ASSUME NEW s, NEW t, IsText(s), IsText(t), Len(s) = Len(t),
         \A k \in 1..Len(s) : s[k] = t[k]
  PROVE  s = t
<1> DEFINE S == ToSet(s) \union ToSet(t)
<1>1. s \in Seq(S) /\ t \in Seq(S)
  BY SeqMonotonic DEF IsText
<1> QED
  BY <1>1, SeqEqual

\* What is cut out of a text.
LEMMA CutOut ==
  ASSUME NEW t, IsText(t), NEW i \in 0..Len(t), NEW j \in i..Len(t)
  PROVE  /\ IsText(SubSeq(t, i + 1, j))
         /\ Len(SubSeq(t, i + 1, j)) = j - i
         /\ \A k \in 1..(j - i) : SubSeq(t, i + 1, j)[k] = t[i + k]
<1> DEFINE u == SubSeq(t, i + 1, j)
<1>1. Len(t) \in Nat /\ t \in Seq(ToSet(t))
  BY TextForm
<1>2. u \in Seq(ToSet(t)) /\ Len(u) = j - i /\ \A k \in 1..(j - i) : u[k] = t[i + k]
  BY <1>1
<1>3. IsText(u)
  <2> HIDE DEF u
  <2>1. DOMAIN u = 1..Len(u) /\ Len(u) \in Nat
    BY <1>2
  <2>2. \A k \in 1..Len(u) : u[k] \in ToSet(u)
    BY <2>1 DEF ToSet
  <2>3. u \in [1..Len(u) -> ToSet(u)]
    BY <1>2, <2>1, <2>2
  <2> QED
    BY <2>1, <2>3, SeqDef DEF IsText
<1> QED
  BY <1>2, <1>3

LEMMA PrefixStands ==
  ASSUME NEW s, NEW t, IsText(s), IsText(t)
  PROVE  IsPrefix(s, t) <=> StandsAt(s, t, 0)
<1>1. Len(s) \in Nat /\ Len(t) \in Nat
  BY TextForm
<1>2. ASSUME Len(s) <= Len(t)
      PROVE  SubSeq(s, 1, Len(s)) = SubSeq(t, 1, Len(s))
               <=> \A k \in 1..Len(s) : t[0 + k] = s[k]
  <2> DEFINE a == SubSeq(s, 1, Len(s))  b == SubSeq(t, 1, Len(s))
  <2>1. /\ IsText(a) /\ Len(a) = Len(s) /\ \A k \in 1..Len(s) : a[k] = s[k]
        /\ IsText(b) /\ Len(b) = Len(s) /\ \A k \in 1..Len(s) : b[k] = t[k]
    <3>1. /\ IsText(SubSeq(s, 0 + 1, Len(s))) /\ Len(SubSeq(s, 0 + 1, Len(s))) = Len(s) - 0
          /\ \A k \in 1..(Len(s) - 0) : SubSeq(s, 0 + 1, Len(s))[k] = s[0 + k]
      BY <1>1, CutOut
    <3>2. /\ IsText(SubSeq(t, 0 + 1, Len(s))) /\ Len(SubSeq(t, 0 + 1, Len(s))) = Len(s) - 0
          /\ \A k \in 1..(Len(s) - 0) : SubSeq(t, 0 + 1, Len(s))[k] = t[0 + k]
      BY <1>1, <1>2, CutOut
    <3>3. 0 + 1 = 1 /\ Len(s) - 0 = Len(s) /\ \A k \in 1..Len(s) : 0 + k = k
      BY <1>1
    <3> QED
      BY <3>1, <3>2, <3>3
  <2> HIDE DEF a, b
  <2>2. a = b <=> \A k \in 1..Len(s) : t[k] = s[k]
    BY <2>1, SameText
  <2>3. \A k \in 1..Len(s) : 0 + k = k
    BY <1>1
  <2> QED
    BY <2>2, <2>3 DEF a, b
<1> QED
  BY <1>1, <1>2 DEF IsPrefix, StandsAt

LEMMA SuffixStands ==
  ASSUME NEW s, NEW t, IsText(s), IsText(t)
  PROVE  IsSuffix(s, t) <=> Len(s) <= Len(t) /\ StandsAt(s, t, Len(t) - Len(s))
<1>1. Len(s) \in Nat /\ Len(t) \in Nat
  BY TextForm
<1>2. ASSUME NEW u, IsText(u)
      PROVE  /\ IsText(Reverse(u)) /\ Len(Reverse(u)) = Len(u)
             /\ \A k \in 1..Len(u) : Reverse(u)[k] = u[Len(u) - k + 1]
  <2>1. Len(u) \in Nat /\ DOMAIN u = 1..Len(u)
    BY <1>2, TextForm
  <2>2. Reverse(u) = [k \in 1..Len(u) |-> u[Len(u) - k + 1]]
    BY <2>1 DEF Reverse
  <2> DEFINE r == Reverse(u)
  <2>3. DOMAIN r = 1..Len(u) /\ \A k \in 1..Len(u) : r[k] = u[Len(u) - k + 1]
    BY <2>2
  <2>4. \A k \in 1..Len(u) : r[k] \in ToSet(r)
    BY <2>3 DEF ToSet
  <2>5. r \in [1..Len(u) -> ToSet(r)]
    BY <2>2, <2>4
  <2>6. r \in Seq(ToSet(r))
    BY <2>1, <2>5, SeqDef
  <2>7. Len(r) = Len(u)
    BY <2>1, <2>3, <2>6, LenProperties
  <2> QED
    BY <2>3, <2>6, <2>7 DEF IsText
<1> DEFINE a == Reverse(s)  b == Reverse(t)
<1>3. /\ IsText(a) /\ Len(a) = Len(s) /\ \A k \in 1..Len(s) : a[k] = s[Len(s) - k + 1]
      /\ IsText(b) /\ Len(b) = Len(t) /\ \A k \in 1..Len(t) : b[k] = t[Len(t) - k + 1]
  BY <1>2
<1>4. IsSuffix(s, t) <=> StandsAt(a, b, 0)
  BY <1>3, PrefixStands DEF IsSuffix
<1> HIDE DEF a, b
<1>5. StandsAt(a, b, 0) <=> Len(s) <= Len(t) /\ \A k \in 1..Len(s) : t[Len(t) - k + 1] = s[Len(s) - k + 1]
  <2>1. StandsAt(a, b, 0) <=> Len(s) <= Len(t) /\ \A k \in 1..Len(s) : b[0 + k] = a[k]
    BY <1>1, <1>3 DEF StandsAt
  <2>2. ASSUME Len(s) <= Len(t), NEW k \in 1..Len(s)
        PROVE  b[0 + k] = t[Len(t) - k + 1] /\ a[k] = s[Len(s) - k + 1]
    <3>1. 0 + k = k /\ k \in 1..Len(t)
      BY <1>1, <2>2
    <3> QED
      BY <1>3, <3>1
  <2> QED
    BY <2>1, <2>2
<1>6. ASSUME Len(s) <= Len(t)
      PROVE  (\A k \in 1..Len(s) : t[Len(t) - k + 1] = s[Len(s) - k + 1])
               <=> \A k \in 1..Len(s) : t[(Len(t) - Len(s)) + k] = s[k]
  <2>1. ASSUME NEW k \in 1..Len(s), NEW m, m = Len(s) - k + 1
        PROVE  /\ m \in 1..Len(s) /\ Len(s) - m + 1 = k
               /\ Len(t) - m + 1 = (Len(t) - Len(s)) + k
               /\ Len(t) - k + 1 = (Len(t) - Len(s)) + m
    BY <1>1, <2>1
  <2>2. ASSUME \A k \in 1..Len(s) : t[Len(t) - k + 1] = s[Len(s) - k + 1], NEW k \in 1..Len(s)
        PROVE  t[(Len(t) - Len(s)) + k] = s[k]
    <3> DEFINE m == Len(s) - k + 1
    <3>1. t[Len(t) - m + 1] = s[Len(s) - m + 1]
      BY <2>1, <2>2
    <3> QED
      BY <2>1, <3>1
  <2>3. ASSUME \A k \in 1..Len(s) : t[(Len(t) - Len(s)) + k] = s[k], NEW k \in 1..Len(s)
        PROVE  t[Len(t) - k + 1] = s[Len(s) - k + 1]
    <3> DEFINE m == Len(s) - k + 1
    <3>1. t[(Len(t) - Len(s)) + m] = s[m]
      BY <2>1, <2>3
    <3> QED
      BY <2>1, <3>1
  <2> QED
    BY <2>2, <2>3
<1>7. Len(s) <= Len(t) => (Len(t) - Len(s)) + Len(s) <= Len(t)
  BY <1>1
<1> QED
  BY <1>4, <1>5, <1>6, <1>7 DEF StandsAt

LEMMA WithinStands ==
  ASSUME NEW s, NEW t, IsText(s), IsText(t)
  PROVE  Within(t, s) <=> \E off \in Nat : StandsAt(s, t, off)
<1>1. Len(s) \in Nat /\ Len(t) \in Nat /\ t \in Seq(ToSet(t))
  BY TextForm
<1>2. ASSUME Within(t, s) PROVE \E off \in Nat : StandsAt(s, t, off)
  <2>1. PICK i \in 0..Len(t), j \in 0..Len(t) : s = SubSeq(t, i + 1, j)
    BY <1>2 DEF Within, SubSeqs
  <2>2. CASE i <= j
    <3>1. j \in i..Len(t) /\ i \in Nat /\ i + (j - i) <= Len(t)
      BY <1>1, <2>2
    <3>2. Len(s) = j - i /\ \A k \in 1..(j - i) : s[k] = t[i + k]
      BY <2>1, <3>1, CutOut
    <3> QED
      BY <3>1, <3>2 DEF StandsAt
  <2>3. CASE j < i
    <3>1. Len(s) = 0
      BY <1>1, <2>1, <2>3
    <3>2. StandsAt(s, t, 0)
      BY <1>1, <3>1 DEF StandsAt
    <3> QED
      BY <3>2
  <2> QED
    BY <1>1, <2>2, <2>3
<1>3. ASSUME NEW off \in Nat, StandsAt(s, t, off) PROVE Within(t, s)
  <2> DEFINE j == off + Len(s)
  <2>1. off \in 0..Len(t) /\ j \in off..Len(t) /\ j \in 0..Len(t) /\ j - off = Len(s)
    BY <1>1, <1>3 DEF StandsAt
  <2>2. /\ IsText(SubSeq(t, off + 1, j)) /\ Len(SubSeq(t, off + 1, j)) = Len(s)
        /\ \A k \in 1..Len(s) : SubSeq(t, off + 1, j)[k] = t[off + k]
    BY <2>1, CutOut
  <2>3. s = SubSeq(t, off + 1, j)
    <3>1. \A k \in 1..Len(s) : s[k] = SubSeq(t, off + 1, j)[k]
      BY <1>3, <2>2 DEF StandsAt
    <3> QED
      BY <2>2, <3>1, SameText
  <2> QED
    BY <2>1, <2>3 DEF Within, SubSeqs
<1> QED
  BY <1>2, <1>3

-----------------------------------------------------------------------------
(* Lower case.                                                             *)

Fold(c) == IF c \in DOMAIN Upper THEN Upper[c] ELSE c

LEMMA LowerForm ==
  ASSUME NEW t, IsText(t)
  PROVE  /\ IsText(Lowercase(t)) /\ Len(Lowercase(t)) = Len(t)
         /\ \A k \in 1..Len(t) : Lowercase(t)[k] = Fold(t[k])
<1> DEFINE u == Lowercase(t)
<1>1. Len(t) \in Nat /\ DOMAIN t = 1..Len(t)
  BY TextForm
<1>2. u = [k \in 1..Len(t) |-> Fold(t[k])]
  BY <1>1 DEF Lowercase, Fold
<1> HIDE DEF u
<1>3. DOMAIN u = 1..Len(t) /\ \A k \in 1..Len(t) : u[k] = Fold(t[k])
  BY <1>2
<1>4. u \in [1..Len(t) -> ToSet(u)]
  BY <1>2, <1>3 DEF ToSet
<1>5. u \in Seq(ToSet(u))
  BY <1>1, <1>4, SeqDef
<1>6. Len(u) = Len(t)
  BY <1>1, <1>3, <1>5, LenProperties
<1> QED
  BY <1>3, <1>5, <1>6 DEF IsText, u

\* The four comparisons of texts.
Places(op, s, t) ==
  CASE op \in {"contains", "regex"} -> Nat
    [] op = "prefix"                -> {0}
    [] op = "suffix"                -> {off \in Nat : off = Len(t) - Len(s)}
    [] OTHER                        -> {}

LEMMA CompareStands ==
  ASSUME NEW op, NEW s, NEW t, IsText(s), IsText(t)
  PROVE  Compare(op, t, s) <=> \E off \in Places(op, s, t) : StandsAt(s, t, off)
<1>1. Len(s) \in Nat /\ Len(t) \in Nat
  BY TextForm
<1>2. CASE op \in {"contains", "regex"}
  <2>1. Compare(op, t, s) <=> Within(t, s)
    BY <1>2 DEF Compare
  <2>2. Places(op, s, t) = Nat
    BY <1>2 DEF Places
  <2> QED
    BY <2>1, <2>2, WithinStands
<1>3. CASE op = "prefix"
  <2>1. Compare(op, t, s) <=> IsPrefix(s, t)
    BY <1>3 DEF Compare
  <2>2. Places(op, s, t) = {0}
    BY <1>3 DEF Places
  <2> QED
    BY <2>1, <2>2, PrefixStands
<1>4. CASE op = "suffix"
  <2>1. Compare(op, t, s) <=> IsSuffix(s, t)
    BY <1>4 DEF Compare
  <2>2. Places(op, s, t) = {off \in Nat : off = Len(t) - Len(s)}
    BY <1>4 DEF Places
  <2>3. Len(s) <= Len(t) <=> Len(t) - Len(s) \in Nat
    BY <1>1
  <2> QED
    BY <2>1, <2>2, <2>3, SuffixStands
<1>5. CASE op \notin {"contains", "regex", "prefix", "suffix"}
  BY <1>5 DEF Compare, Places
<1> QED
  BY <1>2, <1>3, <1>4, <1>5

\* A comparison that holds, holds in lower case.
LEMMA CompareLower ==
  ASSUME NEW op, NEW s, NEW t, IsText(s), IsText(t), Compare(op, t, s)
  PROVE  Compare(op, Lowercase(t), Lowercase(s))
<1> DEFINE ls == Lowercase(s)  lt == Lowercase(t)
<1>1. /\ IsText(ls) /\ Len(ls) = Len(s) /\ \A k \in 1..Len(s) : ls[k] = Fold(s[k])
      /\ IsText(lt) /\ Len(lt) = Len(t) /\ \A k \in 1..Len(t) : lt[k] = Fold(t[k])
  BY LowerForm
<1> HIDE DEF ls, lt
<1>2. Len(s) \in Nat /\ Len(t) \in Nat
  BY TextForm
<1>3. PICK off \in Places(op, s, t) : StandsAt(s, t, off)
  BY CompareStands
<1>4. off \in Nat
  BY <1>3 DEF Places
<1>5. StandsAt(ls, lt, off)
  <2>1. ASSUME NEW k \in 1..Len(s) PROVE lt[off + k] = ls[k]
    <3>1. off + k \in 1..Len(t) /\ t[off + k] = s[k]
      BY <1>2, <1>3, <1>4 DEF StandsAt
    <3> QED
      BY <1>1, <3>1
  <2> QED
    BY <1>1, <1>3, <2>1 DEF StandsAt
<1>6. off \in Places(op, ls, lt)
  BY <1>1, <1>3 DEF Places
<1> QED
  BY <1>1, <1>5, <1>6, CompareStands DEF ls, lt

-----------------------------------------------------------------------------
(* The name behind the last slash.                                         *)

\* The last slash of t is its p-th symbol, or it has none and p is 0.
LastSlash(t, p) ==
  /\ p \in 0..Len(t)
  /\ p # 0 => t[p] = Slash
  /\ \A k \in (p + 1)..Len(t) : t[k] # Slash

LEMMA OneLastSlash ==
  ASSUME NEW t, IsText(t), NEW p, NEW q, LastSlash(t, p), LastSlash(t, q)
  PROVE  p = q
<1>1. Len(t) \in Nat /\ p \in Nat /\ q \in Nat
  BY TextForm DEF LastSlash
<1>2. ~ (p < q)
  BY <1>1 DEF LastSlash
<1>3. ~ (q < p)
  BY <1>1 DEF LastSlash
<1> QED
  BY <1>1, <1>2, <1>3

LEMMA LastOfNumbers ==
  ASSUME NEW n \in Nat, NEW I \in SUBSET (1..n), I # {}
  PROVE  Max(I) \in I /\ \A k \in I : k <= Max(I)
<1> DEFINE Less == {ss \in Nat \X Nat : ss[1] < ss[2]}
           T == {n - i : i \in I}
<1>1. IsWellFoundedOn(Less, Nat)
  BY NatLessThanWellFounded DEF OpToRel
<1>2. T \subseteq Nat /\ T # {}
  <2>1. \A i \in I : n - i \in Nat
    OBVIOUS
  <2>2. PICK i \in I : TRUE
    OBVIOUS
  <2> QED
    BY <2>1, <2>2
<1>3. PICK x \in T : \A y \in T : ~ (<<y, x>> \in Less)
  <2> HIDE DEF Less, T
  <2> QED
    BY <1>1, <1>2, WFMin
<1>4. PICK i \in I : x = n - i
  BY <1>3
<1>5. ASSUME NEW k \in I PROVE k <= i
  <2>1. n - k \in T /\ n - k \in Nat /\ x \in Nat /\ i \in Nat /\ k \in Nat
    BY <1>2, <1>3
  <2>2. ~ (n - k < x)
    BY <1>3, <2>1
  <2> QED
    BY <1>4, <2>1, <2>2
<1>6. \A j, k \in I : j >= k <=> k <= j
  OBVIOUS
<1> QED
  BY <1>5, <1>6 DEF Max

LEMMA BaseForm ==
  ASSUME NEW t, IsText(t)
  PROVE  \E p \in 0..Len(t) :
           /\ LastSlash(t, p)
           /\ IsText(BaseName(t)) /\ Len(BaseName(t)) = Len(t) - p
           /\ \A k \in 1..(Len(t) - p) : BaseName(t)[k] = t[p + k]
<1> DEFINE I == {i \in 1..Len(t) : t[i] = Slash}
           p == IF I # {} THEN Max(I) ELSE 0
<1>1. Len(t) \in Nat /\ I \in SUBSET (1..Len(t))
  BY TextForm
<1>2. BaseName(t) = SubSeq(t, p + 1, Len(t))
  BY DEF BaseName, SelectLastInSeq
<1>3. LastSlash(t, p) /\ p \in 0..Len(t)
  <2>1. CASE I # {}
    <3>1. p \in I /\ \A k \in I : k <= p
      BY <1>1, <2>1, LastOfNumbers
    <3> HIDE DEF p
    <3>2. p \in 1..Len(t) /\ t[p] = Slash
      BY <3>1
    <3>3. ASSUME NEW k \in (p + 1)..Len(t) PROVE t[k] # Slash
      BY <1>1, <3>1, <3>2
    <3> QED
      BY <1>1, <3>2, <3>3 DEF LastSlash
  <2>2. CASE I = {}
    BY <1>1, <2>2 DEF LastSlash
  <2> QED
    BY <2>1, <2>2
<1> HIDE DEF p
<1>4. Len(t) \in p..Len(t)
  BY <1>1, <1>3
<1> QED
  BY <1>2, <1>3, <1>4, CutOut

\* A text without a slash is a name.
LEMMA NameIsBase ==
  ASSUME NEW t, IsText(t), \A k \in 1..Len(t) : t[k] # Slash
  PROVE  BaseName(t) = t
<1>1. PICK p \in 0..Len(t) :
        /\ LastSlash(t, p)
        /\ IsText(BaseName(t)) /\ Len(BaseName(t)) = Len(t) - p
        /\ \A k \in 1..(Len(t) - p) : BaseName(t)[k] = t[p + k]
  BY BaseForm
<1>2. Len(t) \in Nat /\ p = 0
  BY <1>1, TextForm DEF LastSlash
<1>3. Len(BaseName(t)) = Len(t) /\ \A k \in 1..Len(t) : BaseName(t)[k] = t[k]
  BY <1>1, <1>2
<1> QED
  BY <1>1, <1>3, SameText

\* Lower case neither makes nor removes a slash.
LEMMA LowerBase ==
  ASSUME NEW t, IsText(t)
  PROVE  Lowercase(BaseName(t)) = BaseName(Lowercase(t))
<1> DEFINE b == BaseName(t)  u == Lowercase(t)
<1>1. PICK p \in 0..Len(t) :
        /\ LastSlash(t, p) /\ IsText(b) /\ Len(b) = Len(t) - p
        /\ \A k \in 1..(Len(t) - p) : b[k] = t[p + k]
  BY BaseForm
<1>2. IsText(u) /\ Len(u) = Len(t) /\ \A k \in 1..Len(t) : u[k] = Fold(t[k])
  BY LowerForm
<1>3. IsText(Lowercase(b)) /\ Len(Lowercase(b)) = Len(b) /\ \A k \in 1..Len(b) : Lowercase(b)[k] = Fold(b[k])
  BY <1>1, LowerForm
<1>4. PICK q \in 0..Len(u) :
        /\ LastSlash(u, q) /\ IsText(BaseName(u)) /\ Len(BaseName(u)) = Len(u) - q
        /\ \A k \in 1..(Len(u) - q) : BaseName(u)[k] = u[q + k]
  BY <1>2, BaseForm
<1> HIDE DEF b, u
<1>5. \A c : Fold(c) = Slash <=> c = Slash
  BY SymbolAssumption DEF Fold
<1>6. p = q
  <2>1. Len(t) \in Nat
    BY TextForm
  <2>2. p # 0 => u[p] = Slash
    BY <1>1, <1>2, <1>5, <2>1 DEF LastSlash
  <2>3. ASSUME NEW k \in (p + 1)..Len(t) PROVE u[k] # Slash
    <3>1. k \in 1..Len(t)
      BY <1>1, <2>1
    <3> QED
      BY <1>1, <1>2, <1>5, <3>1 DEF LastSlash
  <2>4. LastSlash(u, p)
    BY <1>1, <1>2, <2>2, <2>3 DEF LastSlash
  <2> QED
    BY <1>2, <1>4, <2>4, OneLastSlash
<1>7. ASSUME NEW k \in 1..(Len(t) - p) PROVE Lowercase(b)[k] = BaseName(u)[k]
  <2>1. Len(t) \in Nat /\ p + k \in 1..Len(t)
    BY TextForm
  <2>2. Lowercase(b)[k] = Fold(t[p + k])
    BY <1>1, <1>3
  <2>3. BaseName(u)[k] = u[p + k]
    BY <1>2, <1>4, <1>6
  <2> QED
    BY <1>2, <2>1, <2>2, <2>3
<1>8. Len(Lowercase(b)) = Len(BaseName(u)) /\ Len(Lowercase(b)) = Len(t) - p
  BY <1>1, <1>2, <1>3, <1>4, <1>6
<1>9. Lowercase(b) = BaseName(u)
  BY <1>3, <1>4, <1>7, <1>8, SameText
<1> QED
  BY <1>9 DEF b, u

\* The end of a path has an end of its name as its own name.
LEMMA SuffixOfBase ==
  ASSUME NEW v, NEW t, IsText(v), IsText(t), Compare("suffix", t, v)
  PROVE  Compare("suffix", BaseName(t), BaseName(v))
<1> DEFINE b == BaseName(t)  w == BaseName(v)
<1>1. PICK p \in 0..Len(t) :
        /\ LastSlash(t, p) /\ IsText(b) /\ Len(b) = Len(t) - p
        /\ \A k \in 1..(Len(t) - p) : b[k] = t[p + k]
  BY BaseForm
<1>2. PICK q \in 0..Len(v) :
        /\ LastSlash(v, q) /\ IsText(w) /\ Len(w) = Len(v) - q
        /\ \A k \in 1..(Len(v) - q) : w[k] = v[q + k]
  BY BaseForm
<1> HIDE DEF b, w
<1>3. PICK off \in Nat : off = Len(t) - Len(v) /\ StandsAt(v, t, off)
  BY CompareStands DEF Places
<1>4. Len(t) \in Nat /\ Len(v) \in Nat
  BY TextForm
<1>5. p <= off + q
  <2> SUFFICES ASSUME off + q < p PROVE FALSE
    BY <1>4
  <2>1. p - off \in (q + 1)..Len(v) /\ p - off \in 1..Len(v) /\ off + (p - off) = p /\ p # 0
    BY <1>3, <1>4
  <2>2. t[p] = v[p - off]
    BY <1>3, <2>1 DEF StandsAt
  <2> QED
    BY <1>1, <1>2, <2>1, <2>2 DEF LastSlash
<1>6. StandsAt(w, b, (off + q) - p)
  <2>1. ASSUME NEW k \in 1..Len(w) PROVE b[((off + q) - p) + k] = w[k]
    <3>1. /\ ((off + q) - p) + k \in 1..(Len(t) - p)
          /\ p + (((off + q) - p) + k) = off + (q + k)
          /\ q + k \in 1..Len(v) /\ k \in 1..(Len(v) - q)
      BY <1>2, <1>3, <1>4, <1>5
    <3>2. b[((off + q) - p) + k] = t[off + (q + k)]
      BY <1>1, <3>1
    <3>3. t[off + (q + k)] = v[q + k]
      BY <1>3, <3>1 DEF StandsAt
    <3> QED
      BY <1>2, <3>1, <3>2, <3>3
  <2>2. ((off + q) - p) + Len(w) <= Len(b)
    BY <1>1, <1>2, <1>3, <1>4
  <2> QED
    BY <2>1, <2>2 DEF StandsAt
<1>7. (off + q) - p \in Places("suffix", w, b)
  <2>1. (off + q) - p \in Nat /\ (off + q) - p = Len(b) - Len(w)
    BY <1>1, <1>2, <1>3, <1>4, <1>5
  <2> QED
    BY <2>1 DEF Places
<1> QED
  BY <1>1, <1>2, <1>6, <1>7, CompareStands DEF b, w

\* What is found in the name or at its end is found in the path, or at its end.
LEMMA BaseWithin ==
  ASSUME NEW v, NEW t, IsText(v), IsText(t),
         NEW op \in {"contains", "regex", "suffix"}, Compare(op, BaseName(t), v)
  PROVE  Compare(op, t, v)
<1> DEFINE b == BaseName(t)
<1>1. PICK p \in 0..Len(t) :
        /\ LastSlash(t, p) /\ IsText(b) /\ Len(b) = Len(t) - p
        /\ \A k \in 1..(Len(t) - p) : b[k] = t[p + k]
  BY BaseForm
<1>2. Compare(op, b, v)
  OBVIOUS
<1> HIDE DEF b
<1>3. PICK off \in Places(op, v, b) : StandsAt(v, b, off)
  BY <1>1, <1>2, CompareStands
<1>4. off \in Nat /\ Len(t) \in Nat /\ Len(v) \in Nat
  BY <1>3, TextForm DEF Places
<1>5. StandsAt(v, t, p + off)
  <2>1. ASSUME NEW k \in 1..Len(v) PROVE t[(p + off) + k] = v[k]
    <3>1. off + k \in 1..(Len(t) - p) /\ p + (off + k) = (p + off) + k
      BY <1>1, <1>3, <1>4 DEF StandsAt
    <3> QED
      BY <1>1, <1>3, <3>1 DEF StandsAt
  <2>2. (p + off) + Len(v) <= Len(t)
    BY <1>1, <1>3, <1>4 DEF StandsAt
  <2> QED
    BY <2>1, <2>2 DEF StandsAt
<1>6. p + off \in Places(op, v, t)
  <2>1. p + off \in Nat
    BY <1>4
  <2>2. op = "suffix" => p + off = Len(t) - Len(v)
    BY <1>1, <1>3, <1>4 DEF Places
  <2> QED
    BY <2>1, <2>2 DEF Places
<1> QED
  BY <1>5, <1>6, CompareStands

-----------------------------------------------------------------------------
(* Numerals.                                                               *)

LEMMA NumeralForm ==
  ASSUME NEW n \in 0..U64Max
  PROVE  /\ IsText(Numeral(n)) /\ Len(Numeral(n)) = 1 /\ Numeral(n)[1] = Digits[n]
         /\ \A k \in 1..Len(Numeral(n)) : Numeral(n)[k] # Slash
<1> DEFINE t == <<Digits[n]>>
<1>1. Len(t) = 1 /\ DOMAIN t = 1..1 /\ t[1] = Digits[n]
  OBVIOUS
<1>2. t \in Seq(ToSet(t))
  <2>1. Digits[n] \in ToSet(t)
    BY <1>1 DEF ToSet
  <2> QED
    BY <2>1
<1>3. Digits[n] # Slash
  BY SymbolAssumption
<1> QED
  BY <1>1, <1>2, <1>3 DEF Numeral, IsText

\* A numeral has no capitals, and no other text becomes one.
LEMMA LowerNumeral ==
  ASSUME NEW n \in 0..U64Max
  PROVE  /\ Lowercase(Numeral(n)) = Numeral(n)
         /\ \A t : IsText(t) /\ Lowercase(t) = Numeral(n) => t = Numeral(n)
<1> DEFINE u == Numeral(n)
<1>1. IsText(u) /\ Len(u) = 1 /\ u[1] = Digits[n]
  BY NumeralForm
<1> HIDE DEF u
<1>2. \A c : Fold(c) = Digits[n] <=> c = Digits[n]
  BY SymbolAssumption DEF Fold
<1>3. Lowercase(u) = u
  <2>1. IsText(Lowercase(u)) /\ Len(Lowercase(u)) = 1 /\ Lowercase(u)[1] = Fold(u[1])
    BY <1>1, LowerForm
  <2>2. \A k \in 1..1 : k = 1
    OBVIOUS
  <2> QED
    BY <1>1, <1>2, <2>1, <2>2, SameText
<1>4. ASSUME NEW t, IsText(t), Lowercase(t) = u PROVE t = u
  <2>1. Len(t) = 1
    BY <1>1, <1>4, LowerForm
  <2>2. Fold(t[1]) = u[1]
    BY <1>4, <2>1, LowerForm
  <2>3. \A k \in 1..1 : k = 1
    OBVIOUS
  <2> QED
    BY <1>1, <1>2, <1>4, <2>1, <2>2, <2>3, SameText
<1> QED
  BY <1>3, <1>4 DEF u

-----------------------------------------------------------------------------
(* An item and the condition that is made of it, on one text.              *)

\* What ItemMeans asks of one text, and MatchCondition of one text.
MeansOn(item, text) ==
  LET op == IF item.modifier = "contains|all" THEN "contains" ELSE MapOp(item.modifier)
      met(t, s) == IF op = "eq" THEN t = s ELSE Compare(op, t, s)
      values == {Lowercase(s) : s \in Values(item.value)}
  IN IF item.modifier = "contains|all" THEN \A s \in values : met(Lowercase(text), s)
                                       ELSE \E s \in values : met(Lowercase(text), s)

MatchesOn(op, value, text) ==
  \/ op = "eq" /\ ValuesEqual(text, value)
  \/ op = "ne" /\ ~ ValuesEqual(text, value)
  \/ \E s \in AsStr(value) : Compare(op, text, s)
  \/ \E a \in ParseU64(text), b \in AsU64(value) : (op = "gt" /\ a > b) \/ (op = "lt" /\ a < b)

Ops == {"suffix", "prefix", "contains", "regex"}

LEMMA MapOpForm ==
  ASSUME NEW modifier
  PROVE  /\ modifier \in {"endswith", "startswith", "contains", "re"} => MapOp(modifier) \in Ops
         /\ modifier \notin {"endswith", "startswith", "contains", "re"} => MapOp(modifier) = "eq"
         /\ MapOp("endswith") = "suffix" /\ MapOp("startswith") = "prefix"
         /\ MapOp("contains") = "contains" /\ MapOp("re") = "regex"
         /\ MapOp("none") = "eq" /\ MapOp("contains|all") = "eq"
  BY DEF MapOp, OpMap, Ops

\* A value the import keeps: a text, or a number that is a u64.
GoodValue(value) ==
  \/ value.type = "text" /\ IsText(value.of)
  \/ value.type = "number" /\ value.of \in 0..U64Max

\* What the value of a condition is compared with.
LEMMA GoodValues ==
  ASSUME NEW value, GoodValue(value)
  PROVE  /\ value.type = "text" => /\ Values(value) = {value.of} /\ AsStr(value) = {value.of}
                                   /\ AsU64(value) = {}
         /\ value.type = "number" => /\ Values(value) = {Numeral(value.of)} /\ AsStr(value) = {}
                                     /\ AsU64(value) = {value.of}
<1>1. CASE value.type = "text"
  BY <1>1 DEF Values, AsStr, AsU64
<1>2. CASE value.type = "number"
  <2>1. value.of \in 0..U64Max /\ U64Max \in Nat
    BY <1>2, NumeralAssumption DEF GoodValue
  <2>2. value.of % (U64Max + 1) = value.of /\ value.of \in Nat
    BY <2>1
  <2>3. {value.of} \cap Nat = {value.of}
    BY <2>2
  <2> HIDE DEF Numeral
  <2>4. {Numeral(n) : n \in {value.of} \cap Nat} = {Numeral(value.of)}
    BY <2>3
  <2> QED
    BY <1>2, <2>2, <2>4 DEF Values, AsStr, AsU64
<1> QED
  BY <1>1, <1>2

\* Equality of a text and a value is equality in lower case.
LEMMA EqualInLower ==
  ASSUME NEW text, IsText(text), NEW value, GoodValue(value)
  PROVE  ValuesEqual(text, value) <=> \E s \in Values(value) : Lowercase(text) = Lowercase(s)
<1>1. CASE value.type = "text"
  BY <1>1, GoodValues DEF ValuesEqual
<1>2. CASE value.type = "number"
  <2> DEFINE n == value.of
  <2>1. n \in 0..U64Max /\ Values(value) = {Numeral(n)} /\ AsStr(value) = {} /\ AsU64(value) = {n}
    BY <1>2, GoodValues DEF GoodValue
  <2> HIDE DEF n
  <2>2. ValuesEqual(text, value) <=> text = Numeral(n)
    BY <2>1, ParseNumeral DEF ValuesEqual
  <2>3. Lowercase(text) = Lowercase(Numeral(n)) <=> text = Numeral(n)
    BY <2>1, LowerNumeral
  <2> QED
    BY <2>1, <2>2, <2>3
<1> QED
  BY <1>1, <1>2 DEF GoodValue

\* A condition that matches a text was meant to, if it compares the text itself.
LEMMA MatchedIsMeant ==
  ASSUME NEW item, GoodValue(item.value), NEW text, IsText(text),
         MatchesOn(MapOp(item.modifier), item.value, text)
  PROVE  MeansOn(item, text)
<1> DEFINE op == MapOp(item.modifier)
<1>1. CASE op = "eq"
  <2>1. ValuesEqual(text, item.value)
    BY <1>1 DEF MatchesOn, Compare
  <2>2. PICK s \in Values(item.value) : Lowercase(text) = Lowercase(s)
    BY <2>1, EqualInLower
  <2>3. CASE item.modifier = "contains|all"
    <3>1. \A r \in Values(item.value) : r = s
      BY GoodValues DEF GoodValue
    <3>2. IsText(Lowercase(text))
      BY LowerForm
    <3>3. Compare("contains", Lowercase(text), Lowercase(text))
      <4>1. StandsAt(Lowercase(text), Lowercase(text), 0) /\ 0 \in Nat
        <5>1. Len(Lowercase(text)) \in Nat
          BY <3>2, TextForm
        <5>2. \A k \in 1..Len(Lowercase(text)) : 0 + k = k
          BY <5>1
        <5> QED
          BY <5>1, <5>2 DEF StandsAt
      <4> QED
        BY <3>2, <4>1, WithinStands DEF Compare
    <3> QED
      BY <2>2, <2>3, <3>1, <3>3 DEF MeansOn
  <2>4. CASE item.modifier # "contains|all"
    BY <1>1, <2>2, <2>4 DEF MeansOn
  <2> QED
    BY <2>3, <2>4
<1>2. CASE op # "eq"
  <2>1. op \in Ops /\ item.modifier # "contains|all"
    BY <1>2, MapOpForm
  <2>2. PICK s \in AsStr(item.value) : Compare(op, text, s)
    BY <1>2, <2>1 DEF MatchesOn, Ops
  <2>3. s \in Values(item.value) /\ IsText(s)
    BY <2>2, GoodValues DEF GoodValue
  <2>4. Compare(op, Lowercase(text), Lowercase(s))
    BY <2>2, <2>3, CompareLower
  <2> QED
    BY <1>2, <2>1, <2>3, <2>4 DEF MeansOn
<1> QED
  BY <1>1, <1>2

\* A text that is meant is matched, if no capitals get in the way.
LEMMA MeantIsMatched ==
  ASSUME NEW item, GoodValue(item.value), NEW text, IsText(text),
         item.modifier # "contains|all",
         item.modifier # "none" =>
           /\ item.value.type = "text"
           /\ \A t \in Values(item.value) \union {text} : ~ HasCapitals(t),
         MeansOn(item, text)
  PROVE  MatchesOn(MapOp(item.modifier), item.value, text)
<1> DEFINE op == MapOp(item.modifier)
<1>1. CASE op = "eq"
  <2>1. \E s \in Values(item.value) : Lowercase(text) = Lowercase(s)
    BY <1>1 DEF MeansOn
  <2> QED
    BY <1>1, <2>1, EqualInLower DEF MatchesOn
<1>2. CASE op # "eq"
  <2>1. item.modifier # "none"
    BY <1>2, MapOpForm
  <2>2. PICK s \in Values(item.value) : Compare(op, Lowercase(text), Lowercase(s))
    BY <1>2 DEF MeansOn
  <2>3. Lowercase(text) = text /\ Lowercase(s) = s
    BY <2>1, <2>2 DEF HasCapitals
  <2>4. s \in AsStr(item.value)
    BY <2>1, <2>2, GoodValues
  <2> QED
    BY <2>2, <2>3, <2>4 DEF MatchesOn
<1> QED
  BY <1>1, <1>2

-----------------------------------------------------------------------------
(* Images are reduced to names.                                            *)

\* Only the text or the number of a value matters.
LEMMA SameMatches ==
  ASSUME NEW op, NEW v, NEW w, AsStr(v) = AsStr(w), AsU64(v) = AsU64(w), NEW text
  PROVE  MatchesOn(op, v, text) <=> MatchesOn(op, w, text)
  BY DEF MatchesOn, ValuesEqual

LEMMA NormalForm ==
  ASSUME NEW value, GoodValue(value), NEW op, NEW field \in {"comm", "parent_comm"}
  PROVE  /\ value.type = "text" =>
              /\ AsStr(Normalize(value, field, op)) =
                   {IF op = "regex" THEN value.of ELSE BaseName(value.of)}
              /\ AsU64(Normalize(value, field, op)) = {}
         /\ value.type = "number" => Normalize(value, field, op) = value
<1>1. CASE value.type = "text"
  <2>1. Normalize(value, field, op) = [type |-> "text", of |-> ImageToComm(value.of, op)]
    BY <1>1 DEF Normalize, Text
  <2> QED
    BY <1>1, <2>1 DEF AsStr, AsU64, ImageToComm
<1>2. CASE value.type = "number"
  BY <1>2 DEF Normalize
<1> QED
  BY <1>1, <1>2

\* What is asked of a text anywhere or at its end and is met by the name of an image
\* is met by the image.
LEMMA NameMeansImage ==
  ASSUME NEW item, GoodValue(item.value), NEW path, IsText(path),
         item.modifier \in {"endswith", "contains", "re", "contains|all"},
         MeansOn(item, BaseName(path))
  PROVE  MeansOn(item, path)
<1> DEFINE op == IF item.modifier = "contains|all" THEN "contains" ELSE MapOp(item.modifier)
<1>1. op \in {"contains", "regex", "suffix"} /\ op # "eq"
  BY MapOpForm
<1>2. PICK v : IsText(v) /\ Values(item.value) = {v}
  BY GoodValues, NumeralForm DEF GoodValue
<1>3. \A t : MeansOn(item, t) <=> Compare(op, Lowercase(t), Lowercase(v))
  <2>1. {Lowercase(s) : s \in Values(item.value)} = {Lowercase(v)}
    BY <1>2
  <2> QED
    BY <1>1, <2>1 DEF MeansOn
<1> HIDE DEF op
<1>4. Compare(op, BaseName(Lowercase(path)), Lowercase(v))
  BY <1>3, LowerBase
<1>5. Compare(op, Lowercase(path), Lowercase(v))
  BY <1>1, <1>2, <1>4, LowerForm, BaseWithin
<1> QED
  BY <1>3, <1>5

LEMMA NameMatchedIsMeant ==
  ASSUME NEW item, GoodValue(item.value), ~ HasSlash(item), NEW path, IsText(path),
         item.modifier \in {"endswith", "contains", "re", "contains|all"},
         NEW field \in {"comm", "parent_comm"},
         MatchesOn(MapOp(item.modifier), Normalize(item.value, field, MapOp(item.modifier)),
                   BaseName(path))
  PROVE  MeansOn(item, path)
<1> DEFINE op == MapOp(item.modifier)  value == item.value  normal == Normalize(value, field, op)
<1>1. AsStr(normal) = AsStr(value) /\ AsU64(normal) = AsU64(value)
  <2>1. CASE value.type = "text"
    <3>1. IsText(value.of) /\ Values(value) = {value.of} /\ AsStr(value) = {value.of} /\ AsU64(value) = {}
      BY <2>1, GoodValues DEF GoodValue
    <3>2. ASSUME NEW k \in 1..Len(value.of) PROVE (value.of)[k] # Slash
      <4> SUFFICES ASSUME (value.of)[k] = Slash PROVE FALSE
        OBVIOUS
      <4>1. Len(<<Slash>>) = 1 /\ <<Slash>>[1] = Slash /\ IsText(<<Slash>>)
        <5>1. Len(<<Slash>>) = 1 /\ <<Slash>>[1] = Slash /\ DOMAIN <<Slash>> = 1..1
          OBVIOUS
        <5>2. Slash \in ToSet(<<Slash>>)
          BY <5>1 DEF ToSet
        <5> QED
          BY <5>1, <5>2 DEF IsText
      <4>2. k - 1 \in Nat /\ (k - 1) + 1 = k /\ k <= Len(value.of) /\ \A j \in 1..1 : j = 1
        BY <3>1, TextForm
      <4>3. StandsAt(<<Slash>>, value.of, k - 1)
        BY <4>1, <4>2 DEF StandsAt
      <4>4. Within(value.of, <<Slash>>)
        BY <3>1, <4>1, <4>2, <4>3, WithinStands
      <4> QED
        BY <3>1, <4>4 DEF HasSlash
    <3>3. BaseName(value.of) = value.of
      BY <3>1, <3>2, NameIsBase
    <3> QED
      BY <2>1, <3>1, <3>3, NormalForm
  <2>2. CASE value.type = "number"
    BY <2>2, NormalForm
  <2> QED
    BY <2>1, <2>2 DEF GoodValue
<1>2. MatchesOn(op, value, BaseName(path))
  BY <1>1, SameMatches
<1>3. IsText(BaseName(path))
  BY BaseForm
<1> QED
  BY <1>2, <1>3, MatchedIsMeant, NameMeansImage

LEMMA ImageMeantIsMatched ==
  ASSUME NEW item, GoodValue(item.value), NEW path, IsText(path),
         item.modifier \notin {"startswith", "contains", "re", "contains|all"},
         item.modifier # "none" =>
           /\ item.value.type = "text"
           /\ \A t \in Values(item.value) \union {path} : ~ HasCapitals(t),
         NEW field \in {"comm", "parent_comm"},
         MeansOn(item, path)
  PROVE  MatchesOn(MapOp(item.modifier), Normalize(item.value, field, MapOp(item.modifier)),
                   BaseName(path))
<1> DEFINE op == MapOp(item.modifier)  value == item.value  normal == Normalize(value, field, op)
<1>1. IsText(BaseName(path))
  BY BaseForm
<1>2. CASE op = "eq" /\ value.type = "text"
  <2>1. IsText(value.of) /\ Values(value) = {value.of}
    BY <1>2, GoodValues DEF GoodValue
  <2>2. Lowercase(path) = Lowercase(value.of)
    BY <1>2, <2>1 DEF MeansOn
  <2>3. Lowercase(BaseName(path)) = Lowercase(BaseName(value.of))
    BY <2>1, <2>2, LowerBase
  <2>4. AsStr(normal) = {BaseName(value.of)}
    BY <1>2, NormalForm
  <2> QED
    BY <1>2, <2>3, <2>4 DEF MatchesOn, ValuesEqual
<1>3. CASE op = "eq" /\ value.type = "number"
  <2> DEFINE n == value.of
  <2>1. n \in 0..U64Max /\ Values(value) = {Numeral(n)} /\ normal = value
    BY <1>3, GoodValues, NormalForm DEF GoodValue
  <2> HIDE DEF n
  <2>2. Lowercase(path) = Lowercase(Numeral(n))
    BY <1>3, <2>1 DEF MeansOn
  <2>3. path = Numeral(n)
    BY <2>1, <2>2, LowerNumeral
  <2>4. BaseName(path) = path
    BY <2>1, <2>3, NumeralForm, NameIsBase
  <2>5. ValuesEqual(BaseName(path), value)
    BY <1>1, <2>1, <2>2, <2>4, EqualInLower
  <2> QED
    BY <1>3, <2>1, <2>5 DEF MatchesOn
<1>4. CASE op # "eq"
  <2>1. item.modifier = "endswith" /\ op = "suffix" /\ value.type = "text"
    BY <1>4, MapOpForm
  <2>2. IsText(value.of) /\ Values(value) = {value.of}
    BY <2>1, GoodValues DEF GoodValue
  <2>3. Compare("suffix", Lowercase(path), Lowercase(value.of))
    BY <2>1, <2>2 DEF MeansOn
  <2>4. Lowercase(path) = path /\ Lowercase(value.of) = value.of
    BY <2>1, <2>2 DEF HasCapitals
  <2>5. Compare("suffix", BaseName(path), BaseName(value.of))
    BY <2>2, <2>3, <2>4, SuffixOfBase
  <2>6. AsStr(normal) = {BaseName(value.of)}
    BY <2>1, NormalForm
  <2> QED
    BY <2>1, <2>5, <2>6 DEF MatchesOn
<1> QED
  BY <1>2, <1>3, <1>4 DEF GoodValue

-----------------------------------------------------------------------------
(* An item and its condition, on an event.                                 *)

ItemCondition(item) ==
  [field |-> FieldMap[item.field], op |-> MapOp(item.modifier),
   value |-> Normalize(item.value, FieldMap[item.field], MapOp(item.modifier))]

LEMMA OnTexts ==
  /\ \A c, event : MatchCondition(c, event)
       <=> \E text \in Field(event, c.field) : MatchesOn(c.op, c.value, text)
  /\ \A item, o : ItemMeans(item, o)
       <=> \E text \in TrueTexts(o, item.field) : MeansOn(item, text)
<1>1. ASSUME NEW c, NEW event
      PROVE  MatchCondition(c, event)
               <=> \E text \in Field(event, c.field) : MatchesOn(c.op, c.value, text)
  BY DEF MatchCondition, MatchesOn
<1>2. ASSUME NEW item, NEW o
      PROVE  ItemMeans(item, o) <=> \E text \in TrueTexts(o, item.field) : MeansOn(item, text)
  BY DEF ItemMeans, MeansOn
<1> QED
  BY <1>1, <1>2

LEMMA SupportedFields ==
  DOMAIN FieldMap = {"Image", "ParentImage", "CommandLine", "DestinationPort", "EventID"}
  BY DEF FieldMap

\* The texts of an event that stand for those that a document speaks of.
LEMMA FieldTexts ==
  ASSUME NEW o \in Occurrences
  PROVE  /\ Field(Event(o), FieldMap["Image"]) = {BaseName(o.image)}
         /\ Field(Event(o), FieldMap["ParentImage"]) = {BaseName(o.parent)}
         /\ Field(Event(o), FieldMap["CommandLine"]) = {o.path}
         /\ Field(Event(o), FieldMap["DestinationPort"]) = IF o.port = 0 THEN {} ELSE {Numeral(o.port)}
         /\ Field(Event(o), FieldMap["EventID"]) = {<<o.kind>>}
         /\ Field(Event(o), "kind") = {<<o.kind>>}
         /\ TrueTexts(o, "Image") = {o.image} /\ TrueTexts(o, "ParentImage") = {o.parent}
         /\ TrueTexts(o, "CommandLine") = Field(Event(o), FieldMap["CommandLine"])
         /\ TrueTexts(o, "DestinationPort") = Field(Event(o), FieldMap["DestinationPort"])
<1> HIDE DEF Numeral, BaseName
<1>1. BaseName(IF o.kind = "exec" THEN o.path ELSE o.image) = BaseName(o.image)
  BY OccurrenceAssumption
<1>2. DOMAIN Alias = {"image", "parent_image", "filename"}
  BY DEF Alias
<1>3. /\ FieldMap["Image"] = "comm" /\ FieldMap["ParentImage"] = "parent_comm"
      /\ FieldMap["CommandLine"] = "path" /\ FieldMap["DestinationPort"] = "dst_port"
      /\ FieldMap["EventID"] = "kind"
  BY DEF FieldMap
<1>4. /\ DOMAIN Event(o) = {"kind", "comm", "parent_comm", "path", "uid", "dst_port"}
      /\ Event(o)["kind"] = <<o.kind>> /\ Event(o)["comm"] = BaseName(o.image)
      /\ Event(o)["parent_comm"] = BaseName(o.parent) /\ Event(o)["path"] = o.path
      /\ Event(o)["dst_port"] = IF o.port = 0 THEN {} ELSE {Numeral(o.port)}
  BY <1>1 DEF Event
<1>5. \A name \in {"kind", "comm", "parent_comm", "path"} : Field(Event(o), name) = {Event(o)[name]}
  BY <1>2, <1>4 DEF Field
<1>6. Field(Event(o), "dst_port") = Event(o)["dst_port"]
  BY <1>2, <1>4 DEF Field
<1> QED
  BY <1>3, <1>4, <1>5, <1>6 DEF TrueTexts

\* What a value in a document that parses can be.
DocValue(value) ==
  \/ value.type = "text" /\ IsText(value.of)
  \/ value.type = "number" /\ value.of \in Int /\ value.of <= U64Max
  \/ value.type = "list"

LEMMA ItemMatchedIsMeant ==
  ASSUME NEW item, DocValue(item.value), ~ Laxer(item), NEW o \in Occurrences,
         MatchCondition(ItemCondition(item), Event(o))
  PROVE  ItemMeans(item, o)
<1> DEFINE f == FieldMap[item.field]  op == MapOp(item.modifier)
           normal == Normalize(item.value, f, op)
<1>1. PICK text \in Field(Event(o), f) : MatchesOn(op, normal, text)
  BY OnTexts DEF ItemCondition
<1>2. op \in Ops \union {"eq"}
  BY MapOpForm
<1>3. GoodValue(item.value)
  <2>1. CASE item.value.type = "list"
    <3>1. normal = item.value
      BY <2>1 DEF Normalize
    <3>2. AsStr(normal) = {} /\ AsU64(normal) = {}
      BY <2>1, <3>1 DEF AsStr, AsU64
    <3>3. ~ MatchesOn(op, normal, text)
      BY <1>2, <3>2 DEF MatchesOn, ValuesEqual, Ops
    <3> QED
      BY <1>1, <3>3
  <2>2. CASE item.value.type = "number"
    BY <2>2, NumeralAssumption DEF DocValue, Laxer, GoodValue
  <2> QED
    BY <2>1, <2>2 DEF DocValue, GoodValue
<1>4. item.field \in DOMAIN FieldMap
  BY DEF Laxer
<1> HIDE DEF f, op, normal
<1>5. CASE IsImage(item)
  <2>1. PICK path : /\ IsText(path) /\ path \in TrueTexts(o, item.field)
                    /\ Field(Event(o), f) = {BaseName(path)}
    BY <1>5, FieldTexts, OccurrenceAssumption DEF IsImage, f
  <2>2. f \in {"comm", "parent_comm"}
    BY <1>5 DEF IsImage, f, FieldMap
  <2>3. item.modifier \in {"endswith", "contains", "re", "contains|all"} /\ ~ HasSlash(item)
    BY <1>5 DEF Laxer
  <2>4. MeansOn(item, path)
    BY <1>1, <1>3, <2>1, <2>2, <2>3, NameMatchedIsMeant DEF normal, op
  <2> QED
    BY <2>1, <2>4, OnTexts
<1>6. CASE item.field \in {"CommandLine", "DestinationPort"}
  <2>1. normal = item.value
    BY <1>6 DEF normal, f, Normalize, FieldMap
  <2>2. text \in TrueTexts(o, item.field) /\ IsText(text)
    BY <1>1, <1>6, FieldTexts, OccurrenceAssumption, NumeralForm DEF f
  <2>3. MeansOn(item, text)
    BY <1>1, <1>3, <2>1, <2>2, MatchedIsMeant DEF op
  <2> QED
    BY <2>2, <2>3, OnTexts
<1>7. CASE item.field = "EventID"
  <2>1. item.value.type = "number"
    BY <1>3, <1>7 DEF Laxer, GoodValue
  <2>2. normal = item.value /\ text = <<o.kind>>
    <3>1. text = <<o.kind>>
      BY <1>1, <1>7, FieldTexts DEF f
    <3> QED
      BY <2>1, <3>1 DEF normal, Normalize
  <2> DEFINE n == item.value.of
  <2>3. AsStr(normal) = {} /\ AsU64(normal) = {n} /\ n \in 0..U64Max
    BY <1>3, <2>1, <2>2, GoodValues DEF GoodValue
  <2> HIDE DEF n
  <2>4. ParseU64(text) = {n}
    BY <1>1, <1>2, <2>3 DEF MatchesOn, ValuesEqual, Ops
  <2>5. <<o.kind>> = <<Digits[n]>>
    BY <2>2, <2>3, <2>4, ParseNumeral DEF Numeral
  <2>6. o.kind = Digits[n]
    BY <2>5
  <2> QED
    BY <2>3, <2>6, OccurrenceAssumption, SymbolAssumption
<1> QED
  BY <1>4, <1>5, <1>6, <1>7, SupportedFields DEF IsImage

LEMMA ItemMeantIsMatched ==
  ASSUME NEW o \in Occurrences, NEW item, DocValue(item.value), ~ Stricter(item, o),
         item.field \in DOMAIN FieldMap, ItemMeans(item, o)
  PROVE  MatchCondition(ItemCondition(item), Event(o))
<1> DEFINE f == FieldMap[item.field]  op == MapOp(item.modifier)
           normal == Normalize(item.value, f, op)
<1>1. PICK text \in TrueTexts(o, item.field) : MeansOn(item, text)
  BY OnTexts
<1>2. /\ item.value.type # "list" /\ item.modifier # "contains|all" /\ item.field # "EventID"
      /\ item.value.type = "number" => item.modifier = "none"
      /\ IsImage(item) => item.modifier \notin {"startswith", "contains", "re"}
  BY DEF Stricter
<1>3. item.modifier # "none" =>
        \A t \in Values(item.value) \union {text} : ~ HasCapitals(t)
  BY <1>1 DEF Stricter
<1>4. SUFFICES \E t \in Field(Event(o), f) : MatchesOn(op, normal, t)
  BY OnTexts DEF ItemCondition
<1>5. CASE item.value.type = "number" /\ item.value.of \notin Nat
  <2>1. Values(item.value) = {}
    BY <1>5 DEF Values
  <2> QED
    BY <1>1, <1>2, <2>1 DEF MeansOn
<1>6. CASE ~ (item.value.type = "number" /\ item.value.of \notin Nat)
  <2>1. GoodValue(item.value)
    BY <1>2, <1>6, NumeralAssumption DEF DocValue, GoodValue
  <2>2. item.modifier # "none" => item.value.type = "text"
    BY <1>2, <2>1 DEF GoodValue
  <2> HIDE DEF f, op, normal
  <2>3. CASE IsImage(item)
    <3>1. IsText(text) /\ Field(Event(o), f) = {BaseName(text)}
      <4>1. IsText(o.image) /\ IsText(o.parent)
        BY OccurrenceAssumption
      <4>2. CASE item.field = "Image"
        <5>1. Field(Event(o), f) = {BaseName(o.image)} /\ text = o.image
          BY <1>1, <4>2, FieldTexts DEF f
        <5> QED
          BY <4>1, <5>1
      <4>3. CASE item.field = "ParentImage"
        <5>1. Field(Event(o), f) = {BaseName(o.parent)} /\ text = o.parent
          BY <1>1, <4>3, FieldTexts DEF f
        <5> QED
          BY <4>1, <5>1
      <4> QED
        BY <2>3, <4>2, <4>3 DEF IsImage
    <3>2. f \in {"comm", "parent_comm"}
      BY <2>3 DEF IsImage, f, FieldMap
    <3>3. MatchesOn(op, normal, BaseName(text))
      BY <1>1, <1>2, <1>3, <2>1, <2>2, <2>3, <3>1, <3>2, ImageMeantIsMatched DEF normal, op
    <3> QED
      BY <3>1, <3>3
  <2>4. CASE item.field \in {"CommandLine", "DestinationPort"}
    <3>1. normal = item.value
      BY <2>4 DEF normal, f, Normalize, FieldMap
    <3>2. text \in Field(Event(o), f)
      BY <1>1, <2>4, FieldTexts DEF f
    <3>3. IsText(text)
      <4>1. CASE item.field = "CommandLine"
        BY <3>2, <4>1, FieldTexts, OccurrenceAssumption DEF f
      <4>2. CASE item.field = "DestinationPort"
        BY <3>2, <4>2, FieldTexts, OccurrenceAssumption, NumeralForm DEF f
      <4> QED
        BY <2>4, <4>1, <4>2
    <3>4. MatchesOn(op, normal, text)
      BY <1>1, <1>2, <1>3, <2>1, <2>2, <3>1, <3>3, MeantIsMatched DEF op
    <3> QED
      BY <3>2, <3>4
  <2> QED
    BY <1>2, <2>3, <2>4, SupportedFields DEF IsImage
<1> QED
  BY <1>5, <1>6

-----------------------------------------------------------------------------
(* A document and its rule.                                                *)

\* What SigmaFileAssumption says of one document.
ParsedDoc(doc) ==
  /\ doc.condition.form \in {"name", "all of", "one of", "expression"}
  /\ doc.condition.form = "name" =>
       doc.condition.names # Star /\ \A m, n \in ToSet(doc.condition.names) : m = n
  /\ \A name \in DOMAIN doc.selections : doc.selections[name] # NotMapping =>
       \A item \in doc.selections[name] : DocValue(item.value)

LEMMA ParsedDocs ==
  ASSUME NEW in \in Inputs, NEW d \in DOMAIN in.sigma
  PROVE  ParsedDoc(in.sigma[d])
  BY SigmaFileAssumption DEF ParsedDoc, DocValue

\* The condition on the kind asks for the kind of the category.
LEMMA KindMatch ==
  ASSUME NEW doc, doc.category \in DOMAIN KindMap, NEW c \in KindCondition(doc),
         NEW o \in Occurrences
  PROVE  MatchCondition(c, Event(o)) <=> KindMap[doc.category] = o.kind
<1> DEFINE k == KindMap[doc.category]
<1>1. k \in Kinds /\ o.kind \in Kinds
  BY OccurrenceAssumption DEF KindMap, Kinds
<1>2. c.field = "kind" /\ c.op = "eq" /\ c.value.type = "text" /\ c.value.of = <<k>>
  BY DEF KindCondition, Text
<1>3. AsStr(c.value) = {<<k>>} /\ AsU64(c.value) = {}
  BY <1>2 DEF AsStr, AsU64
<1> HIDE DEF k
<1>4. \A e \in Kinds : Lowercase(<<e>>) = <<e>>
  <2> SUFFICES ASSUME NEW e \in Kinds PROVE Lowercase(<<e>>) = <<e>>
    OBVIOUS
  <2>1. e \notin DOMAIN Upper
    BY SymbolAssumption
  <2> DEFINE t == <<e>>
  <2>2. DOMAIN t = 1..1 /\ t[1] = e
    OBVIOUS
  <2>3. t = [i \in DOMAIN t |-> t[i]]
    OBVIOUS
  <2>4. \A i \in DOMAIN t : t[i] \notin DOMAIN Upper
    BY <2>1, <2>2
  <2> QED
    BY <2>3, <2>4 DEF Lowercase
<1>5. ValuesEqual(<<o.kind>>, c.value) <=> o.kind = k
  <2>1. ValuesEqual(<<o.kind>>, c.value) <=> <<o.kind>> = <<k>>
    BY <1>1, <1>3, <1>4 DEF ValuesEqual
  <2> QED
    BY <2>1
<1>6. MatchCondition(c, Event(o)) <=> MatchesOn(c.op, c.value, <<o.kind>>)
  <2>1. Field(Event(o), c.field) = {<<o.kind>>}
    BY <1>2, FieldTexts
  <2> QED
    BY <2>1, OnTexts
<1>7. \A s \in AsStr(c.value) : ~ Compare("eq", <<o.kind>>, s)
  BY DEF Compare
<1> QED
  BY <1>2, <1>5, <1>6, <1>7 DEF MatchesOn, k

\* The group of the rule: the conditions of the supported items of the selections
\* used, and the kind.
LEMMA TranslatedRule ==
  ASSUME NEW doc, NEW r \in Translate(doc)
  PROVE  LET items == Supported(Items(doc))
             kind  == KindCondition(doc)
         IN /\ items # {} /\ doc.condition.form # "expression" /\ r.enabled = TRUE
            /\ r.group.conds = {ItemCondition(i) : i \in items} \union kind
            /\ r.group.of = IF kind = {} /\ doc.condition.form = "one of" THEN "any" ELSE "all"
<1> DEFINE named == OfList(doc.condition.names) \cap Usable(doc)
           conds == UNION {Conditions(doc.selections[name]) : name \in named}
           form == doc.condition.form  kind == KindCondition(doc)
<1>1. conds = {ItemCondition(i) : i \in Supported(Items(doc))}
  <2>1. \A name : Conditions(doc.selections[name])
                    = {ItemCondition(i) : i \in Supported(doc.selections[name])}
    BY DEF Conditions, ItemCondition
  <2>2. named = Used(doc)
    BY DEF Used
  <2>3. Items(doc) = UNION {doc.selections[name] : name \in Used(doc)}
    BY DEF Items
  <2>4. Supported(Items(doc)) = UNION {Supported(doc.selections[name]) : name \in Used(doc)}
    BY <2>3 DEF Supported
  <2> HIDE DEF named
  <2>5. \A c : c \in conds <=> \E name \in Used(doc) : c \in Conditions(doc.selections[name])
    BY <2>2
  <2> HIDE DEF conds
  <2>6. \A c : c \in conds
             <=> \E name \in Used(doc) : \E i \in Supported(doc.selections[name]) : c = ItemCondition(i)
    BY <2>1, <2>5
  <2>7. \A c : c \in conds <=> \E i \in Supported(Items(doc)) : c = ItemCondition(i)
    BY <2>4, <2>6
  <2> QED
    BY <2>7
<1>2. PICK g \in Group(doc) :
        r = [id |-> "sigma-" \o doc.id, enabled |-> TRUE,
             group |-> [of    |-> IF kind # {} THEN "all" ELSE g.of,
                        conds |-> g.conds \union kind]]
  BY DEF Translate
<1>3. /\ r.enabled = TRUE /\ r.group.conds = g.conds \union kind
      /\ r.group.of = IF kind # {} THEN "all" ELSE g.of
  BY <1>2
<1>4. /\ conds # {} /\ form # "expression"
      /\ g = [of |-> IF form = "one of" THEN "any" ELSE "all", conds |-> conds]
  <2>1. Group(doc) = IF conds = {} \/ form = "expression"
                       THEN {}
                       ELSE {[of |-> IF form = "one of" THEN "any" ELSE "all", conds |-> conds]}
    BY DEF Group
  <2> HIDE DEF conds, form
  <2>2. g \in Group(doc)
    BY <1>2
  <2> QED
    BY <2>1, <2>2
<1>5. g.of = (IF form = "one of" THEN "any" ELSE "all") /\ g.conds = conds
  BY <1>4
<1> HIDE DEF conds, kind, form
<1>6. Supported(Items(doc)) # {}
  BY <1>1, <1>4
<1> QED
  BY <1>1, <1>3, <1>4, <1>5, <1>6 DEF kind, form

\* Every selection used is a mapping, and its items are those of a document.
LEMMA UsedSelections ==
  ASSUME NEW doc, ParsedDoc(doc), NEW name \in Used(doc)
  PROVE  /\ name \in DOMAIN doc.selections /\ doc.selections[name] # NotMapping
         /\ Supported(doc.selections[name]) # {}
         /\ \A i \in doc.selections[name] : DocValue(i.value) /\ i \in Items(doc)
<1>1. name \in Usable(doc)
  BY DEF Used
<1>2. /\ name \in DOMAIN doc.selections /\ doc.selections[name] # NotMapping
      /\ Supported(doc.selections[name]) # {}
  BY <1>1 DEF Usable
<1> QED
  BY <1>2 DEF Items, ParsedDoc

LEMMA ItemsOfUsed ==
  ASSUME NEW doc, ParsedDoc(doc), NEW i \in Items(doc)
  PROVE  DocValue(i.value) /\ \E name \in Used(doc) : i \in doc.selections[name]
<1>1. PICK name \in Used(doc) : i \in doc.selections[name]
  BY DEF Items
<1> QED
  BY <1>1, UsedSelections

\* The selections used are named by the document.
LEMMA UsedIsNamed == ASSUME NEW doc PROVE Used(doc) \subseteq Named(doc)
  BY DEF Used, Named, OfList, Usable

\* What is meant and not missed for a known reason is matched.
LEMMA MeantIsAlerted ==
  ASSUME NEW doc, ParsedDoc(doc), NEW r \in Translate(doc), NEW o \in Occurrences,
         Means(doc, o), ~ MayMiss(doc, o)
  PROVE  MatchGroup(r.group, Event(o))
<1> DEFINE items == Supported(Items(doc))  kind == KindCondition(doc)  form == doc.condition.form
           Met(i) == MatchCondition(ItemCondition(i), Event(o))
<1>1. /\ items # {} /\ r.group.conds = {ItemCondition(i) : i \in items} \union kind
      /\ r.group.of = IF kind = {} /\ form = "one of" THEN "any" ELSE "all"
  BY TranslatedRule
<1>2. \A i \in items : i \in Items(doc) /\ i.field \in DOMAIN FieldMap
  BY DEF Supported
<1>3. ASSUME NEW i \in items, ItemMeans(i, o) PROVE Met(i)
  <2>1. ~ Stricter(i, o)
    BY <1>2 DEF MayMiss
  <2>2. DocValue(i.value)
    BY <1>2, ItemsOfUsed
  <2> QED
    BY <1>2, <1>3, <2>1, <2>2, ItemMeantIsMatched
<1>4. ASSUME NEW c \in kind PROVE MatchCondition(c, Event(o))
  <2>1. doc.category \in DOMAIN KindMap
    BY <1>4 DEF KindCondition
  <2>2. doc.category # "none"
    BY <2>1 DEF KindMap
  <2>3. KindMap[doc.category] = o.kind
    BY <2>2 DEF Means
  <2> QED
    BY <1>4, <2>1, <2>3, KindMatch
<1>5. ASSUME \A i \in items : ItemMeans(i, o) PROVE MatchGroup(r.group, Event(o))
  <2> HIDE DEF items, kind, Met
  <2>1. \A c \in r.group.conds : MatchCondition(c, Event(o))
    BY <1>1, <1>3, <1>4, <1>5 DEF Met
  <2>2. r.group.conds # {}
    BY <1>1
  <2> QED
    BY <1>1, <2>1, <2>2 DEF MatchGroup
<1>6. CASE form # "one of"
  <2>1. \A name \in Named(doc) : /\ name \in DOMAIN doc.selections
                                 /\ SelectionMeans(doc.selections[name], o)
    BY <1>6 DEF Means
  <2>2. ASSUME NEW i \in items PROVE ItemMeans(i, o)
    <3>1. PICK name \in Used(doc) : i \in doc.selections[name]
      BY <1>2, <2>2, ItemsOfUsed
    <3> QED
      BY <2>1, <3>1, UsedIsNamed DEF SelectionMeans
  <2> QED
    BY <1>5, <2>2
<1>7. CASE form = "one of"
  <2>1. PICK name \in Named(doc) : SelectionMeans(doc.selections[name], o)
    BY <1>7 DEF Means
  <2>2. name \in Used(doc)
    <3>1. doc.condition.names # Star /\ Named(doc) \subseteq Usable(doc)
      BY <1>7 DEF MayMiss, Incomplete
    <3> QED
      BY <2>1, <3>1 DEF Used, OfList, Named
  <2>3. \A i \in doc.selections[name] : ItemMeans(i, o) /\ i \in Items(doc)
    BY <2>1, <2>2, UsedSelections DEF SelectionMeans
  <2>4. CASE kind = {}
    <3>1. PICK i \in doc.selections[name] : i.field \in DOMAIN FieldMap
      BY <2>2, UsedSelections DEF Supported
    <3>2. i \in items
      BY <2>3, <3>1 DEF Supported
    <3>3. Met(i)
      BY <1>3, <2>3, <3>1, <3>2
    <3> HIDE DEF items, kind
    <3>4. ItemCondition(i) \in r.group.conds /\ r.group.of = "any"
      BY <1>1, <1>7, <2>4, <3>2
    <3> QED
      BY <3>3, <3>4 DEF MatchGroup
  <2>5. CASE kind # {}
    <3>1. \A m, n \in Used(doc) : m = n
      BY <1>7, <2>5 DEF MayMiss, AlternativesFlattened
    <3>2. \A i \in items : i \in doc.selections[name]
      BY <1>2, <2>2, <3>1, ItemsOfUsed
    <3> QED
      BY <1>5, <2>3, <3>2
  <2> QED
    BY <2>4, <2>5
<1> QED
  BY <1>6, <1>7

\* What is matched and not in excess for a known reason is meant.
LEMMA AlertedIsMeant ==
  ASSUME NEW doc, ParsedDoc(doc), NEW r \in Translate(doc), NEW o \in Occurrences,
         MatchGroup(r.group, Event(o)), ~ MayExceed(doc)
  PROVE  Means(doc, o)
<1> DEFINE items == Supported(Items(doc))  kind == KindCondition(doc)  form == doc.condition.form
<1>1. /\ items # {} /\ form # "expression"
      /\ r.group.conds = {ItemCondition(i) : i \in items} \union kind
      /\ r.group.of = IF kind = {} /\ form = "one of" THEN "any" ELSE "all"
  BY TranslatedRule
<1>2. ASSUME NEW i \in Items(doc) PROVE i \in items /\ ~ Laxer(i) /\ DocValue(i.value)
  <2>1. ~ Laxer(i)
    BY <1>2 DEF MayExceed
  <2>2. i.field \in DOMAIN FieldMap
    BY <2>1 DEF Laxer
  <2> QED
    BY <1>2, <2>1, <2>2, ItemsOfUsed DEF Supported
<1>3. ASSUME NEW i \in items, MatchCondition(ItemCondition(i), Event(o)) PROVE ItemMeans(i, o)
  <2>1. i \in Items(doc)
    BY <1>3 DEF Supported
  <2> QED
    BY <1>2, <1>3, <2>1, ItemMatchedIsMeant
<1>4. /\ doc.category \in DOMAIN KindMap \union {"none"}
      /\ doc.category \in DOMAIN KindMap => doc.category # "none" /\ kind # {}
      /\ doc.category \notin DOMAIN KindMap => kind = {}
  BY DEF MayExceed, KindCondition, KindMap
<1>5. ASSUME r.group.of = "all" PROVE \A i \in items : ItemMeans(i, o)
  <2> HIDE DEF items, kind, form
  <2>1. \A i \in items : MatchCondition(ItemCondition(i), Event(o))
    BY <1>1, <1>5 DEF MatchGroup
  <2> QED
    BY <1>3, <2>1
<1>6. doc.category # "none" => doc.category \in DOMAIN KindMap /\ KindMap[doc.category] = o.kind
  <2> SUFFICES ASSUME doc.category # "none"
               PROVE  doc.category \in DOMAIN KindMap /\ KindMap[doc.category] = o.kind
    OBVIOUS
  <2>1. doc.category \in DOMAIN KindMap /\ kind # {}
    BY <1>4
  <2>2. PICK c \in kind : TRUE
    BY <2>1
  <2>3. MatchCondition(c, Event(o))
    <3> HIDE DEF items, kind, form
    <3>1. r.group.of = "all" /\ c \in r.group.conds
      BY <1>1, <2>1, <2>2
    <3> QED
      BY <3>1 DEF MatchGroup
  <2> QED
    BY <2>1, <2>2, <2>3, KindMatch
<1>7. PICK some \in Used(doc) : TRUE
  <2>1. PICK i \in Items(doc) : TRUE
    BY <1>1 DEF Supported
  <2> QED
    BY <2>1, ItemsOfUsed
<1>8. ASSUME NEW name \in Used(doc), \A i \in doc.selections[name] : ItemMeans(i, o)
      PROVE  name \in DOMAIN doc.selections /\ SelectionMeans(doc.selections[name], o)
  BY <1>8, UsedSelections DEF SelectionMeans
<1>9. CASE form = "one of"
  <2>1. \E name \in Used(doc) : \A i \in doc.selections[name] : ItemMeans(i, o)
    <3>1. CASE kind # {}
      <4>1. r.group.of = "all"
        <5> HIDE DEF kind, form, items
        <5> QED BY <1>1, <3>1
      <4> QED
        BY <1>2, <1>5, <1>7, <4>1, UsedSelections
    <3>2. CASE kind = {}
      <4>1. PICK i \in items : MatchCondition(ItemCondition(i), Event(o))
        <5> HIDE DEF kind, form, items
        <5>1. r.group.of = "any" /\ r.group.conds = {ItemCondition(i) : i \in items}
          BY <1>1, <1>9, <3>2
        <5> QED
          BY <5>1 DEF MatchGroup
      <4>2. i \in Items(doc) /\ ItemMeans(i, o)
        BY <1>3, <4>1 DEF Supported
      <4>3. PICK name \in Used(doc) : i \in doc.selections[name]
        BY <4>2, ItemsOfUsed
      <4>4. \A k \in doc.selections[name] : k = i
        BY <1>9, <3>2, <4>3 DEF MayExceed, RequirementsSplit
      <4> QED
        BY <4>2, <4>3, <4>4
    <3> QED
      BY <3>1, <3>2
  <2>2. PICK name \in Used(doc) : \A i \in doc.selections[name] : ItemMeans(i, o)
    BY <2>1
  <2>3. /\ name \in Named(doc) /\ name \in DOMAIN doc.selections
        /\ SelectionMeans(doc.selections[name], o)
    BY <1>8, <2>2, UsedIsNamed
  <2> QED
    BY <1>6, <1>9, <2>3 DEF Means
<1>10. CASE form # "one of"
  <2>1. r.group.of = "all"
    <3> HIDE DEF kind, form, items
    <3> QED BY <1>1, <1>10
  <2>2. \A i \in Items(doc) : ItemMeans(i, o)
    BY <1>2, <1>5, <2>1
  <2>3. Named(doc) \subseteq Used(doc)
    <3>1. CASE form = "all of"
      <4>1. doc.condition.names # Star /\ Named(doc) \subseteq Usable(doc)
        BY <3>1 DEF MayExceed, Incomplete
      <4> QED
        BY <4>1 DEF Used, OfList, Named
    <3>2. CASE form = "name"
      <4>1. doc.condition.names # Star /\ \A m, n \in ToSet(doc.condition.names) : m = n
        BY <3>2 DEF ParsedDoc
      <4>2. Named(doc) = ToSet(doc.condition.names)
        BY <4>1 DEF Named
      <4> QED
        BY <1>7, <4>1, <4>2, UsedIsNamed
    <3> QED
      BY <1>1, <1>10, <3>1, <3>2 DEF ParsedDoc
  <2>4. \A name \in Named(doc) : /\ name \in DOMAIN doc.selections
                                 /\ SelectionMeans(doc.selections[name], o)
    BY <1>8, <2>2, <2>3, UsedSelections
  <2> QED
    BY <1>6, <1>10, <2>4 DEF Means
<1> QED
  BY <1>9, <1>10

\* A rule behind the native ones alerts on what the translation of its document matches.
LEMMA ImportedAlerts ==
  ASSUME StartInv, stage = "running", NEW i \in DOMAIN kept, NEW o \in Occurrences
  PROVE  /\ input \in Inputs /\ kept[i] \in DOMAIN input.sigma
         /\ \E r \in Translate(input.sigma[kept[i]]) :
              Alerts(Len(input.native) + i, o) <=> MatchGroup(r.group, Event(o))
<1> DEFINE m == Len(input.native)  n == Len(kept)  doc == input.sigma[kept[i]]
<1>1. /\ docs = Len(input.sigma) /\ rules = NativeRules \o Imported /\ input \in Inputs
  BY ReachedStages DEF ReachedMeans, StartInv, RulesInv
<1>2. /\ m \in Nat /\ n \in Nat /\ i \in 1..n
      /\ DOMAIN rules = 1..(m + n) /\ rules[m + i] = Imported[i] /\ DOMAIN Imported = 1..n
  BY <1>1, RuleLists
<1>3. m + i \in DOMAIN rules
  BY <1>2
<1>4. kept[i] \in ToSet(kept)
  BY DEF ToSet
<1>5. kept[i] \in 1..docs /\ Translate(doc) # {}
  BY <1>4 DEF StartInv, KeptInv
<1>6. kept[i] \in DOMAIN input.sigma
  BY <1>1, <1>5, InputAssumption
<1>7. Imported[i] = CHOOSE r \in Translate(doc) : TRUE
  BY DEF Imported
<1> HIDE DEF doc
<1>8. Imported[i] \in Translate(doc)
  BY <1>5, <1>7
<1>9. Imported[i].enabled = TRUE
  BY <1>8, TranslatedRule
<1>10. Alerts(m + i, o) <=> MatchGroup(Imported[i].group, Event(o))
  BY <1>2, <1>3, <1>9 DEF Alerts, Evaluate
<1> QED
  BY <1>1, <1>6, <1>8, <1>10 DEF doc

LEMMA InvImportMisses == StartInv => ImportMissesOnlyWhereKnown
<1> SUFFICES ASSUME StartInv, stage = "running", NEW i \in DOMAIN kept, NEW o \in Occurrences,
                    Means(input.sigma[kept[i]], o), ~ Alerts(Len(input.native) + i, o),
                    ~ MayMiss(input.sigma[kept[i]], o)
             PROVE  FALSE
  BY DEF ImportMissesOnlyWhereKnown
<1>1. PICK r \in Translate(input.sigma[kept[i]]) :
        Alerts(Len(input.native) + i, o) <=> MatchGroup(r.group, Event(o))
  BY ImportedAlerts
<1>2. ParsedDoc(input.sigma[kept[i]])
  BY ImportedAlerts, ParsedDocs
<1> QED
  BY <1>1, <1>2, MeantIsAlerted

LEMMA InvImportExceeds == StartInv => ImportExceedsOnlyWhereKnown
<1> SUFFICES ASSUME StartInv, stage = "running", NEW i \in DOMAIN kept, NEW o \in Occurrences,
                    Alerts(Len(input.native) + i, o), ~ Means(input.sigma[kept[i]], o),
                    ~ MayExceed(input.sigma[kept[i]])
             PROVE  FALSE
  BY DEF ImportExceedsOnlyWhereKnown
<1>1. PICK r \in Translate(input.sigma[kept[i]]) :
        Alerts(Len(input.native) + i, o) <=> MatchGroup(r.group, Event(o))
  BY ImportedAlerts
<1>2. ParsedDoc(input.sigma[kept[i]])
  BY ImportedAlerts, ParsedDocs
<1> QED
  BY <1>1, <1>2, AlertedIsMeant

\* Whatever the documents and the events: an imported rule misses what its document
\* means only where the translation is known to be stricter.
THEOREM ImportMissesWhereKnown == Spec => []ImportMissesOnlyWhereKnown
<1> QED
  BY StartInvariant, InvImportMisses, PTL

\* And it alerts on what its document does not mean only where the translation is
\* known to be laxer.
THEOREM ImportExceedsWhereKnown == Spec => []ImportExceedsOnlyWhereKnown
<1> QED
  BY StartInvariant, InvImportExceeds, PTL
=============================================================================
