--------------------------- MODULE FileIntegrity ---------------------------
(***************************************************************************)
(* File integrity monitoring: populate_monitored_paths (loader.rs) copies  *)
(* the configured path prefixes into the BPF array MONITORED_PATHS, while  *)
(* the openat probe (sentinel-ebpf/src/probes.rs), attached before, scans  *)
(* that array for every open for writing.  A path is a sequence of bytes   *)
(* without NUL; a buffer of MAX_PATH_LEN bytes is the sequence in front of *)
(* its first NUL.  Update of an array entry and scan are not synchronised: *)
(* a scan may see any front part of an entry that is being copied.  One    *)
(* probe is enough: probes do not act on each other through the array.     *)
(***************************************************************************)
EXTENDS Integers, Sequences

CONSTANTS
  Bytes,
  Names,           \* the names that processes open
  Configs,         \* what config.monitored_paths can be
  MaxPathLen,      \* MAX_PATH_LEN, 128 in the code
  MaxMonitored     \* MAX_MONITORED, 64 in the code, also the literal 64 of the loader

ASSUME NameAssumption == Names \subseteq Seq(Bytes) /\ Configs \subseteq Seq(Seq(Bytes))
ASSUME SizeAssumption == MaxPathLen \in Nat \ {0, 1} /\ MaxMonitored \in Nat \ {0}

VARIABLES
  paths,       \* config.monitored_paths, fixed
  monitored,   \* MONITORED_PATHS
  next,        \* the index of the entry that populate_monitored_paths sets next
  open         \* the openat call in the probe, or the last one that was

fileVars == <<paths, monitored, next, open>>

StartsWith(path, prefix) ==
  Len(prefix) <= Len(path) /\ \A i \in 1..Len(prefix) : path[i] = prefix[i]

\* The first n bytes of a path.
Cut(path, n) == SubSeq(path, 1, IF Len(path) < n THEN Len(path) ELSE n)

\* Mutant of Key: the whole buffer is filled, with no room for a NUL.
KeyFull(path) == Cut(path, MaxPathLen)

\* What the loader stores for a configured path.
Key(path) == Cut(path, MaxPathLen - 1)

\* What bpf_probe_read_user_str leaves in the probe's zeroed buffer: it ends
\* with a NUL, and is empty when the page of the name cannot be read.
ReadUserPath(path, readable) == IF readable THEN Cut(path, MaxPathLen - 1) ELSE <<>>

NoOpen == [at |-> "idle"]

FileInit ==
  /\ paths \in Configs
  /\ monitored = [i \in 1..MaxMonitored |-> <<>>]
  /\ next = 1
  /\ open = NoOpen

Populating == next <= Len(paths) /\ next <= MaxMonitored

\* The kernel copies the value of map.set byte by byte.
CopyByte ==
  /\ Populating
  /\ LET n == Len(monitored[next]) IN
       /\ n < Len(Key(paths[next]))
       /\ monitored' = [monitored EXCEPT ![next] = Cut(paths[next], n + 1)]
  /\ UNCHANGED <<paths, next, open>>

SetReturns ==
  /\ Populating
  /\ monitored[next] = Key(paths[next])
  /\ next' = next + 1
  /\ UNCHANGED <<paths, monitored, open>>

\* try_openat up to path_matches_monitored: the Open event is out (its way is
\* Transport's), and only an open for writing is put to the scan.
Openat(path, write, readable) ==
  /\ open.at # "scan"
  /\ open' = [at |-> IF write THEN "scan" ELSE "done", entry |-> 1,
              path |-> path, write |-> write, readable |-> readable,
              buf |-> ReadUserPath(path, readable), since |-> next, reported |-> FALSE]
  /\ UNCHANGED <<paths, monitored, next>>

\* Mutant of Matches: an empty entry is not passed over.
MatchesEmpty == StartsWith(open.buf, monitored[open.entry])

Matches ==
  /\ monitored[open.entry] # <<>>
  /\ StartsWith(open.buf, monitored[open.entry])

\* One turn of the loop of path_matches_monitored, and what try_openat makes
\* of its result.
ScanHit ==
  /\ open.at = "scan" /\ Matches
  /\ open' = [open EXCEPT !.at = "done", !.reported = TRUE]
  /\ UNCHANGED <<paths, monitored, next>>

ScanOn ==
  /\ open.at = "scan" /\ ~ Matches
  /\ open' = IF open.entry < MaxMonitored THEN [open EXCEPT !.entry = open.entry + 1]
                                          ELSE [open EXCEPT !.at = "done"]
  /\ UNCHANGED <<paths, monitored, next>>

Populate == CopyByte \/ SetReturns

Probe == \/ \E path \in Names, write, readable \in BOOLEAN : Openat(path, write, readable)
         \/ ScanHit \/ ScanOn

FileNext == Populate \/ Probe

FileSpec == FileInit /\ [][FileNext]_fileVars

-----------------------------------------------------------------------------
\* The configured paths the loader has room for, but for the empty one.
Wanted == {j \in 1..Len(paths) : j <= MaxMonitored /\ paths[j] # <<>>}

\* No write is missed: an open for writing that begins when the entry of a
\* path has been set is reported if its name starts with that path.  Both are
\* cut to fit their buffers, which must not part them, and the array is still
\* being written behind the entry.
NoWriteMissed ==
  open.at = "done" /\ open.write /\ open.readable =>
    \A j \in Wanted :
      j < open.since /\ StartsWith(open.path, paths[j]) => open.reported

\* A report has a cause: the name starts with a configured path, or with the
\* front of one that was too long for the buffer, or (only while the agent
\* starts) with the front of one that was being copied.
ReportedForCause ==
  open.at = "done" /\ open.reported =>
    /\ open.write
    /\ \E j \in Wanted :
         \/ StartsWith(open.path, paths[j])
         \/ Len(paths[j]) >= MaxPathLen /\ StartsWith(open.path, Key(paths[j]))
         \/ j >= open.since /\ \E n \in 1..Len(paths[j]) : StartsWith(open.path, Cut(paths[j], n))
=============================================================================
