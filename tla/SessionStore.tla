---------------------------- MODULE SessionStore ----------------------------
(***************************************************************************)
(* The session history (src/state/session-store.ts): each recorded command *)
(* keeps a manifest and an event log in one directory of the user and, at  *)
(* its end, removes what exceeds the limits on number, age and size, in    *)
(* several processes at once and from lists read earlier.                  *)
(***************************************************************************)
EXTENDS Naturals, FiniteSets, Sequences, SequencesExt, FiniteSetsExt

CONSTANTS
  Sessions,         \* one recorder, process and session each, numbered in the order of their names
  Past,             \* those that were over before, of other processes
  Project,          \* the project of each
  MaxSessions, MaxBytes, MaxTotalSessions, MaxTotalBytes, MaxAge,   \* the limits
  MaxEvents,        \* bound: the events of a session
  MaxClock,         \* bound: how far the clock goes beyond the finishes
  StoreFaults       \* a subset of {"append", "io", "crash"}

ASSUME StoreAssumption ==
  /\ Sessions \subseteq Nat \ {0} /\ IsFiniteSet(Sessions) /\ Past \subseteq Sessions /\ Project \in [Sessions -> Nat]
  /\ {MaxSessions, MaxBytes, MaxTotalSessions, MaxTotalBytes, MaxAge} \subseteq Nat \ {0}
  /\ MaxEvents \in Nat \ {0} /\ MaxClock \in Nat

VARIABLES
  rpc,        \* where each recorder stands
  manifest,   \* the manifests in the directory: their status and count of events
  finishedAt, \* the finish time of each session, 0 before
  log,        \* the event logs: Nothing where there is none, else its lines plus one
  eventCount, \* #manifest.eventCount
  pending,    \* the appends chained in #pending
  writeFailed,
  names, listed,  \* readAllSessions: the names still to be read, the manifests read
  position,   \* how far pruneGroup has come in them
  pass,       \* "group" or "total", the two passes of pruneSessions
  retained,   \* retainedBytes
  cutoff,     \* what finished before has expired
  now,        \* the clock
  outcome     \* what finish returned: "none", "failed", "ok", or "unlisted", an ok too,
              \* when it had no list to prune from

Pruning == <<names, listed, position, pass, retained, cutoff>>
Recording == <<eventCount, pending, writeFailed>>
storeVars == <<rpc, manifest, finishedAt, log, Recording, Pruning, now, outcome>>

Nothing == 0
Absent == [status |-> "absent", count |-> 0]
Running == [status |-> "running", count |-> 0]

StoreTypeOK ==
  /\ rpc \in [Sessions -> {"idle", "manifest", "recording", "closed", "finalize", "list", "read",
                           "prune", "remove", "done", "dead"}]
  /\ manifest \in [Sessions -> [status : {"absent", "running", "finished"},
                                count : 0..MaxEvents]]
  /\ finishedAt \in [Sessions -> Nat] /\ cutoff \in [Sessions -> Nat]
  /\ position \in [Sessions -> Nat]
  /\ log \in [Sessions -> 0..MaxEvents + 1]
  /\ eventCount \in [Sessions -> 0..MaxEvents] /\ pending \in [Sessions -> 0..MaxEvents]
  /\ writeFailed \in [Sessions -> BOOLEAN]
  /\ names \in [Sessions -> SUBSET Sessions] /\ listed \in [Sessions -> Seq(Sessions)]
  /\ pass \in [Sessions -> {"group", "total"}] /\ retained \in [Sessions -> Nat]
  /\ now \in Nat /\ outcome \in [Sessions -> {"none", "ok", "unlisted", "failed"}]

StoreInit ==
  /\ rpc = [s \in Sessions |-> IF s \in Past THEN "done" ELSE "idle"]
  /\ outcome = [s \in Sessions |-> IF s \in Past THEN "ok" ELSE "none"]
  /\ eventCount = [s \in Sessions |-> IF s \in Past THEN 1 ELSE 0]
  /\ manifest = [s \in Sessions |->
                   IF s \in Past THEN [status |-> "finished", count |-> 1] ELSE Absent]
  /\ log = [s \in Sessions |-> IF s \in Past THEN 2 ELSE Nothing]
  /\ finishedAt = [s \in Sessions |-> IF s \in Past THEN 1 ELSE 0] /\ now = 2
  /\ pending = [s \in Sessions |-> 0]
  /\ writeFailed = [s \in Sessions |-> FALSE]
  /\ names = [s \in Sessions |-> {}] /\ listed = [s \in Sessions |-> <<>>]
  /\ pass = [s \in Sessions |-> "group"] /\ retained = [s \in Sessions |-> 0]
  /\ cutoff = [s \in Sessions |-> 0]
  /\ position = [s \in Sessions |-> 1]

At(s, there) == rpc' = [rpc EXCEPT ![s] = there]
Ends(s, result) == At(s, "done") /\ outcome' = [outcome EXCEPT ![s] = result]

----------------------------------------------------------------------------
\* SessionRecorder.create: the log first, then the manifest; without one neither.

CreateLog(s) ==
  /\ rpc[s] = "idle"
  /\ \/ At(s, "manifest") /\ log' = [log EXCEPT ![s] = 1] /\ UNCHANGED outcome
     \/ "io" \in StoreFaults /\ Ends(s, "failed") /\ UNCHANGED log
  /\ UNCHANGED <<manifest, finishedAt, Recording, Pruning, now>>

CreateManifest(s) ==
  /\ rpc[s] = "manifest"
  /\ \/ /\ At(s, "recording") /\ manifest' = [manifest EXCEPT ![s] = Running]
        /\ UNCHANGED <<log, outcome>>
     \/ /\ "io" \in StoreFaults /\ Ends(s, "failed")
        /\ log' = [log EXCEPT ![s] = Nothing] /\ UNCHANGED manifest
  /\ UNCHANGED <<finishedAt, Recording, Pruning, now>>

----------------------------------------------------------------------------
\* #record and the chain of appends behind it.

Record(s) ==
  /\ rpc[s] = "recording" /\ eventCount[s] < MaxEvents
  /\ eventCount' = [eventCount EXCEPT ![s] = @ + 1]
  /\ pending' = [pending EXCEPT ![s] = @ + 1]
  /\ UNCHANGED <<rpc, manifest, finishedAt, log, writeFailed, Pruning, now, outcome>>

Append1(s) ==
  /\ pending[s] > 0 /\ rpc[s] # "dead"
  /\ pending' = [pending EXCEPT ![s] = @ - 1]
  /\ \/ log' = [log EXCEPT ![s] = @ + 1] /\ UNCHANGED writeFailed
     \/ /\ "append" \in StoreFaults
        /\ writeFailed' = [writeFailed EXCEPT ![s] = TRUE] /\ UNCHANGED log
  /\ UNCHANGED <<rpc, manifest, finishedAt, eventCount, Pruning, now, outcome>>

----------------------------------------------------------------------------
\* finish: no more events, the chained appends, then the manifest, then the pruning.

\* The finish time is read before finish is called.
Close(s) ==
  /\ rpc[s] = "recording" /\ At(s, "closed")
  /\ finishedAt' = [finishedAt EXCEPT ![s] = now] /\ now' = now + 1
  /\ UNCHANGED <<manifest, log, Recording, Pruning, outcome>>

\* Mutant: finish does not wait for the appends.
DoesNotWait(s) ==
  /\ rpc[s] = "closed"
  /\ IF writeFailed[s] THEN Ends(s, "failed") ELSE At(s, "finalize") /\ UNCHANGED outcome
  /\ UNCHANGED <<manifest, finishedAt, log, Recording, Pruning, now>>

\* A log with a missing line keeps its manifest as it is, running.
AwaitAppends(s) ==
  /\ rpc[s] = "closed" /\ pending[s] = 0
  /\ IF writeFailed[s] THEN Ends(s, "failed") ELSE At(s, "finalize") /\ UNCHANGED outcome
  /\ UNCHANGED <<manifest, finishedAt, log, Recording, Pruning, now>>

Finalize(s) ==
  /\ rpc[s] = "finalize"
  /\ \/ /\ manifest' = [manifest EXCEPT ![s] = [status |-> "finished", count |-> eventCount[s]]]
        /\ At(s, "list") /\ UNCHANGED outcome
     \/ "io" \in StoreFaults /\ Ends(s, "failed") /\ UNCHANGED manifest
  /\ UNCHANGED <<finishedAt, log, Recording, Pruning, now>>

----------------------------------------------------------------------------
\* pruneSessions: list, prune by project, list again, prune over all projects.

Stored == <<manifest, finishedAt, log>>

\* readdir; without a list there is no pruning.
List(s) ==
  /\ rpc[s] = "list"
  /\ \/ /\ At(s, "read") /\ UNCHANGED outcome
        /\ names' = [names EXCEPT ![s] = {n \in Sessions : manifest[n] # Absent}]
        /\ listed' = [listed EXCEPT ![s] = <<>>]
     \/ "io" \in StoreFaults /\ Ends(s, "unlisted") /\ UNCHANGED <<names, listed>>
  /\ UNCHANGED <<Stored, Recording, position, pass, retained, cutoff, now>>

\* Mutant: what is still being recorded is pruned like the rest.
Unfiltered(n) == manifest[n] # Absent

\* The manifests that are pruned: not those read as running.
Prunable(n) == manifest[n].status = "finished"

\* The manifests are read one by one in the order of their names; one that has gone is
\* passed over.
ReadName(s) ==
  /\ rpc[s] = "read" /\ names[s] # {}
  /\ LET n == Min(names[s])
     IN /\ names' = [names EXCEPT ![s] = @ \ {n}]
        /\ listed' = [listed EXCEPT ![s] = IF Prunable(n) THEN Append(@, n) ELSE @]
  /\ UNCHANGED <<rpc, Stored, Recording, position, pass, retained, cutoff, now, outcome>>

\* The groups of a pass, one for each project or one for all.
SameGroup(s, a, b) == pass[s] = "total" \/ Project[a] = Project[b]

\* One group after the other, and within each the newest first, or else by name.
Before(s, a, b) ==
  IF ~SameGroup(s, a, b) THEN Project[a] < Project[b]
  ELSE finishedAt[a] > finishedAt[b] \/ (finishedAt[a] = finishedAt[b] /\ a < b)

Newest(s, all) ==
  {order \in [1..Cardinality(all) -> all] :
     Range(order) = all /\ \A i, j \in DOMAIN order : i < j => Before(s, order[i], order[j])}

Sort(s) ==
  /\ rpc[s] = "read" /\ names[s] = {} /\ At(s, "prune")
  /\ \E order \in Newest(s, Range(listed[s])) : listed' = [listed EXCEPT ![s] = order]
  /\ position' = [position EXCEPT ![s] = 1]
  /\ cutoff' = [cutoff EXCEPT ![s] =
                  IF pass[s] = "total" \/ now <= MaxAge THEN @ ELSE now - MaxAge]
  /\ UNCHANGED <<Stored, Recording, names, pass, retained, now, outcome>>

Candidate(s) == listed[s][position[s]]

\* The size of a session in the directory: its lines, and one for its manifest.
Bytes(n) == (IF log[n] = Nothing THEN 0 ELSE log[n] - 1) + (IF manifest[n] = Absent THEN 0 ELSE 1)

Index(s) == Cardinality({i \in 1..position[s] - 1 : SameGroup(s, listed[s][i], Candidate(s))})
RetainedBytes(s) == IF Index(s) = 0 THEN 0 ELSE retained[s]

\* The limits of a pass.
MaximumCount(s) == IF pass[s] = "group" THEN MaxSessions ELSE MaxTotalSessions
MaximumBytes(s) == IF pass[s] = "group" THEN MaxBytes ELSE MaxTotalBytes

\* Mutant: one session more than the limit is kept.
ExceedsByTwo(s) ==
  \/ finishedAt[Candidate(s)] < cutoff[s]
  \/ Index(s) > MaximumCount(s)
  \/ RetainedBytes(s) + Bytes(Candidate(s)) > MaximumBytes(s)

\* Expired, behind the newest of its group, or too large beside those retained.
Exceeds(s) ==
  \/ finishedAt[Candidate(s)] < cutoff[s]
  \/ Index(s) >= MaximumCount(s)
  \/ RetainedBytes(s) + Bytes(Candidate(s)) > MaximumBytes(s)

\* pruneGroup, one manifest: its size, and whether it is kept.
Prune(s) ==
  /\ rpc[s] = "prune" /\ position[s] <= Len(listed[s])
  /\ IF Exceeds(s)
     THEN At(s, "remove") /\ UNCHANGED position /\ retained' = [retained EXCEPT ![s] = RetainedBytes(s)]
     ELSE /\ position' = [position EXCEPT ![s] = @ + 1]
          /\ retained' = [retained EXCEPT ![s] = RetainedBytes(s) + Bytes(Candidate(s))]
          /\ UNCHANGED rpc
  /\ UNCHANGED <<Stored, Recording, names, listed, pass, cutoff, now, outcome>>

\* Both files at once; another process may have removed either.
RemoveFile(s) ==
  /\ rpc[s] = "remove"
  /\ \/ /\ manifest[Candidate(s)] # Absent
        /\ manifest' = [manifest EXCEPT ![Candidate(s)] = Absent] /\ UNCHANGED log
     \/ /\ log[Candidate(s)] # Nothing
        /\ log' = [log EXCEPT ![Candidate(s)] = Nothing] /\ UNCHANGED manifest
  /\ UNCHANGED <<rpc, finishedAt, Recording, Pruning, now, outcome>>

Removed(s) ==
  /\ rpc[s] = "remove"
  /\ manifest[Candidate(s)] = Absent /\ log[Candidate(s)] = Nothing
  /\ At(s, "prune") /\ position' = [position EXCEPT ![s] = @ + 1]
  /\ UNCHANGED <<Stored, Recording, names, listed, pass, retained, cutoff, now, outcome>>

RemovalFails(s) ==
  /\ rpc[s] = "remove" /\ "io" \in StoreFaults /\ Ends(s, "failed")
  /\ UNCHANGED <<Stored, Recording, Pruning, now>>

Pruned(s) ==
  /\ rpc[s] = "prune" /\ position[s] > Len(listed[s])
  /\ IF pass[s] = "group"
     THEN At(s, "list") /\ pass' = [pass EXCEPT ![s] = "total"] /\ UNCHANGED outcome
     ELSE Ends(s, "ok") /\ UNCHANGED pass
  /\ UNCHANGED <<Stored, Recording, names, listed, position, retained, cutoff, now>>

----------------------------------------------------------------------------

RecorderDies(s) ==
  /\ "crash" \in StoreFaults /\ rpc[s] \notin {"idle", "done", "dead"} /\ At(s, "dead")
  /\ UNCHANGED <<Stored, Recording, Pruning, now, outcome>>

Tick ==
  /\ now < MaxClock /\ now' = now + 1
  /\ UNCHANGED <<rpc, Stored, Recording, Pruning, outcome>>

StoreNext ==
  \/ \E s \in Sessions :
       \/ CreateLog(s) \/ CreateManifest(s) \/ Record(s) \/ Append1(s)
       \/ Close(s) \/ AwaitAppends(s) \/ Finalize(s)
       \/ List(s) \/ ReadName(s) \/ Sort(s) \/ Prune(s) \/ RemoveFile(s) \/ Removed(s)
       \/ RemovalFails(s) \/ Pruned(s) \/ RecorderDies(s)
  \/ Tick

----------------------------------------------------------------------------

\* A manifest that says a session is over counts the lines of its log, whatever
\* failed on the way (finish, #record).
FinishedIsComplete ==
  \A s \in Sessions : manifest[s].status = "finished" /\ log[s] # Nothing =>
                        log[s] = manifest[s].count + 1

Finished == {s \in Sessions : finishedAt[s] # 0 /\ rpc[s] \notin {"closed", "finalize"}}
Newer(s, others) ==
  {o \in others : finishedAt[o] > finishedAt[s] \/ (finishedAt[o] = finishedAt[s] /\ o < s)}
SizeAtFinish == [s \in Sessions |-> eventCount[s] + 1]
Sizes(all) == SumFunctionOnSet(SizeAtFinish, all)
OfProject(s) == {o \in Finished : Project[o] = Project[s]}

\* A session that is removed is over, and has expired or stands behind a full history.
RemovesByLimits ==
  \A s \in Sessions : manifest[s] # Absent /\ manifest'[s] = Absent =>
    /\ manifest[s].status = "finished"
    /\ \/ finishedAt[s] + MaxAge < now
       \/ Cardinality(Newer(s, OfProject(s))) >= MaxSessions
       \/ Cardinality(Newer(s, Finished)) >= MaxTotalSessions
       \/ Sizes(Newer(s, OfProject(s)) \cup {s}) > MaxBytes
       \/ Sizes(Newer(s, Finished) \cup {s}) > MaxTotalBytes

\* Pruning removes a session only when it is over, and then only for a limit: it has
\* expired, or enough newer ones have finished (of two at once, the first by name), in its
\* project or at all, to fill the number or the bytes (pruneSessions).
OnlyLimitsRemove == [][RemovesByLimits]_storeVars

\* When every recorder has finished, in whatever order their prunings overlapped, and
\* whatever the history held before, what is left is within the limits, unless a call
\* failed.
PruningKeepsUp ==
  LET kept == {s \in Sessions : manifest[s].status = "finished"}
      Own(s) == kept \cap OfProject(s)
  IN (/\ \E s \in Sessions \ Past : outcome[s] = "ok"
      /\ \A s \in Sessions : rpc[s] = "idle" \/ outcome[s] = "ok" \/ manifest[s] = Running)
     => /\ \A s \in kept : Cardinality(Own(s)) <= MaxSessions /\ Sizes(Own(s)) <= MaxBytes
        /\ Cardinality(kept) <= MaxTotalSessions /\ Sizes(kept) <= MaxTotalBytes
=============================================================================
