------------------------- MODULE SharedStateProofs -------------------------
(***************************************************************************)
(* What commands share without a lock, for any number of writers,          *)
(* sessions, transports and ports: an invariant of each component that     *)
(* makes its safety properties inductive, and the properties of every      *)
(* behaviour of SharedState that follow.                                   *)
(***************************************************************************)
EXTENDS SharedState, OperatorTheorems, FiniteSetTheorems, SequenceTheorems, TLAPS

-----------------------------------------------------------------------------
(* The mappings of a device *)

\* What the session made and was told so is on the transport it talks to, which is up,
\* under a port it knows of.
Traced ==
  \A t \in Transport, p \in Port : owner[t][p] = "session" =>
    t = target /\ t \in connected /\ p \in created /\ table[t][p] # Free

\* A recovery runs only beside the wait of runDev, and looks for a new transport only
\* when the old one has lost its mappings.
Beside ==
  /\ wpc # "idle" => pc \in {"race", "awaitWatch"}
  /\ wpc = "reacquire" => \A t \in Transport, p \in Port : owner[t][p] # "session"

\* The final list is taken only of something, and only it says that all is clean.
Reported ==
  /\ pc # "done" => ~cleaned
  /\ pc = "removed" => created # {}

\* What the session believes it mapped stands, or was lost, and cleanup has no more to
\* remove than that.
Known ==
  /\ \A p \in created : p \in lost \/ \E t \in Transport : owner[t][p] = "session"
  /\ pc = "remove" => todo \subseteq created

PortsInv == PortsTypeOK /\ Traced /\ Beside /\ Reported /\ Known /\ NothingLeaks

\* A mapping of the session that goes is remembered.
KeepsTrack ==
  /\ lost' \in SUBSET Port /\ lost \subseteq lost'
  /\ \A t \in Transport, p \in Port :
       owner[t][p] = "session" /\ owner'[t][p] # "session" => p \in lost'

-----------------------------------------------------------------------------
(* Agent setup *)

PlannedWrites == {<<>>, <<"config">>, <<"skill">>, <<"config", "skill">>}
Left(list) == {f \in Files : \E i \in DOMAIN list : list[i] = f}
Wants == {f \in Files : looked[f] # "wanted"}

SetupTypes ==
  /\ spc \in {"check", "stage", "moveOld", "install", "dropBackups", "reread", "undo", "done", "dead"}
  /\ kind \in [Files -> Kinds] /\ looked \in [Files -> Kinds] /\ dest \in [Files -> {"absent", "user", "ours"}]
  /\ temporary \subseteq Files /\ backup \subseteq Files /\ moved \subseteq Files /\ installed \subseteq Files
  /\ writes \in PlannedWrites /\ undoing \in PlannedWrites
  /\ failed \subseteq Files /\ sexit \in {"none", "ok", "refused", "failed", "unread"}
  /\ \A f \in Files : looked[f] = kind[f] \/ looked[f] = "absent"

\* Nothing is planned over what must not be touched, only a return is an exit, and
\* only a clean-up may fail.
Allowed ==
  /\ spc \notin {"check", "done", "dead"} => ~Refused
  /\ spc # "done" => sexit = "none"
  /\ failed # {} => spc \in {"undo", "done", "dead"}

\* Where one destination stands: as it was, with its old content aside (if it was
\* seen), swapped, or undone.
AsItWas(f) == dest[f] = Held(kind[f]) /\ f \notin backup \cup moved \cup installed
KeptAside(f) == IF looked[f] = "absent" THEN f \notin backup \cup moved ELSE f \in backup \cap moved
Aside(f) ==
  /\ dest[f] = IF f \in Overlooked THEN Held(kind[f]) ELSE "absent"
  /\ f \notin installed /\ KeptAside(f)
Swapped(f) == dest[f] = "ours" /\ f \in installed /\ KeptAside(f)
Whole(f) == dest[f] = Held(kind[f]) \/ (f \in Overlooked /\ dest[f] = "absent")

\* Where both stand, at each place of the plan.
Staging == spc \in {"check", "stage"} =>
  (\A f \in Files : AsItWas(f)) /\ temporary \subseteq Wants /\ Left(writes) \subseteq Wants
  /\ (spc = "check" => temporary = {})
Swapping == spc \in {"moveOld", "install"} =>
  /\ Left(writes) \subseteq Wants /\ temporary \subseteq Left(writes)
  /\ spc = "install" => writes # <<>> /\ Aside(Head(writes))
  /\ \A f \in Wants : \/ f \notin Left(writes) /\ Swapped(f)
                      \/ f \in Left(writes) /\ AsItWas(f)
                      \/ spc = "install" /\ f = Head(writes)
  /\ \A f \in Files \ Wants : AsItWas(f)
AllSwapped == spc = "dropBackups" =>
  temporary = {} /\ (\A f \in Wants : Swapped(f)) /\ \A f \in Files \ Wants : AsItWas(f)
Reading == spc = "reread" => temporary = {} /\ backup = {} /\ \A f \in Files : dest[f] = "ours"
Undoing == spc = "undo" =>
  /\ Left(undoing) \subseteq Wants /\ temporary \subseteq Left(undoing)
  /\ \A f \in Left(undoing) : AsItWas(f) \/ Aside(f) \/ Swapped(f)
  /\ \A f \in Files \ Left(undoing) : Whole(f) /\ f \notin backup

SetupInv ==
  /\ SetupTypes /\ Allowed /\ SetupIsAtomic
  /\ failed = {} => Staging /\ Swapping /\ AllSwapped /\ Reading /\ Undoing

-----------------------------------------------------------------------------
(* The session history *)

Places == {"idle", "manifest", "recording", "closed", "finalize", "list", "read", "prune", "remove", "done", "dead"}
Recorded == {"list", "read", "prune", "remove", "done", "dead"}

\* Every event is in the log or on its way there, unless an append has failed.
Counts(s) ==
  /\ log[s] + pending[s] <= eventCount[s] + 1
  /\ rpc[s] \in {"manifest", "recording", "closed", "finalize"} =>
       log[s] # Nothing /\ (~writeFailed[s] => log[s] + pending[s] = eventCount[s] + 1)
  /\ rpc[s] = "idle" => log[s] = Nothing /\ eventCount[s] = 0 /\ ~writeFailed[s]
  /\ rpc[s] = "manifest" => eventCount[s] = 0
  /\ rpc[s] = "finalize" => ~writeFailed[s]
  /\ rpc[s] \notin {"recording", "closed", "dead"} => pending[s] = 0

\* A manifest says finished only of a recorder that has finished, and lists name
\* only such recorders.
Settles(s) ==
  /\ manifest[s].status = "finished" => rpc[s] \in Recorded /\ pending[s] = 0
  /\ rpc[s] \in {"idle", "manifest"} \/ manifest[s].status = "absent" => manifest[s] = Absent
  /\ position[s] # 0 /\ (rpc[s] = "remove" => position[s] <= Len(listed[s]))
Over(n) == n \in Sessions /\ rpc[n] \in Recorded /\ manifest[n].status # "running"
Complete(s) == manifest[s].status = "finished" /\ log[s] # Nothing => log[s] = manifest[s].count + 1

Counted == \A s \in Sessions : Counts(s)
Settled == \A s \in Sessions : Settles(s)
ListsOnlyOver == \A s \in Sessions : \A i \in DOMAIN listed[s] : Over(listed[s][i])

StoreInv == StoreTypeOK /\ Counted /\ Settled /\ ListsOnlyOver /\ FinishedIsComplete

-----------------------------------------------------------------------------
(* The limits of the session history *)

Busy == {"list", "read", "prune", "remove"}
Passing == {"prune", "remove"}

\* What failed or died, other than while it was recording, may have left the pruning to
\* others.
Lost(s) == rpc[s] \in {"done", "dead"} /\ outcome[s] # "ok" /\ manifest[s] # Running
SomeLost == \E s \in Sessions : Lost(s)

\* Only a return has an outcome, only what has its manifest finished prunes, by project
\* first, and what it prunes it has read.
Stands(s) ==
  /\ rpc[s] # "done" => outcome[s] = "none"
  /\ rpc[s] \in Busy => manifest[s].status # "running"
  /\ rpc[s] \in {"idle", "manifest", "recording", "closed", "finalize"} => pass[s] = "group"
  /\ s \in Past => rpc[s] = "done"
  /\ rpc[s] \in Passing => names[s] = {}
  /\ manifest[s].status = "finished" => manifest[s].count = eventCount[s]

\* What is over has a finish time, and what was cut off had expired.
Timed(s) ==
  /\ cutoff[s] = 0 \/ cutoff[s] + MaxAge <= now
  /\ rpc[s] \in {"closed", "finalize"} \cup Busy => finishedAt[s] # 0
  /\ manifest[s].status = "finished" => finishedAt[s] # 0
  /\ \A i \in DOMAIN listed[s] : finishedAt[listed[s][i]] # 0

Sorted(s) == rpc[s] \in Passing =>
  \A i, j \in DOMAIN listed[s] : i < j => Before(s, listed[s][i], listed[s][j])

\* Both files are there, or one of them is still being removed.
Intact == {n \in Sessions : manifest[n].status = "finished" /\ log[n] # Nothing}
HalvesAreOwed == \A n \in Sessions : manifest[n].status = "finished" /\ log[n] = Nothing =>
  SomeLost \/ \E s \in Sessions : rpc[s] = "remove" /\ Candidate(s) = n

\* Of what a pass has been through, what is still there keeps within its limits, and the
\* bytes it counts lie between those of what is there and of all that was.
Passed(s) == {listed[s][i] : i \in 1..position[s] - 1}
Earlier(s, g) == {n \in Passed(s) : SameGroup(s, n, g)}
Within(s) == rpc[s] \in Passing =>
  /\ position[s] <= Len(listed[s]) + 1
  /\ \A g \in Range(listed[s]) :
       /\ Cardinality(Intact \cap Earlier(s, g)) <= MaximumCount(s)
       /\ Sizes(Intact \cap Earlier(s, g)) <= MaximumBytes(s)
  /\ position[s] <= Len(listed[s]) =>
       /\ Sizes(Intact \cap Earlier(s, Candidate(s))) <= RetainedBytes(s)
       /\ RetainedBytes(s) <= Sizes(Earlier(s, Candidate(s)))

\* What is being removed exceeded a limit, and still does by what was there when it
\* finished.
Judged(s) == rpc[s] = "remove" =>
  /\ retained[s] = RetainedBytes(s)
  /\ \/ finishedAt[Candidate(s)] < cutoff[s]
     \/ Index(s) >= MaximumCount(s)
     \/ RetainedBytes(s) + SizeAtFinish[Candidate(s)] > MaximumBytes(s)

\* While the history may exceed a limit, somebody who has seen all of it, or will list it
\* again, is still to prune by that limit.
Seen(s) == Intact \subseteq names[s] \cup Range(listed[s])
GroupToDo(s) == rpc[s] \in Busy /\ pass[s] = "group" /\ (rpc[s] = "list" \/ Seen(s))
TotalToDo(s) == rpc[s] \in Busy /\ (pass[s] = "group" \/ rpc[s] = "list" \/ Seen(s))
Untried == \A s \in Sessions \ Past : rpc[s] \notin Busy /\ outcome[s] # "ok"
OwnOf(n) == {o \in Intact : Project[o] = Project[n]}
ProjectsAreWithin == \A n \in Intact : Cardinality(OwnOf(n)) <= MaxSessions /\ Sizes(OwnOf(n)) <= MaxBytes
AllAreWithin == Cardinality(Intact) <= MaxTotalSessions /\ Sizes(Intact) <= MaxTotalBytes
GroupsKeepUp == SomeLost \/ Untried \/ (\E s \in Sessions : GroupToDo(s)) \/ ProjectsAreWithin
TotalKeepsUp == SomeLost \/ Untried \/ (\E s \in Sessions : TotalToDo(s)) \/ AllAreWithin

Standing == \A s \in Sessions : Stands(s)
Times == now # 0 /\ \A s \in Sessions : Timed(s)
Passes == \A s \in Sessions : Sorted(s) /\ Within(s) /\ Judged(s)
PruneInv == Standing /\ Times /\ Passes /\ HalvesAreOwed /\ GroupsKeepUp /\ TotalKeepsUp

-----------------------------------------------------------------------------
(* The remembered targets *)

\* No entry is newer than the clock, and only a file that was understood is replaced.
Dated ==
  /\ \A s \in Servers : state[s].at <= tclock
  /\ \A w \in Writers, s \in Servers : read[w][s].at <= tclock
Understood == \A w \in Writers : tpc[w] = "read" => valid

StateInv == StateTypeOK /\ Dated /\ Understood

-----------------------------------------------------------------------------
(* The mappings of a device: proofs *)

LEMMA PortsInitially == PortsInit => PortsInv
  <1> SUFFICES ASSUME PortsInit PROVE PortsInv
    OBVIOUS
  <1>1. PortsTypeOK
    <2>1. table \in [Transport -> [Port -> Hosts]]
      <3>1. \A h \in {Hosts, {Free}} : h \subseteq Hosts
        BY DEF Hosts
      <3> QED BY <3>1 DEF PortsInit, Hosts
    <2>2. owner \in [Transport -> [Port -> {"none", "session", "late", "other"}]]
      BY DEF PortsInit
    <2> QED BY <2>1, <2>2, TransportAssumption DEF PortsInit, PortsTypeOK, Pcs, RecoveryPcs,
               Hosts, NoMapping
  <1>2. \A t \in Transport, p \in Port : owner[t][p] # "session"
    BY DEF PortsInit
  <1> QED BY <1>1, <1>2 DEF PortsInv, Traced, Beside, Reported, Known, NothingLeaks, PortsInit

\* The main steps that touch no mapping.
LEMMA MainKeeps ==
  ASSUME PortsInv, ListPorts \/ ListFails \/ AddDone \/ VerifyPorts \/ BeginCleanup \/ NoCleanup \/ RemoveDone
  PROVE  PortsInv'
  <1> USE DEF PortsInv
  <1>1. PortsTypeOK'
    BY DEF PortsTypeOK, Pcs, ListPorts, ListFails, AddDone, VerifyPorts, BeginCleanup,
           NoCleanup, RemoveDone, Main, Results, recovery, device
  <1>2. Traced'
    BY DEF Traced, ListPorts, ListFails, AddDone, VerifyPorts, BeginCleanup, NoCleanup,
           RemoveDone, Main, device
  <1>3. Beside'
    BY DEF Beside, ListPorts, ListFails, AddDone, VerifyPorts, BeginCleanup, NoCleanup,
           RemoveDone, Cleaning, Main, device, recovery
  <1>4. Reported'
    BY DEF Reported, ListPorts, ListFails, AddDone, VerifyPorts, BeginCleanup, NoCleanup,
           RemoveDone, Cleaning, Results
  <1>5. NothingLeaks'
    BY DEF NothingLeaks, Traced, Reported, ListPorts, ListFails, AddDone, VerifyPorts,
           BeginCleanup, NoCleanup, RemoveDone, Cleaning, Main, Results, device
  <1>6. Known'
    BY DEF Known, ListPorts, ListFails, AddDone, VerifyPorts, BeginCleanup, NoCleanup,
           RemoveDone, Cleaning, Main, device
  <1> QED BY <1>1, <1>2, <1>3, <1>4, <1>5, <1>6

\* What one call of adb does to the mappings.
LEMMA Maps ==
  ASSUME PortsTypeOK, NEW t \in Transport, NEW p \in Port, NEW host \in Hosts,
         NEW who \in {"none", "session", "late", "other"}, Map(t, p, host, who)
  PROVE  /\ UNCHANGED connected
         /\ table' \in [Transport -> [Port -> Hosts]]
         /\ owner' \in [Transport -> [Port -> {"none", "session", "late", "other"}]]
         /\ KeepsTrack
         /\ \A u \in Transport, q \in Port :
              /\ table'[u][q] = IF u = t /\ q = p THEN host ELSE table[u][q]
              /\ owner'[u][q] = IF u = t /\ q = p THEN who ELSE owner[u][q]
  <1>1. table' = [table EXCEPT ![t] = [@ EXCEPT ![p] = host]] /\ owner' = [owner EXCEPT ![t] = [@ EXCEPT ![p] = who]]
    BY DEF Map
  <1>2. table[t] \in [Port -> Hosts] /\ owner[t] \in [Port -> {"none", "session", "late", "other"}]
    BY DEF PortsTypeOK
  <1>3. UNCHANGED connected
    BY DEF Map
  <1>4. \A u \in Transport, q \in Port : owner'[u][q] = IF u = t /\ q = p THEN who ELSE owner[u][q]
    BY <1>1, <1>2 DEF PortsTypeOK
  <1>5. lost' = lost \cup {q \in {p} : owner[t][q] = "session"}
    BY DEF Map
  <1>6. KeepsTrack
    BY <1>4, <1>5 DEF KeepsTrack, PortsTypeOK
  <1> QED BY <1>1, <1>2, <1>3, <1>6 DEF PortsTypeOK

\* A call that maps a free port of the target for the session,
LEMMA Reverses ==
  ASSUME PortsTypeOK, NEW p \in Port, ReversePort(p)
  PROVE  /\ UNCHANGED connected
         /\ table' \in [Transport -> [Port -> Hosts]]
         /\ owner' \in [Transport -> [Port -> {"none", "session", "late", "other"}]]
         /\ KeepsTrack
         /\ target \in connected /\ table[target][p] = Free
         /\ \A u \in Transport, q \in Port :
              /\ table'[u][q] = IF u = target /\ q = p THEN Wanted ELSE table[u][q]
              /\ owner'[u][q] = IF u = target /\ q = p THEN "session" ELSE owner[u][q]
  <1>1. target \in Transport /\ Wanted \in Hosts
    BY DEF PortsTypeOK, Hosts
  <1> QED BY <1>1, Maps DEF ReversePort, Up

\* and one that is reported as failed.
LEMMA LateReverses ==
  ASSUME PortsTypeOK, NEW p \in Port, NEW late, ReverseLate(late, p) \/ ReverseFails(p)
  PROVE  /\ UNCHANGED connected
         /\ table' \in [Transport -> [Port -> Hosts]]
         /\ owner' \in [Transport -> [Port -> {"none", "session", "late", "other"}]]
         /\ KeepsTrack
         /\ \A u \in Transport, q \in Port :
              \/ table'[u][q] = table[u][q] /\ owner'[u][q] = owner[u][q]
              \/ table[u][q] = Free /\ owner'[u][q] = "late"
  <1>1. target \in Transport /\ Wanted \in Hosts
    BY DEF PortsTypeOK, Hosts
  <1>2. CASE ReverseLate(late, p)
    BY <1>1, <1>2, Maps DEF ReverseLate, Up
  <1>3. CASE ReverseFails(p)
    BY <1>3 DEF ReverseFails, device, PortsTypeOK, KeepsTrack
  <1> QED BY <1>2, <1>3

LEMMA AddPortKeeps == ASSUME PortsInv, NEW p \in Port, AddPort(p) \/ RestorePort(p) PROVE PortsInv'
  <1> USE DEF PortsInv
  <1>1. /\ UNCHANGED <<pc, target, stop, wpc, removalSucceeded, cleaned, events, seen>>
        /\ created' = created \cup {p} /\ ReversePort(p)
        /\ pc = "add" \/ wpc = "restore"
        /\ todo' \in SUBSET Port /\ rtodo' \in SUBSET Port
    BY DEF AddPort, RestorePort, Main, Results, Recovery, main, recovery, PortsTypeOK
  <1>2. /\ UNCHANGED connected
        /\ table' \in [Transport -> [Port -> Hosts]]
        /\ owner' \in [Transport -> [Port -> {"none", "session", "late", "other"}]]
        /\ KeepsTrack
        /\ target \in connected /\ table[target][p] = Free
        /\ \A u \in Transport, q \in Port :
              /\ table'[u][q] = IF u = target /\ q = p THEN Wanted ELSE table[u][q]
              /\ owner'[u][q] = IF u = target /\ q = p THEN "session" ELSE owner[u][q]
    BY <1>1, Reverses
  <1>3. pc # "done" /\ wpc # "reacquire"
    BY <1>1 DEF Beside
  <1>4. PortsTypeOK'
    BY <1>1, <1>2 DEF PortsTypeOK, KeepsTrack
  <1>5. Traced'
    BY <1>1, <1>2, HostAssumption DEF Traced
  <1>6. Known'
    <2>1. pc' # "remove"
      BY <1>1 DEF Beside
    <2>2. target \in Transport /\ owner'[target][p] = "session"
      BY <1>2 DEF PortsTypeOK
    <2>3. ASSUME NEW q \in created PROVE q \in lost' \/ \E t \in Transport : owner'[t][q] = "session"
      BY <1>2, <2>3 DEF Known, KeepsTrack, PortsTypeOK
    <2> QED BY <1>1, <2>1, <2>2, <2>3 DEF Known
  <1> QED BY <1>1, <1>3, <1>4, <1>5, <1>6 DEF Beside, Reported, NothingLeaks

\* A step of the session that is told of no mapping, and may leave one it is not told of.
LEMMA FailedAddKeeps == ASSUME PortsInv, NEW p \in Port, AddFails(p) \/ RestoreFails(p) PROVE PortsInv'
  <1> USE DEF PortsInv
  <1>1. /\ UNCHANGED <<target, stop, removalSucceeded, cleaned, events, created>>
        /\ \/ pc = "add" /\ pc' = "remove" /\ UNCHANGED <<wpc, seen, rtodo>> /\ todo' = created
           \/ wpc = "restore" /\ wpc' = "idle" /\ UNCHANGED <<pc, todo>> /\ seen' = NoMapping /\ rtodo' = {}
    BY DEF AddFails, RestoreFails, Return, Main, Results, Recovery, main, recovery
  <1>2. /\ UNCHANGED connected
        /\ table' \in [Transport -> [Port -> Hosts]]
        /\ owner' \in [Transport -> [Port -> {"none", "session", "late", "other"}]]
        /\ KeepsTrack
        /\ \A u \in Transport, q \in Port :
              \/ table'[u][q] = table[u][q] /\ owner'[u][q] = owner[u][q]
              \/ table[u][q] = Free /\ owner'[u][q] = "late"
    <2>1. CASE UNCHANGED device
      BY <2>1 DEF device, PortsTypeOK, KeepsTrack
    <2>2. CASE ReverseLate("lateAdd", p) \/ ReverseFails(p)
      BY <2>2, LateReverses
    <2>3. CASE ReverseLate("lateRestore", p) \/ ReverseFails(p)
      BY <2>3, LateReverses
    <2> QED BY <2>1, <2>2, <2>3 DEF AddFails, RestoreFails
  <1>3. PortsTypeOK'
    BY <1>1, <1>2 DEF PortsTypeOK, Pcs, RecoveryPcs, NoMapping, Hosts, KeepsTrack
  <1>4. Traced'
    BY <1>1, <1>2, HostAssumption DEF Traced
  <1>5. pc # "done" /\ pc' # "done"
    BY <1>1 DEF Beside
  <1>6. Known'
    BY <1>1, <1>2 DEF Known, KeepsTrack, PortsTypeOK
  <1> QED BY <1>1, <1>3, <1>4, <1>5, <1>6 DEF Beside, Reported, NothingLeaks

LEMMA RemovePortKeeps == ASSUME PortsInv, NEW p \in Port, RemovePort(p) \/ RemoveFails(p) PROVE PortsInv'
  <1> USE DEF PortsInv
  <1>1. /\ UNCHANGED <<pc, target, stop, wpc, seen, rtodo, cleaned, events, created>> /\ pc = "remove"
        /\ todo' = todo \ {p} /\ removalSucceeded' \in BOOLEAN
    BY DEF RemovePort, RemoveFails, Cleaning, Main, Results, recovery, PortsTypeOK
  <1>2. /\ UNCHANGED connected
        /\ table' \in [Transport -> [Port -> Hosts]]
        /\ owner' \in [Transport -> [Port -> {"none", "session", "late", "other"}]]
        /\ KeepsTrack
        /\ \A u \in Transport, q \in Port :
             \/ table'[u][q] = table[u][q] /\ owner'[u][q] = owner[u][q]
             \/ owner'[u][q] = "none"
    <2>1. CASE RemoveFails(p)
      BY <2>1 DEF RemoveFails, device, PortsTypeOK, KeepsTrack
    <2>2. CASE RemovePort(p)
      <3>1. target \in Transport /\ Free \in Hosts
        BY DEF PortsTypeOK, Hosts
      <3> QED BY <2>2, <3>1, Maps DEF RemovePort, ReverseRemove
    <2> QED BY <2>1, <2>2
  <1>3. PortsTypeOK'
    BY <1>1, <1>2 DEF PortsTypeOK, KeepsTrack
  <1>4. Traced'
    BY <1>1, <1>2 DEF Traced
  <1>5. Known'
    BY <1>1, <1>2 DEF Known, KeepsTrack, PortsTypeOK
  <1> QED BY <1>1, <1>3, <1>4, <1>5 DEF Beside, Reported, NothingLeaks

\* The final list says clean only of what is: all that was made is on this transport.
LEMMA CheckRemovedKeeps == ASSUME PortsInv, CheckRemoved PROVE PortsInv'
  <1> USE DEF PortsInv
  <1>1. /\ UNCHANGED <<target, stop, wpc, seen, rtodo, events, created, todo, removalSucceeded, connected, table, owner, lost>>
        /\ pc = "removed" /\ pc' = "done" /\ cleaned' \in BOOLEAN
    BY DEF CheckRemoved, Main, recovery, device, PortsTypeOK
  <1>2. PortsTypeOK' /\ Traced' /\ wpc = "idle"
    BY <1>1 DEF PortsTypeOK, Traced, Pcs, Beside
  <1>3. NothingLeaks'
    <2>1. created # {}
      BY <1>1 DEF Reported
    <2>2. cleaned' => \A q \in created : table[target][q] = Free
      BY DEF CheckRemoved
    <2> QED BY <1>1, <2>1, <2>2 DEF NothingLeaks, Traced
  <1>4. Known'
    BY <1>1 DEF Known
  <1> QED BY <1>1, <1>2, <1>3, <1>4 DEF Beside, Reported

\* The steps of a recovery that touch no mapping, and the end of the wait.
LEMMA RecoveryKeeps ==
  ASSUME PortsInv,
         \/ Degraded \/ Reacquire \/ GiveUp \/ Relist \/ RestoreDone \/ StopWatch
         \/ \E p \in Port : SkipPort(p) \/ RefusePort(p)
  PROVE  PortsInv'
  <1> USE DEF PortsInv
  <1>1. UNCHANGED <<connected, table, owner, lost, created, events, removalSucceeded, cleaned>>
    BY DEF Degraded, Reacquire, GiveUp, Relist, RestoreDone, StopWatch, SkipPort, RefusePort,
           Recovery, Results, device, main, recovery
  <1>2. /\ \/ pc' = pc /\ stop' = stop /\ todo' = todo
           \/ pc = "race" /\ pc' = "awaitWatch" /\ stop' = TRUE /\ todo' = todo /\ UNCHANGED wpc
        /\ wpc' \in RecoveryPcs /\ seen' \in [Port -> Hosts] /\ rtodo' \in SUBSET Port
    BY DEF Degraded, Reacquire, GiveUp, Relist, RestoreDone, StopWatch, SkipPort, RefusePort,
           Recovery, Results, Return, NoMapping, RecoveryPcs, Hosts, PortsTypeOK, main, recovery
  <1>3. /\ target' = target \/ (wpc = "reacquire" /\ wpc' # "reacquire" /\ target' \in connected)
        /\ wpc' = "reacquire" => wpc = "reacquire" \/ (wpc = "idle" /\ ~Up)
        /\ wpc' # "idle" => wpc # "idle" \/ pc = "race"
    BY DEF Degraded, Reacquire, GiveUp, Relist, RestoreDone, StopWatch, SkipPort, RefusePort,
           Return, recovery
  <1>4. PortsTypeOK'
    BY <1>1, <1>2, <1>3 DEF PortsTypeOK, Pcs
  <1>5. Traced'
    BY <1>1, <1>3 DEF Traced, Beside
  <1>6. Beside'
    BY <1>1, <1>2, <1>3 DEF Beside, Traced, Up
  <1>7. Known'
    BY <1>1, <1>2 DEF Known
  <1> QED BY <1>1, <1>2, <1>4, <1>5, <1>6, <1>7 DEF Reported, NothingLeaks

\* Other tools and the cable make no mapping of the session.
LEMMA EnvironmentKeeps == ASSUME PortsInv, Environment PROVE PortsInv'
  <1> USE DEF PortsInv
  <1>1. UNCHANGED <<pc, todo, removalSucceeded, cleaned, target, created, stop, wpc, seen, rtodo>> /\ events' = events + 1
    BY DEF Environment, OtherAdds, OtherRebinds, OtherRemoves, Unplug, Plug, Happens, Elsewhere,
           main, recovery
  <1>2. /\ connected' \in SUBSET Transport
        /\ table' \in [Transport -> [Port -> Hosts]]
        /\ owner' \in [Transport -> [Port -> {"none", "session", "late", "other"}]]
        /\ KeepsTrack
        /\ \A u \in Transport, q \in Port : owner'[u][q] = "session" =>
             owner[u][q] = "session" /\ table'[u][q] = table[u][q] /\ (u \in connected => u \in connected')
    <2>1. ASSUME NEW t \in Transport, NEW p \in Port, OtherAdds(t, p) \/ OtherRebinds(t, p) \/ OtherRemoves(t, p)
          PROVE  <1>2!1 /\ <1>2!2 /\ <1>2!3 /\ <1>2!4 /\ <1>2!5
      <3>1. PICK host \in Hosts, who \in {"none", "other"} : Map(t, p, host, who)
        BY <2>1 DEF OtherAdds, OtherRebinds, OtherRemoves, Hosts
      <3>2. KeepsTrack
        BY <3>1, Maps
      <3>3. <1>2!1 /\ <1>2!2 /\ <1>2!3 /\ <1>2!5
        BY <3>1, Maps DEF PortsTypeOK
      <3> QED BY <3>2, <3>3
    <2>2. ASSUME NEW t \in Transport, Unplug(t) \/ Plug(t)
          PROVE  <1>2!1 /\ <1>2!2 /\ <1>2!3 /\ <1>2!4 /\ <1>2!5
      <3>1. CASE Plug(t)
        BY <3>1 DEF Plug, PortsTypeOK, KeepsTrack
      <3>2. CASE Unplug(t)
        <4>1. connected' = connected \ {t} /\ table' = [table EXCEPT ![t] = NoMapping]
          BY <3>2 DEF Unplug
        <4>2. owner' = [owner EXCEPT ![t] = [p \in Port |-> "none"]]
          BY <3>2 DEF Unplug
        <4>3. NoMapping \in [Port -> Hosts]
          BY DEF NoMapping, Hosts
        <4>4. <1>2!1 /\ <1>2!2 /\ <1>2!3
          BY <4>1, <4>2, <4>3 DEF PortsTypeOK
        <4>5. lost' = lost \cup {p \in Port : owner[t][p] = "session"}
          BY <3>2 DEF Unplug
        <4>6. KeepsTrack
          BY <4>2, <4>5 DEF KeepsTrack, PortsTypeOK
        <4> QED BY <4>1, <4>2, <4>4, <4>6 DEF PortsTypeOK
      <3> QED BY <2>2, <3>1, <3>2
    <2> QED BY <2>1, <2>2 DEF Environment
  <1>3. PortsTypeOK'
    BY <1>1, <1>2 DEF PortsTypeOK, KeepsTrack
  <1>4. Traced'
    BY <1>1, <1>2 DEF Traced
  <1>5. Known'
    BY <1>1, <1>2 DEF Known, KeepsTrack, PortsTypeOK
  <1> QED BY <1>1, <1>2, <1>3, <1>4, <1>5 DEF Beside, Reported, NothingLeaks

LEMMA PortsStepKeeps == PortsInv /\ [PortsNext]_portVars => PortsInv'
  <1> SUFFICES ASSUME PortsInv, [PortsNext]_portVars PROVE PortsInv'
    OBVIOUS
  <1>1. CASE Session
    BY <1>1, MainKeeps, CheckRemovedKeeps, AddPortKeeps, FailedAddKeeps, RemovePortKeeps
       DEF Session
  <1>2. CASE Recover \/ Degraded \/ StopWatch
    BY <1>2, RecoveryKeeps, AddPortKeeps, FailedAddKeeps DEF Recover
  <1>3. CASE Environment
    BY <1>3, EnvironmentKeeps
  <1>4. CASE UNCHANGED portVars
    BY <1>4 DEF portVars, device, main, recovery, PortsInv, PortsTypeOK, Traced, Beside,
       Reported, Known, NothingLeaks
  <1> QED BY <1>1, <1>2, <1>3, <1>4 DEF PortsNext

\* What cleanup takes away of another's stands where the session's own was lost.
LEMMA PortsRemoveOnlyOwn == PortsInv /\ [PortsNext]_portVars => RemovesOnlyOwn
  <1> SUFFICES ASSUME PortsInv, [PortsNext]_portVars, pc = "remove", todo' # todo,
                      NEW t \in Transport, NEW p \in Port,
                      owner[t][p] = "other", owner'[t][p] # "other"
               PROVE  p \in lost
    BY DEF RemovesOnlyOwn
  <1>1. PICK q \in Port : RemovePort(q)
    <2>1. ~UNCHANGED device
      BY DEF device
    <2>2. ~UNCHANGED todo
      OBVIOUS
    <2>3. ~Recover /\ ~Degraded /\ ~StopWatch /\ ~Environment /\ ~UNCHANGED portVars
      BY <2>1, <2>2 DEF Recover, Reacquire, GiveUp, Relist, RestoreDone, SkipPort, RefusePort, RestorePort,
         RestoreFails, Recovery, Degraded, StopWatch, Environment, OtherAdds, OtherRebinds, OtherRemoves,
         Unplug, Plug, Elsewhere, main, portVars
    <2> QED BY <2>1, <2>3 DEF PortsNext, Session, ListPorts, ListFails, AddDone, VerifyPorts, BeginCleanup,
               NoCleanup, RemoveDone, CheckRemoved, AddPort, AddFails, RemoveFails
  <1>2. target \in Transport /\ Free \in Hosts /\ Map(target, q, Free, "none") /\ q \in todo
    BY <1>1 DEF PortsInv, PortsTypeOK, Hosts, RemovePort, ReverseRemove
  <1>3. t = target /\ p = q
    BY <1>2, Maps DEF PortsInv
  <1>4. p \in created
    BY <1>2, <1>3 DEF PortsInv, Known
  <1>5. \A u \in Transport : owner[u][p] # "session"
    BY <1>3 DEF PortsInv, Traced
  <1> QED BY <1>4, <1>5 DEF PortsInv, Known

LEMMA PortsReplaceNothing ==
  ASSUME PortsTypeOK, [PortsNext]_portVars, NEW t \in Transport, NEW p \in Port,
         owner'[t][p] \in {"session", "late"}, owner'[t][p] # owner[t][p]
  PROVE  table[t][p] = Free
  <1>1. ASSUME NEW q \in Port, AddPort(q) \/ RestorePort(q) PROVE table[t][p] = Free
    <2>1. ReversePort(q)
      BY <1>1 DEF AddPort, RestorePort
    <2> QED BY <2>1, Reverses
  <1>2. ASSUME NEW q \in Port, AddFails(q) \/ RestoreFails(q) PROVE table[t][p] = Free
    <2>1. CASE UNCHANGED device
      BY <2>1 DEF device
    <2>2. CASE ReverseLate("lateAdd", q) \/ ReverseFails(q)
      BY <2>2, LateReverses
    <2>3. CASE ReverseLate("lateRestore", q) \/ ReverseFails(q)
      BY <2>3, LateReverses
    <2> QED BY <1>2, <2>1, <2>2, <2>3 DEF AddFails, RestoreFails
  <1>3. ASSUME NEW q \in Port, RemovePort(q) PROVE FALSE
    <2>1. target \in Transport /\ Free \in Hosts /\ Map(target, q, Free, "none")
      BY <1>3 DEF PortsTypeOK, Hosts, RemovePort, ReverseRemove
    <2> QED BY <2>1, Maps
  <1>4. ASSUME NEW u \in Transport, NEW q \in Port, OtherAdds(u, q) \/ OtherRebinds(u, q) \/ OtherRemoves(u, q)
        PROVE  FALSE
    <2>1. PICK host \in Hosts, who \in {"none", "other"} : Map(u, q, host, who)
      BY <1>4 DEF OtherAdds, OtherRebinds, OtherRemoves, Hosts
    <2> QED BY <2>1, Maps
  <1>5. ASSUME NEW u \in Transport, Unplug(u) \/ Plug(u) PROVE FALSE
    BY <1>5 DEF Unplug, Plug, PortsTypeOK
  <1>6. ~UNCHANGED owner
    OBVIOUS
  <1>7. ~Degraded /\ ~StopWatch /\ ~UNCHANGED portVars
    BY <1>6 DEF Degraded, StopWatch, portVars, device
  <1>8. CASE Session
    BY <1>1, <1>2, <1>3, <1>6, <1>8 DEF Session, ListPorts, ListFails, AddDone, VerifyPorts,
       BeginCleanup, NoCleanup, RemoveDone, CheckRemoved, RemoveFails, device
  <1>9. CASE Recover
    BY <1>1, <1>2, <1>6, <1>9 DEF Recover, Reacquire, GiveUp, Relist, RestoreDone, SkipPort,
       RefusePort, device
  <1>10. CASE Environment
    BY <1>4, <1>5, <1>10 DEF Environment
  <1> QED BY <1>7, <1>8, <1>9, <1>10 DEF PortsNext

-----------------------------------------------------------------------------
(* Agent setup: proofs *)

LEMMA Lists ==
  /\ Left(<<>>) = {} /\ Left(<<"config">>) = {"config"} /\ Left(<<"skill">>) = {"skill"}
  /\ Left(<<"config", "skill">>) = {"config", "skill"}
  <1>1. \A x : Left(<<x>>) = Files \cap {x}
    BY DEF Left
  <1>2. Left(<<"config", "skill">>) = {"config", "skill"}
    <2> DEFINE both == <<"config", "skill">>
    <2>1. DOMAIN both = {1, 2} /\ both[1] = "config" /\ both[2] = "skill"
      OBVIOUS
    <2> HIDE DEF both
    <2>2. Left(both) = {"config", "skill"}
      BY <2>1 DEF Left, Files
    <2> QED BY <2>2 DEF both
  <1> QED BY <1>1, <1>2 DEF Left, Files

\* What is left to do shrinks from the front, and what is left to undo from the back.
LEMMA FrontAndBack ==
  ASSUME NEW list \in PlannedWrites, list # <<>>
  PROVE  /\ Head(list) \in Left(list) /\ Tail(list) \in PlannedWrites /\ Left(Tail(list)) = Left(list) \ {Head(list)}
         /\ list[Len(list)] \in Left(list) /\ SubSeq(list, 1, Len(list) - 1) \in PlannedWrites
         /\ Left(SubSeq(list, 1, Len(list) - 1)) = Left(list) \ {list[Len(list)]}
  <1>1. ASSUME NEW x \in Files, list = <<x>> PROVE
          /\ Head(list) = x /\ Tail(list) = <<>> /\ list[Len(list)] = x /\ SubSeq(list, 1, Len(list) - 1) = <<>>
    BY <1>1
  <1>2. CASE list = <<"config", "skill">>
    <2>1. Head(list) = "config" /\ Tail(list) = <<"skill">> /\ Len(list) = 2 /\ list[2] = "skill"
      BY <1>2
    <2> DEFINE front == SubSeq(list, 1, 1)
               one == <<"config">>
    <2>2. /\ front \in Seq(Files) /\ one \in Seq(Files) /\ Len(front) = 1 /\ Len(one) = 1
          /\ front[1] = one[1]
      BY <1>2 DEF Files
    <2> HIDE DEF front, one
    <2>3. \A i \in 1 .. Len(front) : front[i] = one[i]
      BY <2>2
    <2>4. front = one
      BY <2>2, <2>3, SeqEqual
    <2>5. SubSeq(list, 1, Len(list) - 1) = <<"config">>
      BY <2>1, <2>4 DEF front, one
    <2> QED BY <1>2, <2>1, <2>5, Lists DEF PlannedWrites
  <1> QED BY <1>1, <1>2, Lists DEF PlannedWrites, Files

LEMMA ChangedIsPlanned == Changed \in PlannedWrites /\ Left(Changed) = Wants
  <1>1. <<>> \o <<>> = <<>> /\ <<"config">> \o <<>> = <<"config">> /\ <<>> \o <<"skill">> = <<"skill">>
    OBVIOUS
  <1>2. <<"config">> \o <<"skill">> = <<"config", "skill">>
    <2> DEFINE s == <<"config">> \o <<"skill">>
               both == <<"config", "skill">>
    <2>1. /\ s \in Seq(Files) /\ both \in Seq(Files) /\ Len(s) = 2 /\ Len(both) = 2
          /\ s[1] = both[1] /\ s[2] = both[2]
      BY DEF Files
    <2> HIDE DEF s, both
    <2>2. \A i \in 1 .. Len(s) : s[i] = both[i]
      BY <2>1
    <2>3. s = both
      BY <2>1, <2>2, SeqEqual
    <2> QED BY <2>3 DEF s, both
  <1>3. /\ Wanting("config") \in {<<>>, <<"config">>} /\ Wanting("skill") \in {<<>>, <<"skill">>}
        /\ Wanting("config") = <<>> <=> "config" \notin Wants
        /\ Wanting("skill") = <<>> <=> "skill" \notin Wants
    BY DEF Wanting, Wants, Files
  <1>4. Wants \subseteq {"config", "skill"}
    BY DEF Wants, Files
  <1> QED BY <1>1, <1>2, <1>3, <1>4, Lists DEF Changed, PlannedWrites

LEMMA SetupInitially == SetupInit => SetupInv
  <1> SUFFICES ASSUME SetupInit PROVE SetupInv
    OBVIOUS
  <1>1. SetupTypes
    BY DEF SetupInit, SetupTypes, Held, PlannedWrites
  <1>2. \A f \in Files : AsItWas(f)
    BY DEF SetupInit, AsItWas
  <1>3. Left(writes) = {} /\ temporary = {} /\ spc = "check" /\ sexit = "none" /\ failed = {}
    BY Lists DEF SetupInit
  <1>4. SetupIsAtomic
    BY <1>3 DEF SetupIsAtomic, SetupInit
  <1> QED BY <1>1, <1>2, <1>3, <1>4 DEF SetupInv, Allowed, Staging, Swapping, AllSwapped,
             Reading, Undoing

\* Over what may be touched, user's content is what is merged or replaced.
LEMMA Holds ==
  ASSUME SetupTypes, ~Refused, NEW f \in Files
  PROVE  /\ looked[f] \in {"absent", "wanted", "mergeable"}
         /\ f \in Overlooked => looked[f] = "absent"
         /\ f \notin Overlooked =>
              Held(kind[f]) = IF looked[f] = "absent" THEN "absent" ELSE IF looked[f] = "wanted" THEN "ours" ELSE "user"
  BY DEF SetupTypes, Refused, Kinds, Held, Overlooked

\* A failed look changes what setup takes to be there, and no file.
LEMMA LookFailsKeeps == ASSUME SetupInv, NEW f \in Files, LookFails(f) PROVE SetupInv'
  <1>1. /\ UNCHANGED <<spc, kind, dest, temporary, backup, writes, moved, installed, undoing, failed, sexit>>
        /\ spc = "check" /\ looked' = [looked EXCEPT ![f] = "absent"]
    BY DEF LookFails
  <1>2. /\ looked' \in [Files -> Kinds] /\ looked'[f] = "absent"
        /\ \A g \in Files : g # f => looked'[g] = looked[g]
    BY <1>1 DEF SetupInv, SetupTypes, Kinds
  <1>3. SetupTypes' /\ Allowed' /\ Wants \subseteq Wants' /\ Overlooked \subseteq Overlooked'
    BY <1>1, <1>2 DEF SetupInv, SetupTypes, Allowed, Wants, Overlooked
  <1>4. SetupIsAtomic'
    BY <1>1, <1>3 DEF SetupInv, SetupIsAtomic, Allowed
  <1>5. failed = {} => Staging'
    <2> SUFFICES ASSUME failed = {} PROVE Staging'
      OBVIOUS
    <2>1. \A g \in Files : AsItWas(g)'
      BY <1>1 DEF SetupInv, Staging, AsItWas
    <2> QED BY <1>1, <1>3, <2>1 DEF SetupInv, Staging, Left
  <1> QED BY <1>1, <1>3, <1>4, <1>5 DEF SetupInv, Swapping, AllSwapped, Reading, Undoing

LEMMA CheckOnlyKeeps == ASSUME SetupInv, CheckOnly PROVE SetupInv'
  <1>1. /\ UNCHANGED <<kind, looked, dest, temporary, backup, writes, moved, installed, undoing, failed>>
        /\ spc = "check" /\ spc' = "done" /\ sexit' \in {"refused", "ok"}
    BY DEF CheckOnly, Returns
  <1>2. SetupTypes' /\ Allowed'
    BY <1>1 DEF SetupInv, SetupTypes, Allowed
  <1>3. SetupIsAtomic'
    <2> SUFFICES ASSUME failed = {} PROVE SetupIsAtomic'
      BY <1>1 DEF SetupIsAtomic
    <2>1. temporary = {} /\ \A f \in Files : AsItWas(f)
      BY <1>1 DEF SetupInv, Staging
    <2>2. backup = {} /\ installed = {}
      BY <2>1 DEF SetupInv, SetupTypes, AsItWas
    <2> QED BY <1>1, <2>1, <2>2 DEF SetupIsAtomic, AsItWas
  <1> QED BY <1>1, <1>2, <1>3 DEF SetupInv, Staging, Swapping, AllSwapped, Reading, Undoing

LEMMA PlanKeeps == ASSUME SetupInv, Plan PROVE SetupInv'
  <1>1. /\ UNCHANGED <<kind, looked, dest, temporary, backup, moved, installed, undoing, failed, sexit>>
        /\ spc = "check" /\ ~Refused /\ spc' = "stage" /\ writes' = Changed
    BY DEF Plan
  <1>2. SetupTypes' /\ Allowed' /\ SetupIsAtomic'
    BY <1>1, ChangedIsPlanned DEF SetupInv, SetupTypes, Allowed, SetupIsAtomic, Refused, Overlooked
  <1>3. failed = {} => Staging'
    BY <1>1, ChangedIsPlanned DEF SetupInv, Staging, Left, Wants, AsItWas
  <1> QED BY <1>1, <1>2, <1>3 DEF SetupInv, Swapping, AllSwapped, Reading, Undoing

LEMMA StageKeeps == ASSUME SetupInv, Stage PROVE SetupInv'
  <1>1. /\ UNCHANGED <<kind, looked, dest, backup, moved, installed, undoing, failed, sexit>> /\ spc = "stage"
        /\ \/ writes = <<>> /\ spc' = "moveOld" /\ writes' = Changed /\ UNCHANGED temporary
           \/ writes # <<>> /\ temporary' = temporary \cup {Head(writes)} /\ writes' = Tail(writes) /\ spc' = "stage"
    BY DEF Stage, Goes, File
  <1>2. /\ writes # <<>> => /\ Head(writes) \in Left(writes) /\ Left(Tail(writes)) \subseteq Left(writes)
                            /\ Tail(writes) \in PlannedWrites
        /\ Left(writes) \subseteq Files
    BY FrontAndBack DEF SetupInv, SetupTypes, Left
  <1>3. SetupTypes' /\ Allowed' /\ SetupIsAtomic'
    BY <1>1, <1>2, ChangedIsPlanned DEF SetupInv, SetupTypes, Allowed, SetupIsAtomic, Refused, Overlooked
  <1>4. failed = {} => Staging'
    <2>1. CASE writes = <<>>
      BY <1>1, <2>1 DEF Staging
    <2>2. CASE writes # <<>>
      BY <1>1, <1>2, <2>2 DEF SetupInv, Staging, Left, Wants, AsItWas
    <2> QED BY <2>1, <2>2
  <1>5. failed = {} => Swapping'
    <2> SUFFICES ASSUME failed = {}, spc' = "moveOld" PROVE Swapping'
      BY <1>1 DEF Swapping
    <2>1. Left(writes') = Wants /\ Wants' = Wants /\ Left(writes)' = Left(writes')
      BY <1>1, ChangedIsPlanned DEF Left, Wants
    <2>2. \A f \in Files : AsItWas(f)'
      BY <1>1 DEF SetupInv, Staging, AsItWas
    <2>3. temporary' \subseteq Wants
      BY <1>1 DEF SetupInv, Staging
    <2> QED BY <2>1, <2>2, <2>3 DEF Swapping, Wants
  <1> QED BY <1>1, <1>3, <1>4, <1>5 DEF SetupInv, AllSwapped, Reading, Undoing

\* The old content of the next destination is put aside, or all are swapped.
LEMMA MoveOldKeeps == ASSUME SetupInv, MoveOld PROVE SetupInv'
  <1>1. /\ UNCHANGED <<kind, looked, temporary, writes, installed, undoing, failed, sexit>> /\ spc = "moveOld"
        /\ \/ writes = <<>> /\ spc' = "dropBackups" /\ UNCHANGED <<dest, backup, moved>>
           \/ /\ writes # <<>> /\ spc' = "install"
              /\ IF looked[Head(writes)] = "absent" THEN UNCHANGED <<dest, backup, moved>>
                 ELSE /\ dest' = [dest EXCEPT ![Head(writes)] = "absent"]
                      /\ backup' = backup \cup {Head(writes)} /\ moved' = moved \cup {Head(writes)}
    BY DEF MoveOld, Goes, File
  <1>2. /\ writes # <<>> => Head(writes) \in Left(writes)
        /\ Left(writes) \subseteq Files /\ ~Refused /\ Left(writes)' = Left(writes)
        /\ Wants' = Wants /\ Wants \subseteq Files
        /\ failed = {} /\ Swapping
    BY <1>1, FrontAndBack DEF SetupInv, SetupTypes, Left, Allowed, Wants
  <1>3. SetupTypes' /\ Allowed'
    BY <1>1, <1>2 DEF SetupInv, SetupTypes, Allowed, Refused
  <1>4. CASE writes = <<>>
    <2>1. \A f \in Files : (AsItWas(f)' = AsItWas(f)) /\ (Swapped(f)' = Swapped(f))
      BY <1>1, <1>4 DEF AsItWas, Swapped, KeptAside
    <2>2. AllSwapped'
      BY <1>1, <1>2, <1>4, <2>1, Lists DEF Swapping, AllSwapped
    <2>3. SetupIsAtomic'
      BY <1>1, <1>4 DEF SetupInv, SetupIsAtomic, Overlooked
    <2> QED BY <1>1, <1>3, <1>4, <2>2, <2>3 DEF SetupInv, Staging, Swapping, Reading, Undoing
  <1>5. CASE writes # <<>>
    <2>0. PICK file \in Files : file = Head(writes)
      BY <1>2, <1>5
    <2>1. /\ file \in Left(writes) /\ file \in Wants /\ spc' = "install" /\ AsItWas(file)
          /\ Head(writes') = file /\ writes' # <<>>
      BY <1>1, <1>2, <1>5, <2>0 DEF Swapping, Swapped
    <2>2. /\ looked[file] \in {"absent", "mergeable"}
          /\ looked[file] = "absent" => dest[file] = IF file \in Overlooked THEN Held(kind[file]) ELSE "absent"
          /\ looked[file] = "mergeable" => file \notin Overlooked
      BY <1>2, <2>1, Holds DEF SetupInv, Wants, AsItWas
    <2>3. ASSUME NEW f \in Files, f # file
          PROVE  /\ (AsItWas(f)' = AsItWas(f)) /\ (Swapped(f)' = Swapped(f)) /\ (f \in backup' <=> f \in backup)
                 /\ dest'[f] = dest[f]
      <3>1. dest'[f] = dest[f] /\ (f \in backup' <=> f \in backup) /\ (f \in moved' <=> f \in moved)
        BY <1>1, <1>5, <2>0, <2>3 DEF SetupInv, SetupTypes
      <3> QED BY <1>1, <3>1 DEF AsItWas, Swapped, KeptAside
    <2>4. Aside(file)'
      BY <1>1, <1>5, <2>0, <2>1, <2>2 DEF AsItWas, Aside, KeptAside, SetupInv, SetupTypes, Overlooked
    <2>5. Aside(Head(writes))'
      <3>1. Head(writes') = file
        BY <2>1
      <3> QED BY <2>4, <3>1 DEF Aside, KeptAside
    <2>6. Swapping'
      <3>1. \A f \in Files \ Wants : AsItWas(f)'
        BY <1>1, <1>2, <2>1, <2>3 DEF Swapping
      <3>2. \A f \in Wants : \/ f \notin Left(writes) /\ Swapped(f)'
                             \/ f \in Left(writes) /\ AsItWas(f)'
                             \/ f = file
        BY <1>1, <1>2, <2>3 DEF Swapping
      <3>3. Left(writes') = Left(writes) /\ Left(writes) \subseteq Wants /\ temporary' \subseteq Left(writes)
        BY <1>1, <1>2 DEF Swapping
      <3> QED BY <1>2, <2>1, <2>5, <3>1, <3>2, <3>3 DEF Swapping
    <2>7. SetupIsAtomic'
      <3>1. ASSUME NEW f \in Files \ Overlooked, Held(kind[f]) = "user" PROVE dest'[f] # "absent" \/ f \in backup'
        <4>1. CASE f = file
          <5>1. looked[file] # "absent"
            BY <1>2, <3>1, <4>1, Holds DEF SetupInv
          <5> QED BY <1>1, <2>4, <4>1, <5>1 DEF Aside, KeptAside
        <4>2. CASE f # file
          BY <1>2, <2>3, <3>1, <4>2 DEF SetupInv, SetupIsAtomic
        <4> QED BY <4>1, <4>2
      <3> QED BY <1>1, <1>3, <3>1, <2>1 DEF SetupIsAtomic, Allowed, Overlooked
    <2> QED BY <1>3, <2>1, <2>6, <2>7 DEF SetupInv, Staging, AllSwapped, Reading, Undoing
  <1> QED BY <1>1, <1>4, <1>5

\* The staged content takes the place of what was put aside.
LEMMA InstallKeeps == ASSUME SetupInv, Install PROVE SetupInv'
  <1>0. PICK file : file = Head(writes)
    OBVIOUS
  <1>1. /\ UNCHANGED <<kind, looked, backup, moved, undoing, failed, sexit>> /\ spc = "install" /\ spc' = "moveOld"
        /\ dest' = [dest EXCEPT ![file] = "ours"] /\ temporary' = temporary \ {file}
        /\ installed' = installed \cup {file} /\ writes' = Tail(writes)
    BY <1>0 DEF Install, Goes, File
  <1>2. Left(writes) \subseteq Files /\ Wants' = Wants /\ Wants \subseteq Files /\ failed = {} /\ Swapping /\ ~Refused
    BY <1>1 DEF SetupInv, Allowed, Left, Wants
  <1>3. writes # <<>> /\ Aside(file) /\ temporary \subseteq Left(writes) /\ Left(writes) \subseteq Wants
    BY <1>0, <1>1, <1>2 DEF Swapping
  <1>4. /\ file \in Left(writes) /\ Tail(writes) \in PlannedWrites /\ Left(Tail(writes)) = Left(writes) \ {file}
        /\ file \in Files /\ file \in Wants
    BY <1>0, <1>2, <1>3, FrontAndBack DEF SetupInv, SetupTypes
  <1>5. \A f \in Wants : f = file \/ (f \notin Left(writes) /\ Swapped(f)) \/ (f \in Left(writes) /\ AsItWas(f))
    BY <1>0, <1>1, <1>2 DEF Swapping
  <1>6. \A f \in Files \ Wants : AsItWas(f)
    BY <1>1, <1>2 DEF Swapping
  <1>7. ASSUME NEW f \in Files, f # file
        PROVE  (AsItWas(f)' = AsItWas(f)) /\ (Swapped(f)' = Swapped(f)) /\ dest'[f] = dest[f]
    BY <1>1, <1>7 DEF AsItWas, Swapped, KeptAside, SetupInv, SetupTypes
  <1>8. Swapped(file)'
    BY <1>1, <1>3, <1>4 DEF Aside, Swapped, KeptAside, SetupInv, SetupTypes
  <1>9. SetupTypes' /\ Allowed'
    BY <1>1, <1>2, <1>4 DEF SetupInv, SetupTypes, Allowed, Refused
  <1>10. Swapping'
    <2>1. Left(writes') = Left(writes) \ {file}
      BY <1>1, <1>4
    <2>2. temporary' \subseteq Left(writes') /\ Left(writes') \subseteq Wants
      BY <1>1, <1>3, <2>1
    <2>3. \A f \in Wants : (f \notin Left(writes') /\ Swapped(f)') \/ (f \in Left(writes') /\ AsItWas(f)')
      BY <1>2, <1>5, <1>7, <1>8, <2>1
    <2>4. \A f \in Files \ Wants : AsItWas(f)'
      BY <1>4, <1>6, <1>7
    <2> QED BY <1>1, <1>2, <2>2, <2>3, <2>4 DEF Swapping
  <1>11. SetupIsAtomic'
    <2>1. \A f \in Files \ Overlooked : Held(kind[f]) = "user" => dest'[f] # "absent" \/ f \in backup'
      BY <1>1, <1>2, <1>7, <1>8 DEF SetupInv, SetupIsAtomic, Swapped
    <2> QED BY <1>1, <1>9, <2>1 DEF SetupIsAtomic, Allowed, Overlooked
  <1> QED BY <1>1, <1>9, <1>10, <1>11 DEF SetupInv, Staging, AllSwapped, Reading, Undoing

\* The backups go, and what stays of them is a failure.
LEMMA DropBackupsKeeps == ASSUME SetupInv, DropBackups PROVE SetupInv'
  <1>0. PICK kept \in SUBSET backup :
          /\ backup' = kept /\ failed' = failed \cup kept
          /\ \/ kept = {} /\ spc' = "reread" /\ UNCHANGED undoing
             \/ kept # {} /\ spc' = "undo" /\ undoing' = Changed
    BY DEF DropBackups, Goes
  <1>1. /\ UNCHANGED <<kind, looked, dest, temporary, writes, moved, installed, sexit>> /\ spc = "dropBackups"
        /\ failed = {} /\ AllSwapped /\ ~Refused /\ sexit = "none"
    BY DEF DropBackups, SetupInv, Allowed
  <1>2. SetupTypes' /\ Allowed'
    BY <1>0, <1>1, ChangedIsPlanned DEF SetupInv, SetupTypes, Allowed, Refused
  <1>3. CASE kept = {}
    <2>1. ASSUME NEW f \in Files PROVE dest'[f] = "ours"
      <3>1. CASE f \in Wants
        BY <1>1, <3>1 DEF AllSwapped, Swapped
      <3>2. CASE f \notin Wants
        BY <1>1, <1>2, <2>1, <3>2 DEF AllSwapped, AsItWas, Wants, Held, SetupTypes, SetupInv
      <3> QED BY <3>1, <3>2
    <2>2. temporary' = {} /\ backup' = {} /\ spc' = "reread" /\ sexit' = "none"
      BY <1>0, <1>1, <1>3 DEF AllSwapped
    <2> QED BY <1>2, <2>1, <2>2 DEF SetupInv, SetupIsAtomic, Staging, Swapping, AllSwapped,
               Reading, Undoing
  <1>4. CASE kept # {}
    <2>1. failed' # {}
      BY <1>0, <1>4
    <2> QED BY <1>2, <2>1 DEF SetupInv, SetupIsAtomic
  <1> QED BY <1>3, <1>4

LEMMA RereadKeeps == ASSUME SetupInv, Reread PROVE SetupInv'
  <1>1. /\ UNCHANGED <<kind, looked, dest, temporary, backup, writes, moved, installed, undoing, failed>>
        /\ spc = "reread" /\ spc' = "done" /\ sexit' \in {"ok", "unread"}
    BY DEF Reread, Returns
  <1>2. SetupTypes' /\ Allowed'
    BY <1>1 DEF SetupInv, SetupTypes, Allowed
  <1>3. temporary = {} /\ backup = {} /\ \A f \in Files : dest[f] = "ours"
    BY <1>1 DEF SetupInv, Allowed, Reading
  <1>4. SetupIsAtomic'
    BY <1>1, <1>3 DEF SetupIsAtomic
  <1> QED BY <1>1, <1>2, <1>4 DEF SetupInv, Staging, Swapping, AllSwapped, Reading, Undoing

\* Wherever a call fails, what is left to undo is all that was planned.
LEMMA FailsKeeps == ASSUME SetupInv, Fails PROVE SetupInv'
  <1>1. /\ UNCHANGED <<kind, looked, dest, temporary, backup, writes, moved, installed, failed, sexit>>
        /\ spc \in {"stage", "moveOld", "install"} /\ spc' = "undo" /\ undoing' = Changed
    BY DEF Fails, Goes
  <1>2. failed = {} /\ sexit = "none" /\ ~Refused /\ Staging /\ Swapping /\ Wants \subseteq Files
    BY <1>1 DEF SetupInv, Allowed, Wants
  <1>3. SetupTypes' /\ Allowed' /\ SetupIsAtomic'
    BY <1>1, <1>2, ChangedIsPlanned DEF SetupInv, SetupTypes, Allowed, Refused, SetupIsAtomic, Overlooked
  <1>4. /\ temporary \subseteq Wants
        /\ \A f \in Wants : AsItWas(f) \/ Aside(f) \/ Swapped(f)
        /\ \A f \in Files \ Wants : AsItWas(f)
    <2>1. CASE spc = "stage"
      BY <1>2, <2>1 DEF Staging
    <2>2. CASE spc \in {"moveOld", "install"}
      BY <1>2, <2>2 DEF Swapping
    <2> QED BY <1>1, <2>1, <2>2
  <1>5. Left(undoing') = Wants
    BY <1>1, ChangedIsPlanned
  <1>6. \A f \in Files : (AsItWas(f)' = AsItWas(f)) /\ (Aside(f)' = Aside(f)) /\ (Swapped(f)' = Swapped(f))
    BY <1>1 DEF AsItWas, Aside, Swapped, KeptAside, Overlooked
  <1>7. Undoing'
    <2>1. \A f \in Wants : (AsItWas(f) \/ Aside(f) \/ Swapped(f))'
      BY <1>2, <1>4, <1>6
    <2>2. \A f \in Files \ Wants : Whole(f)' /\ f \notin backup'
      BY <1>1, <1>4 DEF AsItWas, Whole
    <2>3. Wants' = Wants
      BY <1>1 DEF Wants
    <2> QED BY <1>1, <1>4, <1>5, <2>1, <2>2, <2>3 DEF Undoing
  <1> QED BY <1>1, <1>3, <1>7 DEF SetupInv, Staging, Swapping, AllSwapped, Reading

\* One file is as it was again, or a call of the clean-up has failed.
LEMMA UndoKeeps == ASSUME SetupInv, Undo PROVE SetupInv'
  <1>0. PICK f : f = undoing[Len(undoing)]
    OBVIOUS
  <1> DEFINE back == f \in moved /\ f \in backup
             restored == IF back THEN "user" ELSE IF f \in installed THEN "absent" ELSE dest[f]
  <1>1. /\ UNCHANGED <<spc, kind, looked, writes, moved, installed, sexit>> /\ spc = "undo" /\ undoing # <<>>
        /\ undoing' = SubSeq(undoing, 1, Len(undoing) - 1) /\ temporary' = temporary \ {f}
        /\ \/ /\ dest' = [dest EXCEPT ![f] = restored] /\ UNCHANGED failed
              /\ backup' = IF back THEN backup \ {f} ELSE backup
           \/ /\ failed' = failed \cup {f} /\ UNCHANGED backup
              /\ UNCHANGED dest \/ dest' = [dest EXCEPT ![f] = "absent"]
    BY <1>0 DEF Undo
  <1> HIDE DEF restored
  <1>2. /\ f \in Left(undoing) /\ undoing' \in PlannedWrites /\ Left(undoing') = Left(undoing) \ {f}
        /\ f \in Files /\ sexit = "none" /\ ~Refused
    BY <1>0, <1>1, FrontAndBack DEF SetupInv, SetupTypes, Allowed, Left
  <1>3. SetupTypes' /\ Allowed'
    <2>1. restored \in {"absent", "user", "ours"}
      BY <1>2 DEF restored, SetupInv, SetupTypes
    <2>2. dest' \in [Files -> {"absent", "user", "ours"}]
      BY <1>1, <1>2, <2>1 DEF SetupInv, SetupTypes
    <2>3. temporary' \subseteq Files /\ backup' \subseteq Files
      BY <1>1, <1>2 DEF SetupInv, SetupTypes
    <2>4. SetupTypes'
      BY <1>1, <1>2, <2>2, <2>3 DEF SetupInv, SetupTypes
    <2> QED BY <1>1, <1>2, <2>4 DEF Allowed, Refused
  <1>4. CASE failed' # {}
    BY <1>3, <1>4 DEF SetupInv, SetupIsAtomic
  <1>5. CASE failed' = {}
    <2>1. /\ dest' = [dest EXCEPT ![f] = restored] /\ backup' = IF back THEN backup \ {f} ELSE backup
          /\ failed = {} /\ Undoing
      BY <1>1, <1>5 DEF SetupInv
    <2>2. f \in Wants /\ (AsItWas(f) \/ Aside(f) \/ Swapped(f))
      BY <1>1, <1>2, <2>1 DEF Undoing
    <2>3. /\ looked[f] \in {"absent", "mergeable"} /\ (f \in Overlooked => looked[f] = "absent")
          /\ f \notin Overlooked => Held(kind[f]) = IF looked[f] = "absent" THEN "absent" ELSE "user"
      BY <1>2, <2>2, Holds DEF SetupInv, Wants
    <2>4. dest'[f] = restored /\ (f \in backup' <=> f \in backup /\ ~back)
      BY <1>2, <2>1 DEF SetupInv, SetupTypes
    <2>5. Whole(f)' /\ f \notin backup'
      <3>1. restored = Held(kind[f]) \/ (f \in Overlooked /\ restored = "absent")
        BY <2>2, <2>3 DEF AsItWas, Aside, Swapped, KeptAside, restored
      <3>2. f \notin backup' /\ Overlooked' = Overlooked
        BY <1>1, <2>2, <2>3, <2>4 DEF AsItWas, Aside, Swapped, KeptAside, Overlooked
      <3> QED BY <1>1, <2>4, <3>1, <3>2 DEF Whole
    <2>6. ASSUME NEW g \in Files, g # f
          PROVE  /\ dest'[g] = dest[g] /\ (g \in backup' <=> g \in backup)
                 /\ (AsItWas(g)' = AsItWas(g)) /\ (Aside(g)' = Aside(g)) /\ (Swapped(g)' = Swapped(g))
      <3>1. dest'[g] = dest[g] /\ (g \in backup' <=> g \in backup)
        BY <2>1, <2>6 DEF SetupInv, SetupTypes
      <3> QED BY <1>1, <3>1 DEF AsItWas, Aside, Swapped, KeptAside, Overlooked
    <2>7. Undoing'
      <3>1. Left(undoing') \subseteq Wants /\ temporary' \subseteq Left(undoing') /\ Wants' = Wants /\ Wants \subseteq Files
        BY <1>1, <1>2, <2>1 DEF Undoing, Wants
      <3>2. \A g \in Left(undoing') : (AsItWas(g) \/ Aside(g) \/ Swapped(g))'
        BY <1>1, <1>2, <2>1, <2>6, <3>1 DEF Undoing
      <3>3. \A g \in Files \ Left(undoing') : Whole(g)' /\ g \notin backup'
        BY <1>1, <1>2, <2>1, <2>5, <2>6 DEF Undoing, Whole, Overlooked
      <3> QED BY <3>1, <3>2, <3>3 DEF Undoing
    <2>8. SetupIsAtomic'
      <3>1. \A g \in Files \ Overlooked : Held(kind[g]) = "user" => dest'[g] # "absent" \/ g \in backup'
        BY <1>1, <2>1, <2>4, <2>5, <2>6 DEF SetupInv, SetupIsAtomic, Whole, Overlooked
      <3> QED BY <1>1, <1>2, <3>1 DEF SetupIsAtomic, Overlooked
    <2> QED BY <1>1, <1>3, <2>7, <2>8 DEF SetupInv, Staging, Swapping, AllSwapped, Reading
  <1> QED BY <1>4, <1>5

LEMMA UndoneKeeps == ASSUME SetupInv, Undone PROVE SetupInv'
  <1>1. /\ UNCHANGED <<kind, looked, dest, temporary, backup, writes, moved, installed, undoing, failed>>
        /\ spc = "undo" /\ undoing = <<>> /\ spc' = "done" /\ sexit' = "failed"
    BY DEF Undone, Returns
  <1>2. SetupTypes' /\ Allowed'
    BY <1>1 DEF SetupInv, SetupTypes, Allowed
  <1>3. SetupIsAtomic'
    <2> SUFFICES ASSUME failed = {} PROVE SetupIsAtomic'
      BY <1>1 DEF SetupIsAtomic
    <2>1. Left(undoing) = {}
      BY <1>1, Lists
    <2>2. temporary = {} /\ \A f \in Files : Whole(f) /\ f \notin backup
      BY <1>1, <2>1 DEF SetupInv, Undoing
    <2>3. backup = {}
      BY <2>2 DEF SetupInv, SetupTypes
    <2> QED BY <1>1, <2>2, <2>3 DEF SetupInv, SetupIsAtomic, Whole, Overlooked
  <1> QED BY <1>1, <1>2, <1>3 DEF SetupInv, Staging, Swapping, AllSwapped, Reading, Undoing

LEMMA DiesKeeps == ASSUME SetupInv, Dies PROVE SetupInv'
  <1>1. /\ UNCHANGED <<kind, looked, dest, temporary, backup, writes, moved, installed, undoing, failed, sexit>>
        /\ spc \notin {"check", "done", "dead"} /\ spc' = "dead"
    BY DEF Dies, Goes
  <1>2. SetupTypes' /\ Allowed' /\ SetupIsAtomic'
    BY <1>1 DEF SetupInv, SetupTypes, Allowed, SetupIsAtomic, Overlooked
  <1> QED BY <1>1, <1>2 DEF SetupInv, Staging, Swapping, AllSwapped, Reading, Undoing

LEMMA SetupStepKeeps == ASSUME SetupInv, [SetupNext]_setupVars PROVE SetupInv'
  <1>1. CASE SetupNext
    BY <1>1, LookFailsKeeps, CheckOnlyKeeps, PlanKeeps, StageKeeps, MoveOldKeeps, InstallKeeps, DropBackupsKeeps, RereadKeeps,
       FailsKeeps, UndoKeeps, UndoneKeeps, DiesKeeps DEF SetupNext
  <1>2. CASE UNCHANGED setupVars
    BY <1>2 DEF setupVars, SetupInv, SetupTypes, Allowed, SetupIsAtomic, Refused, Staging,
       Swapping, AllSwapped, Reading, Undoing, AsItWas, Aside, Swapped, KeptAside, Left, Wants,
       Whole, Overlooked
  <1> QED BY <1>1, <1>2

-----------------------------------------------------------------------------
(* The session history: proofs *)

LEMMA StoreInitially == StoreInit => StoreInv
  <1> SUFFICES ASSUME StoreInit PROVE StoreInv
    OBVIOUS
  <1> USE StoreAssumption
  <1>1. StoreTypeOK
    <2>1. manifest \in [Sessions -> [status : {"absent", "running", "finished"}, count : 0..MaxEvents]]
      BY DEF StoreInit, Absent
    <2>2. listed \in [Sessions -> Seq(Sessions)]
      BY DEF StoreInit
    <2> QED BY <2>1, <2>2 DEF StoreInit, StoreTypeOK, Nothing
  <1>2. \A s \in Sessions : listed[s] = <<>>
    BY DEF StoreInit
  <1>3. Counted
    BY DEF StoreInit, Counted, Counts, Nothing
  <1>4. Settled
    BY <1>2 DEF StoreInit, Settled, Settles, Recorded, Absent
  <1>5. FinishedIsComplete
    BY DEF StoreInit, FinishedIsComplete, Absent, Nothing
  <1>6. ListsOnlyOver
    BY <1>2 DEF ListsOnlyOver
  <1> QED BY <1>1, <1>3, <1>4, <1>5, <1>6 DEF StoreInv

\* A step that changes what concerns one session keeps the invariant if it keeps it
\* for that one, and leaves it over if it was.
LEMMA OneChanges ==
  ASSUME StoreInv, NEW s \in Sessions,
         \A t \in Sessions : t # s =>
           /\ rpc'[t] = rpc[t] /\ manifest'[t] = manifest[t] /\ log'[t] = log[t] /\ eventCount'[t] = eventCount[t]
           /\ pending'[t] = pending[t] /\ writeFailed'[t] = writeFailed[t] /\ position'[t] = position[t]
           /\ listed'[t] = listed[t],
         Counts(s)', Settles(s)', Complete(s)', Over(s) => Over(s)',
         \A i \in DOMAIN listed'[s] : Over(listed'[s][i])
  PROVE  Counted' /\ Settled' /\ ListsOnlyOver' /\ FinishedIsComplete'
  <1>1. ASSUME NEW t \in Sessions PROVE Counts(t)'
    BY DEF StoreInv, Counted, Counts
  <1>2. ASSUME NEW t \in Sessions PROVE Settles(t)'
    BY DEF StoreInv, Settled, Settles
  <1>3. ASSUME NEW t \in Sessions PROVE Complete(t)'
    BY DEF StoreInv, FinishedIsComplete, Complete
  <1>4. ASSUME NEW n, Over(n) PROVE Over(n)'
    BY <1>4 DEF Over
  <1>5. ASSUME NEW t \in Sessions, NEW i \in DOMAIN listed'[t]
        PROVE  LET n == listed'[t][i] IN n \in Sessions /\ rpc'[n] \in Recorded /\ manifest'[n].status # "running"
    <2>1. PICK n : n = listed'[t][i]
      OBVIOUS
    <2>2. Over(n)
      BY <2>1 DEF StoreInv, ListsOnlyOver
    <2>3. n \in Sessions /\ rpc'[n] \in Recorded /\ manifest'[n].status # "running"
      BY <1>4, <2>2 DEF Over
    <2> QED BY <2>1, <2>3
  <1>6. ListsOnlyOver'
    BY <1>5 DEF ListsOnlyOver, Over
  <1> QED BY <1>1, <1>2, <1>3, <1>6 DEF Counted, Settled, FinishedIsComplete, Complete

LEMMA CreateLogKeeps == ASSUME StoreInv, NEW s \in Sessions, CreateLog(s) PROVE StoreInv'
  <1>1. /\ UNCHANGED <<manifest, finishedAt, eventCount, pending, writeFailed, names, listed, position, pass,
                       retained, cutoff, now>>
        /\ rpc[s] = "idle"
        /\ \/ rpc' = [rpc EXCEPT ![s] = "manifest"] /\ log' = [log EXCEPT ![s] = 1] /\ UNCHANGED outcome
           \/ rpc' = [rpc EXCEPT ![s] = "done"] /\ outcome' = [outcome EXCEPT ![s] = "failed"] /\ UNCHANGED log
    BY DEF CreateLog, At, Ends, Recording, Pruning
  <1>2. StoreTypeOK'
    <2>1. log' \in [Sessions -> 0..MaxEvents + 1]
      <3>1. 1 \in 0..MaxEvents + 1
        BY StoreAssumption
      <3>2. log \in [Sessions -> 0..MaxEvents + 1]
        BY DEF StoreInv, StoreTypeOK
      <3> QED BY <1>1, <3>1, <3>2
    <2> QED BY <1>1, <2>1 DEF StoreInv, StoreTypeOK
  <1>3. /\ \A t \in Sessions : t # s => rpc'[t] = rpc[t] /\ log'[t] = log[t]
        /\ \/ rpc'[s] = "manifest" /\ log'[s] = 1
           \/ rpc'[s] = "done" /\ log'[s] = log[s]
    BY <1>1 DEF StoreInv, StoreTypeOK
  <1>4. Counts(s) /\ Settles(s) /\ ~Over(s) /\ \A i \in DOMAIN listed[s] : Over(listed[s][i])
    BY <1>1 DEF StoreInv, Counted, Settled, ListsOnlyOver, Over, Recorded
  <1>5. Counts(s)' /\ Settles(s)' /\ Complete(s)'
    BY <1>1, <1>3, <1>4 DEF StoreInv, StoreTypeOK, Counts, Settles, Complete, Recorded, Nothing,
       Absent
  <1> QED BY <1>1, <1>2, <1>3, <1>4, <1>5, OneChanges DEF StoreInv

LEMMA CreateManifestKeeps == ASSUME StoreInv, NEW s \in Sessions, CreateManifest(s) PROVE StoreInv'
  <1>1. /\ UNCHANGED <<finishedAt, eventCount, pending, writeFailed, names, listed, position, pass,
                       retained, cutoff, now>>
        /\ rpc[s] = "manifest"
        /\ \/ /\ rpc' = [rpc EXCEPT ![s] = "recording"] /\ manifest' = [manifest EXCEPT ![s] = Running]
              /\ UNCHANGED <<log, outcome>>
           \/ /\ rpc' = [rpc EXCEPT ![s] = "done"] /\ outcome' = [outcome EXCEPT ![s] = "failed"]
              /\ log' = [log EXCEPT ![s] = Nothing] /\ UNCHANGED manifest
    BY DEF CreateManifest, At, Ends, Recording, Pruning
  <1>2. StoreTypeOK'
    <2>1. Running \in [status : {"absent", "running", "finished"}, count : 0..MaxEvents] /\ Nothing \in 0..MaxEvents + 1
      BY StoreAssumption DEF Running, Nothing
    <2>2. manifest' \in [Sessions -> [status : {"absent", "running", "finished"}, count : 0..MaxEvents]]
      BY <1>1, <2>1 DEF StoreInv, StoreTypeOK
    <2>3. log' \in [Sessions -> 0..MaxEvents + 1]
      <3>1. log \in [Sessions -> 0..MaxEvents + 1]
        BY DEF StoreInv, StoreTypeOK
      <3> QED BY <1>1, <2>1, <3>1
    <2> QED BY <1>1, <2>2, <2>3 DEF StoreInv, StoreTypeOK
  <1>3. /\ \A t \in Sessions : t # s => rpc'[t] = rpc[t] /\ log'[t] = log[t] /\ manifest'[t] = manifest[t]
        /\ \/ rpc'[s] = "recording" /\ log'[s] = log[s] /\ manifest'[s] = Running
           \/ rpc'[s] = "done" /\ log'[s] = Nothing /\ manifest'[s] = manifest[s]
    BY <1>1 DEF StoreInv, StoreTypeOK
  <1>4. Counts(s) /\ Settles(s) /\ ~Over(s) /\ \A i \in DOMAIN listed[s] : Over(listed[s][i])
    BY <1>1 DEF StoreInv, Counted, Settled, ListsOnlyOver, Over, Recorded
  <1>5. Counts(s)' /\ Settles(s)' /\ Complete(s)'
    <2>1. eventCount[s] \in Nat /\ pending[s] = 0 /\ manifest[s] = Absent /\ position[s] # 0
      BY <1>1, <1>4 DEF StoreInv, StoreTypeOK, Counts, Settles
    <2>2. Counts(s)'
      BY <1>1, <1>3, <1>4, <2>1 DEF Counts, Nothing
    <2>3. Settles(s)' /\ Complete(s)'
      BY <1>1, <1>3, <2>1 DEF Settles, Complete, Absent, Running
    <2> QED BY <2>2, <2>3
  <1> QED BY <1>1, <1>2, <1>3, <1>4, <1>5, OneChanges DEF StoreInv

LEMMA RecordKeeps == ASSUME StoreInv, NEW s \in Sessions, Record(s) PROVE StoreInv'
  <1>1. /\ UNCHANGED <<rpc, manifest, finishedAt, log, writeFailed, names, listed, position, pass, retained, cutoff,
                       now, outcome>>
        /\ rpc[s] = "recording" /\ eventCount[s] < MaxEvents
        /\ eventCount' = [eventCount EXCEPT ![s] = eventCount[s] + 1]
        /\ pending' = [pending EXCEPT ![s] = pending[s] + 1]
    BY DEF Record, Pruning
  <1>2. Counts(s) /\ Settles(s) /\ ~Over(s) /\ \A i \in DOMAIN listed[s] : Over(listed[s][i])
    BY <1>1 DEF StoreInv, Counted, Settled, ListsOnlyOver, Over, Recorded
  <1>3. StoreTypeOK'
    <2>1. /\ eventCount \in [Sessions -> 0..MaxEvents] /\ pending \in [Sessions -> 0..MaxEvents]
          /\ log \in [Sessions -> 0..MaxEvents + 1] /\ MaxEvents \in Nat
      BY StoreAssumption DEF StoreInv, StoreTypeOK
    <2>2. eventCount[s] + 1 \in 0..MaxEvents /\ pending[s] + 1 \in 0..MaxEvents
      BY <1>1, <1>2, <2>1 DEF Counts, Nothing
    <2>3. eventCount' \in [Sessions -> 0..MaxEvents] /\ pending' \in [Sessions -> 0..MaxEvents]
      BY <1>1, <2>1, <2>2
    <2> QED BY <1>1, <2>3 DEF StoreInv, StoreTypeOK
  <1>4. /\ \A t \in Sessions : t # s => eventCount'[t] = eventCount[t] /\ pending'[t] = pending[t]
        /\ eventCount'[s] = eventCount[s] + 1 /\ pending'[s] = pending[s] + 1
    BY <1>1 DEF StoreInv, StoreTypeOK
  <1>5. Counts(s)' /\ Settles(s)' /\ Complete(s)'
    <2>1. eventCount[s] \in Nat /\ pending[s] \in Nat /\ log[s] \in Nat
      BY StoreAssumption DEF StoreInv, StoreTypeOK
    <2> QED BY <1>1, <1>2, <1>4, <2>1 DEF Counts, Settles, Complete, Recorded, Nothing
  <1> QED BY <1>1, <1>2, <1>3, <1>4, <1>5, OneChanges DEF StoreInv

LEMMA AppendKeeps == ASSUME StoreInv, NEW s \in Sessions, Append1(s) PROVE StoreInv'
  <1>1. /\ UNCHANGED <<rpc, manifest, finishedAt, eventCount, names, listed, position, pass, retained, cutoff,
                       now, outcome>>
        /\ rpc[s] # "dead" /\ pending[s] > 0 /\ pending' = [pending EXCEPT ![s] = pending[s] - 1]
        /\ \/ log' = [log EXCEPT ![s] = log[s] + 1] /\ UNCHANGED writeFailed
           \/ writeFailed' = [writeFailed EXCEPT ![s] = TRUE] /\ UNCHANGED log
    BY DEF Append1, Pruning
  <1>2. Counts(s) /\ Settles(s) /\ \A i \in DOMAIN listed[s] : Over(listed[s][i])
    BY <1>1 DEF StoreInv, Counted, Settled, ListsOnlyOver
  <1>3. /\ eventCount \in [Sessions -> 0..MaxEvents] /\ pending \in [Sessions -> 0..MaxEvents]
        /\ log \in [Sessions -> 0..MaxEvents + 1] /\ MaxEvents \in Nat
    BY StoreAssumption DEF StoreInv, StoreTypeOK
  <1>4. rpc[s] \in {"recording", "closed"} /\ ~Over(s)
    BY <1>1, <1>2, <1>3 DEF Counts, Over, Recorded
  <1>5. StoreTypeOK'
    <2>1. pending[s] - 1 \in 0..MaxEvents /\ log[s] + 1 \in 0..MaxEvents + 1
      BY <1>1, <1>2, <1>3 DEF Counts
    <2>2. pending' \in [Sessions -> 0..MaxEvents] /\ log' \in [Sessions -> 0..MaxEvents + 1]
      BY <1>1, <1>3, <2>1
    <2>3. writeFailed' \in [Sessions -> BOOLEAN]
      BY <1>1 DEF StoreInv, StoreTypeOK
    <2> QED BY <1>1, <2>2, <2>3 DEF StoreInv, StoreTypeOK
  <1>6. /\ \A t \in Sessions : t # s =>
             log'[t] = log[t] /\ pending'[t] = pending[t] /\ writeFailed'[t] = writeFailed[t]
        /\ pending'[s] = pending[s] - 1
        /\ \/ log'[s] = log[s] + 1 /\ writeFailed'[s] = writeFailed[s]
           \/ log'[s] = log[s] /\ writeFailed'[s] = TRUE
    BY <1>1 DEF StoreInv, StoreTypeOK
  <1>7. Counts(s)' /\ Settles(s)' /\ Complete(s)'
    <2>1. Counts(s)'
      BY <1>1, <1>2, <1>3, <1>4, <1>6 DEF Counts, Nothing
    <2>2. Settles(s)' /\ Complete(s)'
      BY <1>1, <1>2, <1>4 DEF Settles, Complete, Recorded
    <2> QED BY <2>1, <2>2
  <1> QED BY <1>1, <1>2, <1>4, <1>5, <1>6, <1>7, OneChanges DEF StoreInv

\* A session ends its recording: no more events, then no more appends.
LEMMA CloseKeeps == ASSUME StoreInv, NEW s \in Sessions, Close(s) \/ AwaitAppends(s) PROVE StoreInv'
  <1>1. /\ UNCHANGED <<manifest, log, eventCount, pending, writeFailed, names, listed, position, pass, retained, cutoff>>
        /\ \/ /\ rpc[s] = "recording" /\ rpc' = [rpc EXCEPT ![s] = "closed"]
              /\ finishedAt' = [finishedAt EXCEPT ![s] = now] /\ now' = now + 1 /\ UNCHANGED outcome
           \/ /\ rpc[s] = "closed" /\ pending[s] = 0 /\ UNCHANGED <<finishedAt, now>>
              /\ \/ rpc' = [rpc EXCEPT ![s] = "done"] /\ outcome' = [outcome EXCEPT ![s] = "failed"]
                 \/ ~writeFailed[s] /\ rpc' = [rpc EXCEPT ![s] = "finalize"] /\ UNCHANGED outcome
    BY DEF Close, AwaitAppends, At, Ends, Recording, Pruning
  <1>2. StoreTypeOK'
    <2>1. now' \in Nat /\ finishedAt' \in [Sessions -> Nat]
      <3>1. now \in Nat /\ finishedAt \in [Sessions -> Nat]
        BY DEF StoreInv, StoreTypeOK
      <3> QED BY <1>1, <3>1
    <2>2. outcome' \in [Sessions -> {"none", "ok", "unlisted", "failed"}]
      BY <1>1 DEF StoreInv, StoreTypeOK
    <2>3. rpc' \in [Sessions -> Places]
      <3>1. rpc \in [Sessions -> Places]
        BY DEF StoreInv, StoreTypeOK, Places
      <3> QED BY <1>1, <3>1 DEF Places
    <2> QED BY <1>1, <2>1, <2>2, <2>3 DEF StoreInv, StoreTypeOK, Places
  <1>3. /\ \A t \in Sessions : t # s => rpc'[t] = rpc[t]
        /\ \/ rpc[s] = "recording" /\ rpc'[s] = "closed"
           \/ rpc[s] = "closed" /\ pending[s] = 0 /\ (rpc'[s] = "done" \/ (rpc'[s] = "finalize" /\ ~writeFailed[s]))
    BY <1>1 DEF StoreInv, StoreTypeOK
  <1>4. Counts(s) /\ Settles(s) /\ ~Over(s) /\ \A i \in DOMAIN listed[s] : Over(listed[s][i])
    BY <1>1 DEF StoreInv, Counted, Settled, ListsOnlyOver, Over, Recorded
  <1>5. Counts(s)' /\ Settles(s)' /\ Complete(s)'
    BY <1>1, <1>3, <1>4 DEF StoreInv, StoreTypeOK, Counts, Settles, Complete, Recorded
  <1> QED BY <1>1, <1>2, <1>3, <1>4, <1>5, OneChanges DEF StoreInv

LEMMA FinalizeKeeps == ASSUME StoreInv, NEW s \in Sessions, Finalize(s) PROVE StoreInv'
  <1> DEFINE final == [status |-> "finished", count |-> eventCount[s]]
  <1>1. /\ UNCHANGED <<finishedAt, log, eventCount, pending, writeFailed, names, listed, position, pass, retained,
                       cutoff, now>>
        /\ rpc[s] = "finalize"
        /\ \/ manifest' = [manifest EXCEPT ![s] = final] /\ rpc' = [rpc EXCEPT ![s] = "list"] /\ UNCHANGED outcome
           \/ /\ rpc' = [rpc EXCEPT ![s] = "done"] /\ outcome' = [outcome EXCEPT ![s] = "failed"]
              /\ UNCHANGED manifest
    BY DEF Finalize, At, Ends, Recording, Pruning
  <1>2. /\ final \in [status : {"absent", "running", "finished"}, count : 0..MaxEvents]
        /\ final.status = "finished" /\ final.count = eventCount[s]
    BY DEF StoreInv, StoreTypeOK
  <1> HIDE DEF final
  <1>3. StoreTypeOK'
    <2>1. manifest' \in [Sessions -> [status : {"absent", "running", "finished"}, count : 0..MaxEvents]]
      BY <1>1, <1>2 DEF StoreInv, StoreTypeOK
    <2>2. outcome' \in [Sessions -> {"none", "ok", "unlisted", "failed"}]
      BY <1>1 DEF StoreInv, StoreTypeOK
    <2>3. rpc' \in [Sessions -> Places]
      <3>1. rpc \in [Sessions -> Places]
        BY DEF StoreInv, StoreTypeOK, Places
      <3> QED BY <1>1, <3>1 DEF Places
    <2> QED BY <1>1, <2>1, <2>2, <2>3 DEF StoreInv, StoreTypeOK, Places
  <1>4. /\ \A t \in Sessions : t # s => rpc'[t] = rpc[t] /\ manifest'[t] = manifest[t]
        /\ \/ rpc'[s] = "list" /\ manifest'[s] = final
           \/ rpc'[s] = "done" /\ manifest'[s] = manifest[s]
    BY <1>1 DEF StoreInv, StoreTypeOK
  <1>5. Counts(s) /\ Settles(s) /\ ~Over(s) /\ \A i \in DOMAIN listed[s] : Over(listed[s][i])
    BY <1>1 DEF StoreInv, Counted, Settled, ListsOnlyOver, Over, Recorded
  <1>6. Counts(s)' /\ Settles(s)' /\ Complete(s)'
    BY <1>1, <1>2, <1>4, <1>5 DEF StoreInv, StoreTypeOK, Counts, Settles, Complete, Recorded
  <1> QED BY <1>1, <1>3, <1>4, <1>5, <1>6, OneChanges DEF StoreInv

\* A step of the pruning that changes no file: where its process stands, its list and
\* how far it has come in it.
LEMMA PrunerMoves ==
  ASSUME StoreInv, NEW s \in Sessions,
         UNCHANGED <<manifest, log, eventCount, pending, writeFailed>>,
         \A t \in Sessions : t # s => rpc'[t] = rpc[t] /\ position'[t] = position[t] /\ listed'[t] = listed[t],
         rpc[s] \in Recorded \ {"dead"}, rpc'[s] \in Recorded,
         position'[s] # 0, rpc'[s] = "remove" => position'[s] <= Len(listed'[s]),
         \A i \in DOMAIN listed'[s] : Over(listed'[s][i])
  PROVE  Counted' /\ Settled' /\ ListsOnlyOver' /\ FinishedIsComplete'
  <1>1. Counts(s) /\ Settles(s) /\ Complete(s)
    BY DEF StoreInv, Counted, Settled, FinishedIsComplete, Complete
  <1>2. Counts(s)' /\ Settles(s)' /\ Complete(s)' /\ (Over(s) => Over(s)')
    BY <1>1 DEF Counts, Settles, Complete, Over, Recorded
  <1> QED BY <1>2, OneChanges

LEMMA ListKeeps == ASSUME StoreInv, NEW s \in Sessions, List(s) PROVE StoreInv'
  <1> DEFINE all == {n \in Sessions : manifest[n] # Absent}
  <1>1. /\ UNCHANGED <<manifest, finishedAt, log, eventCount, pending, writeFailed, position, pass, retained, cutoff, now>>
        /\ rpc[s] = "list"
        /\ \/ /\ rpc' = [rpc EXCEPT ![s] = "read"] /\ UNCHANGED outcome
              /\ names' = [names EXCEPT ![s] = all] /\ listed' = [listed EXCEPT ![s] = <<>>]
           \/ /\ rpc' = [rpc EXCEPT ![s] = "done"] /\ outcome' = [outcome EXCEPT ![s] = "unlisted"]
              /\ UNCHANGED <<names, listed>>
    BY DEF List, At, Ends, Stored, Recording
  <1>2. all \in SUBSET Sessions
    OBVIOUS
  <1> HIDE DEF all
  <1>3. StoreTypeOK'
    <2>1. /\ rpc \in [Sessions -> Places] /\ names \in [Sessions -> SUBSET Sessions]
          /\ outcome \in [Sessions -> {"none", "ok", "unlisted", "failed"}] /\ listed \in [Sessions -> Seq(Sessions)]
      BY DEF StoreInv, StoreTypeOK, Places
    <2>2. rpc' \in [Sessions -> Places]
      BY <1>1, <2>1 DEF Places
    <2>3. outcome' \in [Sessions -> {"none", "ok", "unlisted", "failed"}]
      BY <1>1, <2>1
    <2>4. names' \in [Sessions -> SUBSET Sessions]
      BY <1>1, <1>2, <2>1
    <2>5. listed' \in [Sessions -> Seq(Sessions)]
      <3>1. <<>> \in Seq(Sessions)
        OBVIOUS
      <3> QED BY <1>1, <2>1, <3>1
    <2> QED BY <1>1, <2>2, <2>3, <2>4, <2>5 DEF StoreInv, StoreTypeOK, Places
  <1>4. /\ \A t \in Sessions : t # s => rpc'[t] = rpc[t] /\ listed'[t] = listed[t]
        /\ rpc'[s] \in {"read", "done"} /\ listed'[s] \in {<<>>, listed[s]}
    BY <1>1 DEF StoreInv, StoreTypeOK
  <1>5. Settles(s) /\ \A i \in DOMAIN listed[s] : Over(listed[s][i])
    BY DEF StoreInv, Settled, ListsOnlyOver
  <1>6. \A i \in DOMAIN listed'[s] : Over(listed'[s][i])
    BY <1>4, <1>5
  <1> QED BY <1>1, <1>3, <1>4, <1>5, <1>6, PrunerMoves DEF StoreInv, Settles, Recorded

LEMMA ReadNameKeeps == ASSUME StoreInv, NEW s \in Sessions, ReadName(s) PROVE StoreInv'
  <1>0. PICK n : n = Min(names[s])
    OBVIOUS
  <1>1. /\ UNCHANGED <<rpc, manifest, finishedAt, log, eventCount, pending, writeFailed, position, pass, retained,
                       cutoff, now, outcome>>
        /\ rpc[s] = "read" /\ names[s] # {} /\ names' = [names EXCEPT ![s] = names[s] \ {n}]
        /\ \/ Prunable(n) /\ listed' = [listed EXCEPT ![s] = Append(listed[s], n)]
           \/ UNCHANGED listed
    <2>1. listed \in [Sessions -> Seq(Sessions)]
      BY DEF StoreInv, StoreTypeOK
    <2>2. CASE Prunable(n)
      BY <1>0, <2>2 DEF ReadName, Stored, Recording
    <2>3. CASE ~Prunable(n)
      <3>1. listed' = [listed EXCEPT ![s] = listed[s]]
        BY <1>0, <2>3 DEF ReadName
      <3>2. UNCHANGED listed
        BY <2>1, <3>1
      <3> QED BY <1>0, <3>2 DEF ReadName, Stored, Recording
    <2> QED BY <2>2, <2>3
  <1>2. names[s] \subseteq Sessions /\ n \in Sessions /\ listed[s] \in Seq(Sessions)
    <2>1. names[s] \subseteq Sessions /\ listed[s] \in Seq(Sessions)
      BY DEF StoreInv, StoreTypeOK
    <2>2. names[s] \in SUBSET Nat
      BY <2>1, StoreAssumption
    <2>3. n \in names[s]
      <3>1. \E x \in names[s] : \A y \in names[s] : x <= y
        BY <1>1, <2>2, Least
      <3> QED BY <1>0, <3>1 DEF Min
    <2> QED BY <2>1, <2>3
  <1> DEFINE longer == Append(listed[s], n)
  <1>3. /\ longer \in Seq(Sessions) /\ DOMAIN longer = 1 .. Len(listed[s]) + 1
        /\ \A i \in DOMAIN longer : longer[i] = n \/ (i \in DOMAIN listed[s] /\ longer[i] = listed[s][i])
    BY <1>2
  <1> HIDE DEF longer
  <1>4. StoreTypeOK'
    <2>1. names \in [Sessions -> SUBSET Sessions] /\ listed \in [Sessions -> Seq(Sessions)]
      BY DEF StoreInv, StoreTypeOK
    <2>2. names' \in [Sessions -> SUBSET Sessions]
      BY <1>1, <1>2, <2>1
    <2>3. listed' \in [Sessions -> Seq(Sessions)]
      BY <1>1, <1>3, <2>1 DEF longer
    <2> QED BY <1>1, <2>2, <2>3 DEF StoreInv, StoreTypeOK
  <1>5. /\ \A t \in Sessions : t # s => listed'[t] = listed[t]
        /\ listed'[s] = listed[s] \/ (listed'[s] = longer /\ Prunable(n))
    BY <1>1 DEF StoreInv, StoreTypeOK, longer
  <1>6. Prunable(n) => Over(n)
    BY <1>2 DEF Prunable, Over, StoreInv, Settled, Settles
  <1>7. Settles(s) /\ \A i \in DOMAIN listed[s] : Over(listed[s][i])
    BY DEF StoreInv, Settled, ListsOnlyOver
  <1>8. \A i \in DOMAIN listed'[s] : Over(listed'[s][i])
    BY <1>3, <1>5, <1>6, <1>7
  <1> QED BY <1>1, <1>4, <1>5, <1>7, <1>8, PrunerMoves DEF StoreInv, Settles, Recorded

\* An ordering of a list names what the list names.
LEMMA Orders ==
  ASSUME NEW S, NEW list \in Seq(S), NEW order \in [1..Cardinality(Range(list)) -> Range(list)]
  PROVE  /\ Cardinality(Range(list)) \in Nat /\ order \in Seq(S) /\ DOMAIN order = 1..Cardinality(Range(list))
         /\ \A i \in DOMAIN order : \E j \in DOMAIN list : order[i] = list[j]
  <1>1. Len(list) \in Nat /\ list \in Surjection(1..Len(list), Range(list))
    BY DEF Surjection, Range
  <1>2. IsFiniteSet(1..Len(list))
    BY <1>1, FS_Interval
  <1>3. IsFiniteSet(Range(list))
    BY <1>1, <1>2, FS_Surjection
  <1>4. Cardinality(Range(list)) \in Nat
    BY <1>3, FS_CardinalityType
  <1>5. Range(list) \subseteq S
    BY DEF Range
  <1>6. PICK n \in Nat : n = Cardinality(Range(list))
    BY <1>4
  <1>7. order \in [1..n -> S]
    BY <1>5, <1>6
  <1>8. order \in Seq(S) /\ DOMAIN order = 1..n
    BY <1>7
  <1>9. \A i \in DOMAIN order : \E j \in DOMAIN list : order[i] = list[j]
    BY DEF Range
  <1> QED BY <1>6, <1>8, <1>9

LEMMA SortKeeps == ASSUME StoreInv, NEW s \in Sessions, Sort(s) PROVE StoreInv'
  <1>0. PICK order \in Newest(s, Range(listed[s])) : listed' = [listed EXCEPT ![s] = order]
    BY DEF Sort
  <1>1. /\ UNCHANGED <<manifest, finishedAt, log, eventCount, pending, writeFailed, names, pass, retained, now, outcome>>
        /\ rpc[s] = "read" /\ rpc' = [rpc EXCEPT ![s] = "prune"] /\ position' = [position EXCEPT ![s] = 1]
        /\ \/ cutoff' = [cutoff EXCEPT ![s] = cutoff[s]]
           \/ ~(now <= MaxAge) /\ cutoff' = [cutoff EXCEPT ![s] = now - MaxAge]
    BY DEF Sort, At, Stored, Recording
  <1>2. /\ rpc \in [Sessions -> Places] /\ listed \in [Sessions -> Seq(Sessions)] /\ position \in [Sessions -> Nat]
        /\ cutoff \in [Sessions -> Nat] /\ now \in Nat /\ MaxAge \in Nat
    BY StoreAssumption DEF StoreInv, StoreTypeOK, Places
  <1>3. order \in Seq(Sessions) /\ \A i \in DOMAIN order : \E j \in DOMAIN listed[s] : order[i] = listed[s][j]
    <2>1. listed[s] \in Seq(Sessions) /\ order \in [1..Cardinality(Range(listed[s])) -> Range(listed[s])]
      BY <1>0, <1>2 DEF Newest
    <2> QED BY <2>1, Orders
  <1>4. StoreTypeOK'
    <2>1. rpc' \in [Sessions -> Places]
      BY <1>1, <1>2 DEF Places
    <2>2. listed' \in [Sessions -> Seq(Sessions)]
      BY <1>0, <1>2, <1>3
    <2>3. position' \in [Sessions -> Nat]
      BY <1>1, <1>2
    <2>4. cutoff' \in [Sessions -> Nat]
      <3>1. ~(now <= MaxAge) => now - MaxAge \in Nat
        BY <1>2
      <3> QED BY <1>1, <1>2, <3>1
    <2> QED BY <1>1, <2>1, <2>2, <2>3, <2>4 DEF StoreInv, StoreTypeOK, Places
  <1>5. /\ \A t \in Sessions : t # s => rpc'[t] = rpc[t] /\ listed'[t] = listed[t] /\ position'[t] = position[t]
        /\ rpc'[s] = "prune" /\ listed'[s] = order /\ position'[s] = 1
    BY <1>0, <1>1, <1>2
  <1>6. \A i \in DOMAIN listed'[s] : Over(listed'[s][i])
    BY <1>3, <1>5 DEF StoreInv, ListsOnlyOver
  <1> QED BY <1>1, <1>4, <1>5, <1>6, PrunerMoves DEF StoreInv, Recorded

LEMMA PruneKeeps == ASSUME StoreInv, NEW s \in Sessions, Prune(s) PROVE StoreInv'
  <1>0. PICK bytes, size : bytes = RetainedBytes(s) /\ size = Bytes(Candidate(s))
    OBVIOUS
  <1>1. /\ UNCHANGED <<manifest, finishedAt, log, eventCount, pending, writeFailed, names, listed, pass,
                       cutoff, now, outcome>>
        /\ rpc[s] = "prune" /\ position[s] <= Len(listed[s])
        /\ \/ /\ rpc' = [rpc EXCEPT ![s] = "remove"] /\ UNCHANGED position
              /\ retained' = [retained EXCEPT ![s] = bytes]
           \/ /\ position' = [position EXCEPT ![s] = position[s] + 1] /\ UNCHANGED rpc
              /\ retained' = [retained EXCEPT ![s] = bytes + size]
    BY <1>0 DEF Prune, At, Stored, Recording
  <1>2. /\ rpc \in [Sessions -> Places] /\ listed[s] \in Seq(Sessions) /\ position \in [Sessions -> Nat]
        /\ retained \in [Sessions -> Nat] /\ log \in [Sessions -> Nat]
    <2>1. log \in [Sessions -> 0..MaxEvents + 1] /\ MaxEvents \in Nat
      BY StoreAssumption DEF StoreInv, StoreTypeOK
    <2>2. log \in [Sessions -> Nat]
      BY <2>1
    <2> QED BY <2>2 DEF StoreInv, StoreTypeOK, Places
  <1>3. Settles(s) /\ \A i \in DOMAIN listed[s] : Over(listed[s][i])
    BY DEF StoreInv, Settled, ListsOnlyOver
  <1>4. Candidate(s) \in Sessions
    BY <1>1, <1>2, <1>3 DEF Settles, Candidate
  <1>5. bytes \in Nat /\ size \in Nat
    BY <1>0, <1>2, <1>4 DEF RetainedBytes, Bytes, Nothing
  <1>6. StoreTypeOK'
    <2>1. rpc' \in [Sessions -> Places]
      BY <1>1, <1>2 DEF Places
    <2>2. position' \in [Sessions -> Nat]
      BY <1>1, <1>2
    <2>3. retained' \in [Sessions -> Nat]
      <3>1. bytes + size \in Nat
        BY <1>5
      <3>2. PICK kept \in Nat : retained' = [retained EXCEPT ![s] = kept]
        BY <1>1, <1>5, <3>1
      <3> QED BY <1>2, <3>2
    <2> QED BY <1>1, <2>1, <2>2, <2>3 DEF StoreInv, StoreTypeOK, Places
  <1>7. /\ \A t \in Sessions : t # s => rpc'[t] = rpc[t] /\ position'[t] = position[t]
        /\ \/ rpc'[s] = "remove" /\ position'[s] = position[s]
           \/ rpc'[s] = "prune" /\ position'[s] = position[s] + 1
    BY <1>1, <1>2
  <1>8. position'[s] # 0
    BY <1>2, <1>3, <1>7 DEF Settles
  <1> QED BY <1>1, <1>3, <1>6, <1>7, <1>8, PrunerMoves DEF StoreInv, Recorded

\* What is removed belongs to a session that is over.
LEMMA RemoveFileKeeps == ASSUME StoreInv, NEW s \in Sessions, RemoveFile(s) PROVE StoreInv'
  <1>0. PICK c : c = Candidate(s)
    OBVIOUS
  <1>1. /\ UNCHANGED <<rpc, finishedAt, eventCount, pending, writeFailed, names, listed, position, pass, retained,
                       cutoff, now, outcome>>
        /\ rpc[s] = "remove"
        /\ \/ manifest' = [manifest EXCEPT ![c] = Absent] /\ UNCHANGED log
           \/ log' = [log EXCEPT ![c] = Nothing] /\ UNCHANGED manifest
    BY <1>0 DEF RemoveFile, Recording, Pruning
  <1>2. Over(c)
    <2>1. Settles(s) /\ position[s] \in Nat /\ listed[s] \in Seq(Sessions)
      BY DEF StoreInv, Settled, StoreTypeOK
    <2>2. position[s] \in DOMAIN listed[s]
      BY <1>1, <2>1 DEF Settles
    <2> QED BY <1>0, <2>2 DEF StoreInv, ListsOnlyOver, Candidate
  <1>3. c \in Sessions /\ rpc[c] \in Recorded
    BY <1>2 DEF Over
  <1>4. /\ log \in [Sessions -> 0..MaxEvents + 1] /\ Nothing \in 0..MaxEvents + 1
        /\ manifest \in [Sessions -> [status : {"absent", "running", "finished"}, count : 0..MaxEvents]]
        /\ Absent \in [status : {"absent", "running", "finished"}, count : 0..MaxEvents]
    BY StoreAssumption DEF StoreInv, StoreTypeOK, Nothing, Absent
  <1>5. StoreTypeOK'
    <2>1. log' \in [Sessions -> 0..MaxEvents + 1]
      BY <1>1, <1>4
    <2>2. manifest' \in [Sessions -> [status : {"absent", "running", "finished"}, count : 0..MaxEvents]]
      BY <1>1, <1>4
    <2> QED BY <1>1, <2>1, <2>2 DEF StoreInv, StoreTypeOK
  <1>6. /\ \A t \in Sessions : t # c => manifest'[t] = manifest[t] /\ log'[t] = log[t]
        /\ manifest'[c] \in {manifest[c], Absent} /\ log'[c] \in {log[c], Nothing}
    BY <1>1, <1>3, <1>4
  <1>7. Counts(c) /\ Settles(c) /\ Complete(c) /\ \A i \in DOMAIN listed[c] : Over(listed[c][i])
    BY <1>3 DEF StoreInv, Counted, Settled, FinishedIsComplete, Complete, ListsOnlyOver
  <1>8. Counts(c)'
    <2>1. eventCount[c] \in Nat /\ pending[c] \in Nat /\ log[c] \in Nat
      BY <1>3, StoreAssumption DEF StoreInv, StoreTypeOK
    <2>2. log'[c] + pending[c] <= eventCount[c] + 1
      BY <1>6, <1>7, <2>1 DEF Counts, Nothing
    <2> QED BY <1>1, <1>3, <1>7, <2>2 DEF Counts, Recorded
  <1>9. Settles(c)' /\ Complete(c)' /\ Over(c)'
    BY <1>1, <1>2, <1>3, <1>6, <1>7 DEF Settles, Complete, Over, Recorded, Absent, Nothing
  <1> QED BY <1>1, <1>3, <1>5, <1>6, <1>7, <1>8, <1>9, OneChanges DEF StoreInv

LEMMA RemovedKeeps ==
  ASSUME StoreInv, NEW s \in Sessions, Removed(s) \/ RemovalFails(s) \/ Pruned(s)
  PROVE  StoreInv'
  <1>1. /\ UNCHANGED <<manifest, finishedAt, log, eventCount, pending, writeFailed, names, listed, retained, cutoff, now>>
        /\ rpc[s] \in {"remove", "prune"}
        /\ \E there \in {"prune", "done", "list"} : rpc' = [rpc EXCEPT ![s] = there]
        /\ UNCHANGED outcome \/ \E result \in {"failed", "ok"} : outcome' = [outcome EXCEPT ![s] = result]
        /\ UNCHANGED position \/ position' = [position EXCEPT ![s] = position[s] + 1]
        /\ UNCHANGED pass \/ pass' = [pass EXCEPT ![s] = "total"]
    BY DEF Removed, RemovalFails, Pruned, At, Ends, Stored, Recording, Pruning
  <1>2. /\ rpc \in [Sessions -> Places] /\ listed[s] \in Seq(Sessions) /\ position \in [Sessions -> Nat]
        /\ pass \in [Sessions -> {"group", "total"}] /\ outcome \in [Sessions -> {"none", "ok", "unlisted", "failed"}]
    BY DEF StoreInv, StoreTypeOK, Places
  <1>3. Settles(s) /\ \A i \in DOMAIN listed[s] : Over(listed[s][i])
    BY DEF StoreInv, Settled, ListsOnlyOver
  <1>4. StoreTypeOK'
    <2>1. rpc' \in [Sessions -> Places]
      BY <1>1, <1>2 DEF Places
    <2>2. position' \in [Sessions -> Nat]
      BY <1>1, <1>2
    <2>3. pass' \in [Sessions -> {"group", "total"}]
      BY <1>1, <1>2
    <2>4. outcome' \in [Sessions -> {"none", "ok", "unlisted", "failed"}]
      BY <1>1, <1>2
    <2> QED BY <1>1, <2>1, <2>2, <2>3, <2>4 DEF StoreInv, StoreTypeOK, Places
  <1>5. /\ \A t \in Sessions : t # s => rpc'[t] = rpc[t] /\ position'[t] = position[t]
        /\ rpc'[s] \in {"prune", "done", "list"} /\ position'[s] \in {position[s], position[s] + 1}
    BY <1>1, <1>2
  <1>6. position'[s] # 0
    BY <1>2, <1>3, <1>5 DEF Settles
  <1> QED BY <1>1, <1>3, <1>4, <1>5, <1>6, PrunerMoves DEF StoreInv, Recorded

LEMMA RecorderDiesKeeps == ASSUME StoreInv, NEW s \in Sessions, RecorderDies(s) PROVE StoreInv'
  <1>1. /\ UNCHANGED <<manifest, finishedAt, log, eventCount, pending, writeFailed, names, listed, position, pass, retained,
                       cutoff, now, outcome>>
        /\ rpc[s] \notin {"idle", "done", "dead"} /\ rpc' = [rpc EXCEPT ![s] = "dead"]
    BY DEF RecorderDies, At, Stored, Recording, Pruning
  <1>2. rpc \in [Sessions -> Places]
    BY DEF StoreInv, StoreTypeOK, Places
  <1>3. StoreTypeOK'
    <2>1. rpc' \in [Sessions -> Places]
      BY <1>1, <1>2 DEF Places
    <2> QED BY <1>1, <2>1 DEF StoreInv, StoreTypeOK, Places
  <1>4. rpc'[s] = "dead" /\ \A t \in Sessions : t # s => rpc'[t] = rpc[t]
    BY <1>1, <1>2
  <1>5. Counts(s) /\ Settles(s) /\ Complete(s) /\ \A i \in DOMAIN listed[s] : Over(listed[s][i])
    BY DEF StoreInv, Counted, Settled, FinishedIsComplete, Complete, ListsOnlyOver
  <1>6. Counts(s)' /\ Settles(s)' /\ Complete(s)' /\ (Over(s) => Over(s)')
    BY <1>1, <1>4, <1>5 DEF Counts, Settles, Complete, Over, Recorded
  <1> QED BY <1>1, <1>3, <1>4, <1>5, <1>6, OneChanges DEF StoreInv

LEMMA StoreStepKeeps == ASSUME StoreInv, [StoreNext]_storeVars PROVE StoreInv'
  <1>1. ASSUME UNCHANGED <<rpc, manifest, finishedAt, log, Recording, Pruning, outcome>>, now' \in Nat PROVE StoreInv'
    <2>1. UNCHANGED <<rpc, manifest, finishedAt, log, eventCount, pending, writeFailed, names, listed, position, pass,
                      retained, cutoff, outcome>>
      BY <1>1 DEF Recording, Pruning
    <2>2. StoreTypeOK'
      BY <1>1, <2>1 DEF StoreInv, StoreTypeOK
    <2>3. Counted' /\ Settled' /\ ListsOnlyOver' /\ FinishedIsComplete'
      BY <2>1 DEF StoreInv, Counted, Counts, Settled, Settles, ListsOnlyOver, Over,
         FinishedIsComplete
    <2> QED BY <2>2, <2>3 DEF StoreInv
  <1>2. now \in Nat
    BY DEF StoreInv, StoreTypeOK
  <1>3. CASE Tick
    BY <1>1, <1>2, <1>3 DEF Tick, Stored
  <1>4. CASE UNCHANGED storeVars
    BY <1>1, <1>2, <1>4 DEF storeVars
  <1>5. CASE \E s \in Sessions :
               \/ CreateLog(s) \/ CreateManifest(s) \/ Record(s) \/ Append1(s)
               \/ Close(s) \/ AwaitAppends(s) \/ Finalize(s)
               \/ List(s) \/ ReadName(s) \/ Sort(s) \/ Prune(s) \/ RemoveFile(s) \/ Removed(s)
               \/ RemovalFails(s) \/ Pruned(s) \/ RecorderDies(s)
    BY <1>5, CreateLogKeeps, CreateManifestKeeps, RecordKeeps, AppendKeeps, CloseKeeps, FinalizeKeeps, ListKeeps,
       ReadNameKeeps, SortKeeps, PruneKeeps, RemoveFileKeeps, RemovedKeeps, RecorderDiesKeeps
  <1> QED BY <1>3, <1>4, <1>5 DEF StoreNext

\* Pruning removes no manifest of a session that is not over (the status that
\* pruneGroup filters by is of a list read earlier).
OnlyFinishedGo == \A s \in Sessions :
  manifest[s] # Absent /\ manifest'[s] = Absent => manifest[s].status = "finished"

LEMMA StoreStepRemovesFinished == ASSUME StoreInv, [StoreNext]_storeVars PROVE OnlyFinishedGo
  <1> SUFFICES ASSUME NEW n \in Sessions, manifest[n] # Absent, manifest'[n] = Absent
               PROVE  manifest[n].status = "finished"
    BY DEF OnlyFinishedGo
  <1>1. manifest \in [Sessions -> [status : {"absent", "running", "finished"}, count : 0..MaxEvents]]
    BY DEF StoreInv, StoreTypeOK
  <1>2. ~UNCHANGED manifest
    OBVIOUS
  <1>3. PICK s \in Sessions : CreateManifest(s) \/ Finalize(s) \/ RemoveFile(s)
    BY <1>2 DEF StoreNext, storeVars, Tick, Stored, CreateLog, Record, Append1, Close,
       AwaitAppends, List, ReadName, Sort, Prune, Removed, RemovalFails, Pruned, RecorderDies
  <1>4. CASE CreateManifest(s)
    BY <1>1, <1>2, <1>4 DEF CreateManifest, Running, Absent
  <1>5. CASE Finalize(s)
    <2>1. manifest' = [manifest EXCEPT ![s] = [status |-> "finished", count |-> eventCount[s]]]
      BY <1>2, <1>5 DEF Finalize
    <2>2. [status |-> "finished", count |-> eventCount[s]] # Absent
      BY DEF Absent
    <2> QED BY <1>1, <2>1, <2>2
  <1>6. CASE RemoveFile(s)
    <2>1. n = Candidate(s)
      BY <1>1, <1>2, <1>6 DEF RemoveFile
    <2>2. Settles(s) /\ position[s] \in Nat /\ listed[s] \in Seq(Sessions) /\ rpc[s] = "remove"
      BY <1>6 DEF StoreInv, Settled, StoreTypeOK, RemoveFile
    <2>3. position[s] \in DOMAIN listed[s]
      BY <2>2 DEF Settles
    <2>4. Over(n)
      BY <2>1, <2>3 DEF StoreInv, ListsOnlyOver, Candidate
    <2>5. Settles(n)
      BY DEF StoreInv, Settled
    <2> QED BY <1>1, <2>4, <2>5 DEF Over, Settles
  <1> QED BY <1>3, <1>4, <1>5, <1>6

-----------------------------------------------------------------------------
(* The limits of the session history: proofs *)

\* The ranges of what the history is made of, as the arithmetic of pruning needs them.
LEMMA StoreNumbers ==
  ASSUME StoreInv
  PROVE  /\ eventCount \in [Sessions -> Nat] /\ log \in [Sessions -> Nat] /\ pending \in [Sessions -> Nat]
         /\ finishedAt \in [Sessions -> Nat] /\ cutoff \in [Sessions -> Nat] /\ position \in [Sessions -> Nat]
         /\ retained \in [Sessions -> Nat] /\ now \in Nat /\ names \in [Sessions -> SUBSET Sessions]
         /\ listed \in [Sessions -> Seq(Sessions)] /\ pass \in [Sessions -> {"group", "total"}]
         /\ rpc \in [Sessions -> Places] /\ outcome \in [Sessions -> {"none", "ok", "unlisted", "failed"}]
         /\ manifest \in [Sessions -> [status : {"absent", "running", "finished"}, count : 0..MaxEvents]]
         /\ Sessions \subseteq Nat \ {0} /\ IsFiniteSet(Sessions) /\ Past \subseteq Sessions
         /\ Project \in [Sessions -> Nat] /\ MaxAge \in Nat
         /\ \A s \in Sessions : MaximumCount(s) \in Nat /\ MaximumBytes(s) \in Nat
  <1>1. MaxEvents \in Nat /\ \A n \in 0..MaxEvents + 1 : n \in Nat
    BY StoreAssumption
  <1>2. \A n \in 0..MaxEvents : n \in Nat
    BY <1>1
  <1>3. eventCount \in [Sessions -> 0..MaxEvents] /\ log \in [Sessions -> 0..MaxEvents + 1] /\ pending \in [Sessions -> 0..MaxEvents]
    BY DEF StoreInv, StoreTypeOK
  <1>4. eventCount \in [Sessions -> Nat] /\ log \in [Sessions -> Nat] /\ pending \in [Sessions -> Nat]
    BY <1>1, <1>2, <1>3
  <1>5. \A s \in Sessions : MaximumCount(s) \in Nat /\ MaximumBytes(s) \in Nat
    BY StoreAssumption DEF MaximumCount, MaximumBytes
  <1> QED BY <1>4, <1>5, StoreAssumption DEF StoreInv, StoreTypeOK, Places

\* Every session has a size, so a part of them has no more than the whole.
LEMMA SizesCompare ==
  ASSUME StoreInv, NEW S \in SUBSET Sessions, NEW T \in SUBSET S
  PROVE  /\ IsFiniteSet(S) /\ Sizes(T) \in Nat /\ Sizes(S) \in Nat /\ Sizes(T) <= Sizes(S)
         /\ Cardinality(S) \in Nat /\ Cardinality(T) \in Nat /\ Cardinality(T) <= Cardinality(S)
  <1>1. IsFiniteSet(S) /\ IsFiniteSet(T)
    BY StoreAssumption, FS_Subset
  <1>2. \A x \in Sessions : SizeAtFinish[x] \in Nat
    BY StoreNumbers DEF SizeAtFinish
  <1>3. Sizes(T) \in Nat /\ Sizes(S) \in Nat
    BY <1>1, <1>2, SumType DEF Sizes
  <1>4. Sizes(T) <= Sizes(S)
    BY <1>1, <1>2, SumOfPart DEF Sizes
  <1> QED BY <1>1, <1>3, <1>4, FS_Subset, FS_CardinalityType

LEMMA SizesAdd ==
  ASSUME StoreInv, NEW S \in SUBSET Sessions, NEW n \in Sessions
  PROVE  /\ Sizes(S) \in Nat /\ SizeAtFinish[n] = eventCount[n] + 1 /\ SizeAtFinish[n] \in Nat
         /\ n \notin S => Sizes(S \cup {n}) = SizeAtFinish[n] + Sizes(S)
         /\ Sizes(S \cup {n}) <= SizeAtFinish[n] + Sizes(S)
         /\ Cardinality(S) \in Nat /\ Cardinality(S \cup {n}) \in Nat /\ Cardinality(S \cup {n}) <= Cardinality(S) + 1
  <1>1. IsFiniteSet(S)
    BY StoreAssumption, FS_Subset
  <1>2. \A x \in Sessions : SizeAtFinish[x] = eventCount[x] + 1 /\ SizeAtFinish[x] \in Nat
    <2>1. \A x \in Sessions : eventCount[x] \in Nat
      BY StoreNumbers
    <2> QED BY <2>1 DEF SizeAtFinish
  <1>3. Sizes(S) \in Nat
    BY <1>1, <1>2, SumType DEF Sizes
  <1>4. n \notin S => Sizes(S \cup {n}) = SizeAtFinish[n] + Sizes(S)
    BY <1>1, <1>2, SumAdds DEF Sizes
  <1>5. n \in S => S \cup {n} = S
    OBVIOUS
  <1>6. Sizes(S \cup {n}) <= SizeAtFinish[n] + Sizes(S)
    <2>1. PICK k \in Nat, m \in Nat : k = SizeAtFinish[n] /\ m = Sizes(S)
      BY <1>2, <1>3
    <2>2. m <= k + m /\ k + m <= k + m
      BY <2>1
    <2> QED BY <1>4, <1>5, <2>1, <2>2, Zenon
  <1>7. Cardinality(S) \in Nat /\ Cardinality(S \cup {n}) \in Nat /\ Cardinality(S \cup {n}) <= Cardinality(S) + 1
    BY <1>1, FS_AddElement, FS_CardinalityType
  <1> QED BY <1>2, <1>3, <1>4, <1>6, <1>7

\* The same of a later state, for sessions that recorded nothing meanwhile.
LEMMA SizesLater ==
  ASSUME StoreInv, NEW S \in SUBSET Sessions, NEW T \in SUBSET S,
         \A n \in T : eventCount'[n] = eventCount[n]
  PROVE  SumFunctionOnSet(SizeAtFinish', T) = Sizes(T)
  <1>1. IsFiniteSet(T) /\ T \subseteq Sessions
    BY StoreAssumption, FS_Subset
  <1>2. \A x \in T : SizeAtFinish[x] \in Nat /\ SizeAtFinish[x] = SizeAtFinish'[x]
    BY <1>1, StoreNumbers DEF SizeAtFinish
  <1> QED BY <1>1, <1>2, SumsAgree DEF Sizes

\* What stands at a place of a list is over.
LEMMA ListIsOver ==
  ASSUME StoreInv, NEW s \in Sessions
  PROVE  /\ listed[s] \in Seq(Sessions) /\ Len(listed[s]) \in Nat /\ DOMAIN listed[s] = 1..Len(listed[s])
         /\ position[s] \in Nat \ {0}
         /\ \A i \in DOMAIN listed[s] : listed[s][i] \in Sessions /\ rpc[listed[s][i]] \in Recorded
         /\ position[s] <= Len(listed[s]) => position[s] \in DOMAIN listed[s] /\ Candidate(s) \in Sessions
         /\ position[s] <= Len(listed[s]) + 1 => Passed(s) \subseteq Sessions
  <1>1. listed[s] \in Seq(Sessions) /\ position[s] \in Nat \ {0}
    BY StoreNumbers DEF StoreInv, Settled, Settles
  <1>2. Len(listed[s]) \in Nat /\ DOMAIN listed[s] = 1..Len(listed[s])
    BY <1>1
  <1>3. \A i \in DOMAIN listed[s] : listed[s][i] \in Sessions /\ rpc[listed[s][i]] \in Recorded
    BY DEF StoreInv, ListsOnlyOver, Over
  <1>4. position[s] <= Len(listed[s]) => position[s] \in DOMAIN listed[s] /\ Candidate(s) \in Sessions
    BY <1>1, <1>2, <1>3 DEF Candidate
  <1>5. position[s] <= Len(listed[s]) + 1 => \A i \in 1..position[s] - 1 : i \in DOMAIN listed[s]
    BY <1>1, <1>2
  <1> QED BY <1>1, <1>2, <1>3, <1>4, <1>5 DEF Passed

\* A list names nobody twice, and each group of a pass stands together.
LEMMA SortedGroups ==
  ASSUME StoreInv, NEW s \in Sessions, Sorted(s), rpc[s] \in Passing
  PROVE  /\ \A i, j \in DOMAIN listed[s] : i < j => listed[s][i] # listed[s][j]
         /\ \A i, j, k \in DOMAIN listed[s] :
              i < j /\ j < k /\ SameGroup(s, listed[s][i], listed[s][k]) => SameGroup(s, listed[s][j], listed[s][k])
  <1>1. \A a \in Sessions : finishedAt[a] \in Nat /\ a \in Nat /\ Project[a] \in Nat
    BY StoreNumbers
  <1>2. \A i \in DOMAIN listed[s] : listed[s][i] \in Sessions
    BY ListIsOver
  <1>3. \A i, j \in DOMAIN listed[s] : i < j => Before(s, listed[s][i], listed[s][j])
    BY DEF Sorted
  <1>4. \A a \in Sessions : ~Before(s, a, a)
    BY <1>1 DEF Before, SameGroup
  <1>5. \A i, j \in DOMAIN listed[s] : i < j => listed[s][i] # listed[s][j]
    BY <1>2, <1>3, <1>4
  <1>6. ASSUME NEW a \in Sessions, NEW b \in Sessions, NEW c \in Sessions,
               Before(s, a, b), Before(s, b, c), SameGroup(s, a, c)
        PROVE  SameGroup(s, b, c)
    BY <1>1, <1>6 DEF Before, SameGroup
  <1>7. ASSUME NEW i \in DOMAIN listed[s], NEW j \in DOMAIN listed[s], NEW k \in DOMAIN listed[s],
               i < j, j < k, SameGroup(s, listed[s][i], listed[s][k])
        PROVE  SameGroup(s, listed[s][j], listed[s][k])
    BY <1>2, <1>3, <1>6, <1>7
  <1> QED BY <1>5, <1>7

\* The index of a candidate counts those of its group that came before it.
LEMMA IndexCounts ==
  ASSUME StoreInv, NEW s \in Sessions, Sorted(s), rpc[s] \in Passing, position[s] <= Len(listed[s])
  PROVE  /\ Index(s) = Cardinality(Earlier(s, Candidate(s))) /\ Index(s) \in Nat
         /\ Index(s) = 0 <=> Earlier(s, Candidate(s)) = {}
         /\ Earlier(s, Candidate(s)) \subseteq Sessions /\ Candidate(s) \notin Passed(s)
  <1> DEFINE c == Candidate(s)
             places == {i \in 1..position[s] - 1 : SameGroup(s, listed[s][i], c)}
             named == [i \in places |-> listed[s][i]]
  <1>1. /\ position[s] \in Nat \ {0} /\ DOMAIN listed[s] = 1..Len(listed[s]) /\ Len(listed[s]) \in Nat
        /\ position[s] \in DOMAIN listed[s] /\ Passed(s) \subseteq Sessions
    <2>1. Len(listed[s]) \in Nat
      BY ListIsOver
    <2>2. position[s] \in Nat
      BY ListIsOver
    <2>3. position[s] <= Len(listed[s]) + 1
      BY <2>1, <2>2
    <2> QED BY <2>3, ListIsOver
  <1>2. \A i \in 1..position[s] - 1 : i \in DOMAIN listed[s] /\ i < position[s]
    BY <1>1
  <1>3. \A i, j \in places : named[i] = named[j] => i = j
    <2>1. \A i, j \in places : i \in DOMAIN listed[s] /\ j \in DOMAIN listed[s] /\ i \in Int /\ j \in Int
      BY <1>2
    <2>2. \A i, j \in places : i < j \/ j < i \/ i = j
      BY <2>1
    <2> QED BY <2>1, <2>2, SortedGroups
  <1>4. IsFiniteSet(places)
    <2>1. IsFiniteSet(1..position[s] - 1)
      BY <1>1, FS_Interval
    <2> QED BY <2>1, FS_Subset
  <1>5. named \in Surjection(places, Earlier(s, c)) /\ named \in Injection(places, Earlier(s, c))
    <2>1. \A n : n \in Earlier(s, c) <=> \E i \in places : named[i] = n
      BY DEF Earlier, Passed
    <2>2. named \in [places -> Earlier(s, c)]
      BY <2>1
    <2>3. named \in Surjection(places, Earlier(s, c))
      BY <2>1, <2>2 DEF Surjection
    <2>4. named \in Injection(places, Earlier(s, c))
      BY <1>3, <2>2 DEF Injection, IsInjective
    <2> QED BY <2>3, <2>4
  <1>6. IsFiniteSet(Earlier(s, c)) /\ Cardinality(Earlier(s, c)) = Cardinality(places)
    BY <1>4, <1>5, FS_Surjection
  <1>7. Index(s) = Cardinality(places)
    BY DEF Index
  <1>8. c \notin Passed(s)
    <2>1. \A i \in 1..position[s] - 1 : listed[s][i] # listed[s][position[s]]
      BY <1>1, <1>2, SortedGroups
    <2> QED BY <2>1 DEF Candidate, Passed
  <1> QED BY <1>1, <1>6, <1>7, <1>8, FS_EmptySet, FS_CardinalityType DEF Earlier

\* What a step leaves of the sessions that are over, as it is or less.
Fixed == \A n \in Sessions : rpc[n] \in Recorded =>
  eventCount'[n] = eventCount[n] /\ finishedAt'[n] = finishedAt[n] /\ (n \in Intact' => n \in Intact)

\* A pruner that a step of another does not touch stays within its limits.
LEMMA UntouchedKeeps ==
  ASSUME StoreInv, NEW s \in Sessions, Sorted(s), Within(s), Judged(s), Fixed,
         rpc'[s] = rpc[s], listed'[s] = listed[s], position'[s] = position[s], pass'[s] = pass[s],
         retained'[s] = retained[s], cutoff'[s] = cutoff[s]
  PROVE  Sorted(s)' /\ Within(s)' /\ Judged(s)'
  <1> SUFFICES ASSUME rpc[s] \in Passing PROVE Sorted(s)' /\ Within(s)' /\ Judged(s)'
    BY DEF Sorted, Within, Judged, Passing
  <1>1. /\ \A a, b : SameGroup(s, a, b)' <=> SameGroup(s, a, b)
        /\ Candidate(s)' = Candidate(s) /\ Passed(s)' = Passed(s)
        /\ MaximumCount(s)' = MaximumCount(s) /\ MaximumBytes(s)' = MaximumBytes(s)
    BY DEF SameGroup, Candidate, Passed, MaximumCount, MaximumBytes
  <1>2. \A g : Earlier(s, g)' = Earlier(s, g)
    BY <1>1 DEF Earlier
  <1>3. Index(s)' = Index(s)
    BY <1>1 DEF Index
  <1>4. RetainedBytes(s)' = RetainedBytes(s)
    BY <1>3 DEF RetainedBytes
  <1>5. position[s] <= Len(listed[s]) + 1 /\ Passed(s) \subseteq Sessions
    BY ListIsOver DEF Within
  <1>6. \A n \in Passed(s) : rpc[n] \in Recorded
    <2>1. \A i \in 1..position[s] - 1 : i \in DOMAIN listed[s]
      BY <1>5, ListIsOver
    <2> QED BY <2>1, ListIsOver DEF Passed
  <1>7. Sorted(s)'
    <2>1. \A i \in DOMAIN listed[s] : finishedAt'[listed[s][i]] = finishedAt[listed[s][i]]
      BY ListIsOver DEF Fixed
    <2>2. \A i, j \in DOMAIN listed[s] : Before(s, listed[s][i], listed[s][j])' <=> Before(s, listed[s][i], listed[s][j])
      BY <1>1, <2>1 DEF Before
    <2> QED BY <2>2 DEF Sorted
  <1>8. ASSUME NEW g
        PROVE  /\ Earlier(s, g) \subseteq Sessions
               /\ (Intact \cap Earlier(s, g))' \subseteq Intact \cap Earlier(s, g)
               /\ Sizes(Intact \cap Earlier(s, g))' <= Sizes(Intact \cap Earlier(s, g))
               /\ Cardinality(Intact \cap Earlier(s, g))' <= Cardinality(Intact \cap Earlier(s, g))
               /\ Sizes(Earlier(s, g))' = Sizes(Earlier(s, g))
               /\ Sizes(Intact \cap Earlier(s, g))' \in Nat /\ Cardinality(Intact \cap Earlier(s, g))' \in Nat
               /\ Sizes(Intact \cap Earlier(s, g)) \in Nat /\ Cardinality(Intact \cap Earlier(s, g)) \in Nat
    <2>1. Earlier(s, g) \subseteq Passed(s)
      BY DEF Earlier
    <2>2. (Intact \cap Earlier(s, g))' \subseteq Intact \cap Earlier(s, g)
      BY <1>2, <1>5, <1>6, <2>1 DEF Fixed
    <2>3. PICK left : left = (Intact \cap Earlier(s, g))'
      OBVIOUS
    <2>4. left \subseteq Intact \cap Earlier(s, g) /\ Intact \cap Earlier(s, g) \subseteq Sessions
      BY <1>5, <2>1, <2>2, <2>3
    <2>5. \A n \in Earlier(s, g) : eventCount'[n] = eventCount[n]
      BY <1>5, <1>6, <2>1 DEF Fixed
    <2>6. SumFunctionOnSet(SizeAtFinish', left) = Sizes(left)
      BY <2>4, <2>5, SizesLater
    <2>7. Sizes(Intact \cap Earlier(s, g))' = Sizes(left)
      BY <2>3, <2>6 DEF Sizes
    <2>8. SumFunctionOnSet(SizeAtFinish', Earlier(s, g)) = Sizes(Earlier(s, g))
      BY <1>5, <2>1, <2>5, SizesLater
    <2>9. Sizes(Earlier(s, g))' = Sizes(Earlier(s, g))
      BY <1>2, <2>8 DEF Sizes
    <2>10. Cardinality(Intact \cap Earlier(s, g))' = Cardinality(left)
      BY <2>3
    <2> QED BY <1>5, <2>1, <2>2, <2>4, <2>7, <2>9, <2>10, SizesCompare
  <1>9. Within(s)'
    <2>1. \A g \in Range(listed[s]) :
            Cardinality(Intact \cap Earlier(s, g))' <= MaximumCount(s) /\ Sizes(Intact \cap Earlier(s, g))' <= MaximumBytes(s)
      <3> SUFFICES ASSUME NEW g \in Range(listed[s])
                   PROVE  /\ Cardinality(Intact \cap Earlier(s, g))' <= MaximumCount(s)
                          /\ Sizes(Intact \cap Earlier(s, g))' <= MaximumBytes(s)
        OBVIOUS
      <3>1. MaximumCount(s) \in Nat /\ MaximumBytes(s) \in Nat
        BY StoreNumbers
      <3>2. /\ Cardinality(Intact \cap Earlier(s, g)) <= MaximumCount(s)
            /\ Sizes(Intact \cap Earlier(s, g)) <= MaximumBytes(s)
        BY DEF Within
      <3>3. /\ Cardinality(Intact \cap Earlier(s, g))' <= Cardinality(Intact \cap Earlier(s, g))
            /\ Sizes(Intact \cap Earlier(s, g))' <= Sizes(Intact \cap Earlier(s, g))
            /\ Sizes(Intact \cap Earlier(s, g))' \in Nat /\ Cardinality(Intact \cap Earlier(s, g))' \in Nat
            /\ Sizes(Intact \cap Earlier(s, g)) \in Nat /\ Cardinality(Intact \cap Earlier(s, g)) \in Nat
        BY <1>8
      <3> QED BY <3>1, <3>2, <3>3
    <2>2. position[s] <= Len(listed[s]) =>
            /\ Sizes(Intact \cap Earlier(s, Candidate(s)))' <= RetainedBytes(s)
            /\ RetainedBytes(s) <= Sizes(Earlier(s, Candidate(s)))'
      <3>1. PICK c : c = Candidate(s) /\ c = Candidate(s)'
        BY <1>1
      <3>2. RetainedBytes(s) \in Nat
        BY StoreNumbers DEF RetainedBytes
      <3>3. Sizes(Intact \cap Earlier(s, c))' <= Sizes(Intact \cap Earlier(s, c)) /\ Sizes(Earlier(s, c))' = Sizes(Earlier(s, c))
        BY <1>8
      <3>4. Sizes(Intact \cap Earlier(s, c))' \in Nat /\ Sizes(Intact \cap Earlier(s, c)) \in Nat
        BY <1>8
      <3> QED BY <3>1, <3>2, <3>3, <3>4 DEF Within
    <2> QED BY <1>1, <1>4, <1>5, <2>1, <2>2 DEF Within, Range
  <1>10. Judged(s)'
    <2> SUFFICES ASSUME rpc[s] = "remove" PROVE Judged(s)'
      BY DEF Judged
    <2>1. Candidate(s) \in Sessions /\ rpc[Candidate(s)] \in Recorded
      BY ListIsOver DEF StoreInv, Settled, Settles, Candidate
    <2>2. finishedAt'[Candidate(s)] = finishedAt[Candidate(s)] /\ eventCount'[Candidate(s)] = eventCount[Candidate(s)]
      BY <2>1 DEF Fixed
    <2>3. SizeAtFinish'[Candidate(s)] = SizeAtFinish[Candidate(s)]
      BY <2>1, <2>2 DEF SizeAtFinish
    <2> QED BY <1>1, <1>3, <1>4, <2>2, <2>3 DEF Judged
  <1> QED BY <1>7, <1>9, <1>10

\* A pruner that goes on to the next of its list stays within its limits, if the one it
\* leaves behind lets it.
LEMMA AdvanceKeeps ==
  ASSUME StoreInv, NEW s \in Sessions, Sorted(s), Within(s), rpc[s] \in Passing, position[s] <= Len(listed[s]),
         UNCHANGED <<manifest, log, eventCount, finishedAt>>,
         rpc'[s] \in Passing \ {"remove"}, listed'[s] = listed[s], position'[s] = position[s] + 1, pass'[s] = pass[s],
         retained'[s] \in Nat,
         LET all == Earlier(s, Candidate(s)) \cup {Candidate(s)}
         IN /\ Cardinality(Intact \cap all) <= MaximumCount(s) /\ Sizes(Intact \cap all) <= MaximumBytes(s)
            /\ Sizes(Intact \cap all) <= retained'[s] /\ retained'[s] <= Sizes(all)
  PROVE  Sorted(s)' /\ Within(s)' /\ Judged(s)'
  <1> DEFINE c == Candidate(s)
  <1>1. /\ position[s] \in DOMAIN listed[s] /\ c \in Sessions /\ Passed(s) \subseteq Sessions
        /\ position[s] \in Nat \ {0} /\ Len(listed[s]) \in Nat /\ DOMAIN listed[s] = 1..Len(listed[s])
        /\ \A i \in DOMAIN listed[s] : listed[s][i] \in Sessions
    <2>1. Len(listed[s]) \in Nat /\ position[s] \in Nat
      BY ListIsOver
    <2>2. position[s] <= Len(listed[s]) + 1
      BY <2>1
    <2> QED BY <2>2, ListIsOver
  <1>2. /\ Intact' = Intact /\ SizeAtFinish' = SizeAtFinish
        /\ \A a, b : SameGroup(s, a, b)' <=> SameGroup(s, a, b)
        /\ MaximumCount(s)' = MaximumCount(s) /\ MaximumBytes(s)' = MaximumBytes(s)
    BY DEF Intact, SizeAtFinish, SameGroup, MaximumCount, MaximumBytes
  <1>3. Passed(s)' = Passed(s) \cup {c}
    <2>1. 1..position'[s] - 1 = (1..position[s] - 1) \cup {position[s]}
      BY <1>1
    <2> QED BY <2>1 DEF Passed, Candidate
  <1>4. \A g : SameGroup(s, c, g) => Earlier(s, g) = Earlier(s, c) /\ Earlier(s, g)' = Earlier(s, c) \cup {c}
    <2>1. \A g : SameGroup(s, c, g) => \A n : SameGroup(s, n, g) <=> SameGroup(s, n, c)
      BY DEF SameGroup
    <2>2. SameGroup(s, c, c)
      BY DEF SameGroup
    <2> QED BY <1>2, <1>3, <2>1, <2>2 DEF Earlier
  <1>5. \A g : ~SameGroup(s, c, g) => Earlier(s, g)' = Earlier(s, g)
    BY <1>2, <1>3 DEF Earlier
  <1>6. Sorted(s)'
    BY DEF Sorted, Before, SameGroup, Passing
  <1>7. ASSUME NEW g \in Range(listed[s])
        PROVE  /\ Cardinality(Intact \cap Earlier(s, g))' <= MaximumCount(s)
               /\ Sizes(Intact \cap Earlier(s, g))' <= MaximumBytes(s)
    <2>1. CASE SameGroup(s, c, g)
      BY <1>2, <1>4, <2>1 DEF Sizes
    <2>2. CASE ~SameGroup(s, c, g)
      BY <1>2, <1>5, <2>2 DEF Sizes, Within
    <2> QED BY <2>1, <2>2
  <1>8. ASSUME position[s] + 1 <= Len(listed[s])
        PROVE  /\ Sizes(Intact \cap Earlier(s, Candidate(s)))' <= RetainedBytes(s)'
               /\ RetainedBytes(s)' <= Sizes(Earlier(s, Candidate(s)))'
    <2>0. PICK next \in Sessions : position[s] + 1 \in DOMAIN listed[s] /\ next = listed[s][position[s] + 1]
      BY <1>1, <1>8
    <2>1. Candidate(s)' = next
      BY <2>0 DEF Candidate
    <2> DEFINE places == {i \in 1..position[s] : SameGroup(s, listed[s][i], next)}
    <2>2. Index(s)' = Cardinality(places)
      <3>1. 1..position'[s] - 1 = 1..position[s]
        BY <1>1
      <3> QED BY <1>2, <2>1, <3>1 DEF Index
    <2>3. IsFiniteSet(places)
      <3>1. position[s] \in Int /\ 1 \in Int
        BY <1>1
      <3>2. IsFiniteSet(1..position[s])
        BY <3>1, FS_Interval
      <3> QED BY <3>2, FS_Subset
    <2>4. CASE SameGroup(s, c, next)
      <3>1. position[s] \in places
        BY <1>1, <2>4 DEF Candidate
      <3>2. Index(s)' # 0
        BY <2>2, <2>3, <3>1, FS_EmptySet
      <3>3. RetainedBytes(s)' = retained'[s]
        BY <3>2 DEF RetainedBytes
      <3> QED BY <1>2, <1>4, <2>1, <2>4, <3>3 DEF Sizes
    <2>5. CASE ~SameGroup(s, c, next)
      <3>1. \A i \in 1..position[s] : ~SameGroup(s, listed[s][i], next)
        <4> SUFFICES ASSUME NEW i \in 1..position[s], SameGroup(s, listed[s][i], next) PROVE FALSE
          OBVIOUS
        <4>1. i \in DOMAIN listed[s] /\ i < position[s] /\ position[s] < position[s] + 1
          BY <1>1, <2>5 DEF Candidate
        <4> QED BY <1>1, <2>0, <2>5, <4>1, SortedGroups DEF Candidate
      <3>2. places = {}
        BY <3>1
      <3>3. RetainedBytes(s)' = 0
        BY <2>2, <3>2, FS_EmptySet DEF RetainedBytes
      <3>4. Earlier(s, next) = {}
        <4>1. \A i \in 1..position[s] - 1 : i \in 1..position[s]
          BY <1>1
        <4> QED BY <3>1, <4>1 DEF Earlier, Passed
      <3>5. Earlier(s, next)' = {}
        BY <1>5, <2>5, <3>4
      <3>6. Sizes(Earlier(s, Candidate(s)))' = 0 /\ Sizes(Intact \cap Earlier(s, Candidate(s)))' = 0
        <4>1. Earlier(s, Candidate(s))' = {} /\ (Intact \cap Earlier(s, Candidate(s)))' = {}
          BY <2>1, <3>5
        <4> QED BY <4>1, SumOfNone DEF Sizes
      <3> QED BY <3>3, <3>6
    <2> QED BY <2>4, <2>5
  <1>9. Within(s)'
    <2>1. position'[s] <= Len(listed[s]) + 1
      BY <1>1
    <2> QED BY <1>2, <1>7, <1>8, <2>1 DEF Within, Range
  <1> QED BY <1>6, <1>9 DEF Judged, Passing

\* Whoever failed or died stays so, and what was within the limits does.
LEMMA KeepingUpKeeps ==
  ASSUME StoreInv, Fixed, GroupsKeepUp, TotalKeepsUp, Intact' \subseteq Intact,
         SomeLost => SomeLost', Untried => Untried',
         \A s \in Sessions : GroupToDo(s) => GroupToDo(s)' \/ SomeLost' \/ ProjectsAreWithin,
         \A s \in Sessions : TotalToDo(s) => TotalToDo(s)' \/ SomeLost' \/ AllAreWithin
  PROVE  GroupsKeepUp' /\ TotalKeepsUp'
  <1>1. \A n \in Intact : n \in Sessions /\ rpc[n] \in Recorded
    BY DEF Intact, StoreInv, Settled, Settles
  <1>2. \A n \in Intact' : n \in Intact /\ eventCount'[n] = eventCount[n]
    BY <1>1 DEF Fixed
  <1>3. ASSUME NEW S \in SUBSET Intact, NEW T \in SUBSET S, \A n \in T : eventCount'[n] = eventCount[n]
        PROVE  /\ Cardinality(T) <= Cardinality(S) /\ SumFunctionOnSet(SizeAtFinish', T) <= Sizes(S)
               /\ Cardinality(T) \in Nat /\ Cardinality(S) \in Nat
               /\ SumFunctionOnSet(SizeAtFinish', T) \in Nat /\ Sizes(S) \in Nat
    <2>1. S \subseteq Sessions
      BY <1>1
    <2> QED BY <1>3, <2>1, SizesLater, SizesCompare
  <1>4. MaxSessions \in Nat /\ MaxBytes \in Nat /\ MaxTotalSessions \in Nat /\ MaxTotalBytes \in Nat
    BY StoreAssumption
  <1>5. ProjectsAreWithin => ProjectsAreWithin'
    <2> SUFFICES ASSUME ProjectsAreWithin, NEW n \in Intact'
                 PROVE  Cardinality(OwnOf(n)') <= MaxSessions /\ SumFunctionOnSet(SizeAtFinish', OwnOf(n)') <= MaxBytes
      BY DEF ProjectsAreWithin, Sizes
    <2>1. PICK own : own = OwnOf(n)'
      OBVIOUS
    <2>2. own \subseteq OwnOf(n) /\ OwnOf(n) \subseteq Intact
      BY <1>2, <2>1 DEF OwnOf
    <2>3. \A o \in own : eventCount'[o] = eventCount[o]
      BY <1>2, <2>1 DEF OwnOf
    <2>4. Cardinality(OwnOf(n)) <= MaxSessions /\ Sizes(OwnOf(n)) <= MaxBytes
      BY <1>2 DEF ProjectsAreWithin
    <2>5. /\ Cardinality(own) <= Cardinality(OwnOf(n)) /\ SumFunctionOnSet(SizeAtFinish', own) <= Sizes(OwnOf(n))
          /\ Cardinality(own) \in Nat /\ Cardinality(OwnOf(n)) \in Nat
          /\ SumFunctionOnSet(SizeAtFinish', own) \in Nat /\ Sizes(OwnOf(n)) \in Nat
      BY <1>3, <2>2, <2>3
    <2>6. Cardinality(own) <= MaxSessions /\ SumFunctionOnSet(SizeAtFinish', own) <= MaxBytes
      BY <1>4, <2>4, <2>5
    <2> QED BY <2>1, <2>6
  <1>6. AllAreWithin => AllAreWithin'
    <2> SUFFICES ASSUME AllAreWithin
                 PROVE  Cardinality(Intact') <= MaxTotalSessions /\ SumFunctionOnSet(SizeAtFinish', Intact') <= MaxTotalBytes
      BY DEF AllAreWithin, Sizes
    <2>1. PICK left : left = Intact'
      OBVIOUS
    <2>2. left \subseteq Intact /\ \A o \in left : eventCount'[o] = eventCount[o]
      BY <1>2, <2>1
    <2>3. Cardinality(Intact) <= MaxTotalSessions /\ Sizes(Intact) <= MaxTotalBytes
      BY DEF AllAreWithin
    <2>4. /\ Cardinality(left) <= Cardinality(Intact) /\ SumFunctionOnSet(SizeAtFinish', left) <= Sizes(Intact)
          /\ Cardinality(left) \in Nat /\ Cardinality(Intact) \in Nat
          /\ SumFunctionOnSet(SizeAtFinish', left) \in Nat /\ Sizes(Intact) \in Nat
      BY <1>3, <2>2
    <2>5. Cardinality(left) <= MaxTotalSessions /\ SumFunctionOnSet(SizeAtFinish', left) <= MaxTotalBytes
      BY <1>4, <2>3, <2>4
    <2> QED BY <2>1, <2>5
  <1>7. GroupsKeepUp'
    BY <1>5 DEF GroupsKeepUp
  <1>8. TotalKeepsUp'
    BY <1>6 DEF TotalKeepsUp
  <1> QED BY <1>7, <1>8

\* A recorder that records, or that fails or dies before it has finished, or a tick.
LEMMA RecordingKeeps ==
  ASSUME StoreInv, PruneInv, NEW s,
         UNCHANGED <<names, listed, position, pass, retained, cutoff>>, now' \in Nat, now <= now',
         \A t \in Sessions : t # s =>
           /\ rpc'[t] = rpc[t] /\ manifest'[t] = manifest[t] /\ log'[t] = log[t] /\ eventCount'[t] = eventCount[t]
           /\ finishedAt'[t] = finishedAt[t] /\ outcome'[t] = outcome[t],
         s \in Sessions =>
           /\ rpc[s] \notin Busy /\ rpc'[s] \notin Busy /\ Stands(s)' /\ (Lost(s) => Lost(s)')
           /\ rpc[s] \in Recorded => eventCount'[s] = eventCount[s] /\ finishedAt'[s] = finishedAt[s]
           /\ s \in Intact' => s \in Intact
           /\ manifest'[s].status = "finished" /\ log'[s] = Nothing => manifest[s].status = "finished" /\ log[s] = Nothing
           /\ rpc'[s] \in {"closed", "finalize"} \/ manifest'[s].status = "finished" => finishedAt'[s] # 0
           /\ outcome'[s] = "ok" => outcome[s] = "ok"
  PROVE  PruneInv'
  <1>1. Fixed
    BY DEF Fixed, Intact
  <1>2. Intact' \subseteq Intact
    BY DEF Intact
  <1>3. \A t \in Sessions : Lost(t) => Lost(t)'
    BY DEF Lost
  <1>4. SomeLost => SomeLost'
    BY <1>3 DEF SomeLost
  <1>5. Standing'
    BY DEF PruneInv, Standing, Stands
  <1>6. Times'
    <2>1. \A t \in Sessions : cutoff[t] \in Nat /\ now \in Nat /\ MaxAge \in Nat /\ now # 0
      BY StoreNumbers DEF PruneInv, Times
    <2>0. now \in Nat /\ now # 0
      BY StoreNumbers DEF PruneInv, Times
    <2>2. \A t \in Sessions : cutoff'[t] = 0 \/ cutoff'[t] + MaxAge <= now'
      BY <2>1 DEF PruneInv, Times, Timed
    <2>3. \A t \in Sessions : \A i \in DOMAIN listed[t] : finishedAt'[listed[t][i]] # 0
      BY <1>1, ListIsOver DEF Fixed, PruneInv, Times, Timed
    <2>4. \A t \in Sessions : t # s =>
            /\ rpc[t] \in {"closed", "finalize"} \cup Busy => finishedAt[t] # 0
            /\ manifest[t].status = "finished" => finishedAt[t] # 0
      BY DEF PruneInv, Times, Timed
    <2>5. \A t \in Sessions : Timed(t)'
      BY <2>2, <2>3, <2>4 DEF Timed
    <2>6. now' # 0
      BY <2>0
    <2> QED BY <2>5, <2>6 DEF Times
  <1>7. Passes'
    <2> SUFFICES ASSUME NEW t \in Sessions PROVE Sorted(t)' /\ Within(t)' /\ Judged(t)'
      BY DEF Passes
    <2>1. CASE t # s
      BY <1>1, <2>1, UntouchedKeeps DEF PruneInv, Passes
    <2>2. CASE t = s
      BY <2>2 DEF Busy, Passing, Sorted, Within, Judged
    <2> QED BY <2>1, <2>2
  <1>8. HalvesAreOwed'
    <2> SUFFICES ASSUME NEW n \in Sessions, manifest'[n].status = "finished", log'[n] = Nothing
                 PROVE  SomeLost' \/ \E t \in Sessions : rpc'[t] = "remove" /\ Candidate(t)' = n
      BY DEF HalvesAreOwed, Nothing
    <2>1. manifest[n].status = "finished" /\ log[n] = Nothing
      OBVIOUS
    <2>2. SomeLost \/ \E t \in Sessions : rpc[t] = "remove" /\ Candidate(t) = n
      BY <2>1 DEF PruneInv, HalvesAreOwed
    <2>3. \A t \in Sessions : Candidate(t)' = Candidate(t) /\ (rpc[t] = "remove" => rpc'[t] = "remove")
      BY DEF Candidate, Busy
    <2> QED BY <1>4, <2>2, <2>3
  <1>9. Untried => Untried'
    BY DEF Untried
  <1>10. \A t \in Sessions : (GroupToDo(t) => GroupToDo(t)') /\ (TotalToDo(t) => TotalToDo(t)')
    <2>1. \A t \in Sessions : Seen(t) => Seen(t)'
      BY <1>2 DEF Seen, Range
    <2>2. \A t \in Sessions : rpc[t] \in Busy => rpc'[t] = rpc[t]
      OBVIOUS
    <2> QED BY <2>1, <2>2 DEF GroupToDo, TotalToDo
  <1>11. GroupsKeepUp' /\ TotalKeepsUp'
    BY <1>1, <1>2, <1>4, <1>9, <1>10, KeepingUpKeeps DEF PruneInv
  <1> QED BY <1>5, <1>6, <1>7, <1>8, <1>11 DEF PruneInv

\* A step of one pruner that changes nothing of the directory.
LEMMA PruningKeeps ==
  ASSUME StoreInv, PruneInv, NEW s \in Sessions, UNCHANGED <<manifest, finishedAt, log, eventCount, now>>,
         \A t \in Sessions : t # s =>
           /\ rpc'[t] = rpc[t] /\ names'[t] = names[t] /\ listed'[t] = listed[t] /\ position'[t] = position[t]
           /\ pass'[t] = pass[t] /\ retained'[t] = retained[t] /\ cutoff'[t] = cutoff[t] /\ outcome'[t] = outcome[t],
         rpc[s] \in Busy, rpc'[s] \in Busy \cup {"done", "dead"}, Stands(s)',
         cutoff'[s] = 0 \/ cutoff'[s] + MaxAge <= now, \A i \in DOMAIN listed'[s] : finishedAt[listed'[s][i]] # 0,
         Sorted(s)' /\ Within(s)' /\ Judged(s)',
         rpc[s] = "remove" => \/ SomeLost' \/ manifest[Candidate(s)].status # "finished"
                              \/ rpc'[s] = "remove" /\ Candidate(s)' = Candidate(s),
         GroupToDo(s) => GroupToDo(s)' \/ SomeLost' \/ ProjectsAreWithin,
         TotalToDo(s) => TotalToDo(s)' \/ SomeLost' \/ AllAreWithin
  PROVE  PruneInv'
  <1>1. Fixed /\ Intact' = Intact
    BY DEF Fixed, Intact
  <1>2. \A t \in Sessions : Lost(t) => Lost(t)'
    BY DEF Lost, Busy
  <1>3. SomeLost => SomeLost'
    BY <1>2 DEF SomeLost
  <1>4. Standing'
    BY DEF PruneInv, Standing, Stands
  <1>5. Times'
    <2>1. \A t \in Sessions : Timed(t)'
      BY DEF PruneInv, Times, Timed, Busy
    <2> QED BY <2>1 DEF PruneInv, Times
  <1>6. Passes'
    <2> SUFFICES ASSUME NEW t \in Sessions PROVE Sorted(t)' /\ Within(t)' /\ Judged(t)'
      BY DEF Passes
    <2>1. CASE t # s
      BY <1>1, <2>1, UntouchedKeeps DEF PruneInv, Passes
    <2> QED BY <2>1
  <1>7. HalvesAreOwed'
    <2> SUFFICES ASSUME NEW n \in Sessions, manifest[n].status = "finished", log[n] = Nothing
                 PROVE  SomeLost' \/ \E t \in Sessions : rpc'[t] = "remove" /\ Candidate(t)' = n
      BY DEF HalvesAreOwed, Nothing
    <2>1. SomeLost \/ \E t \in Sessions : rpc[t] = "remove" /\ Candidate(t) = n
      BY DEF PruneInv, HalvesAreOwed
    <2>2. \A t \in Sessions : t # s => Candidate(t)' = Candidate(t) /\ rpc'[t] = rpc[t]
      BY DEF Candidate
    <2> QED BY <1>3, <2>1, <2>2
  <1>8. Untried => Untried'
    <2>1. s \notin Past
      BY DEF PruneInv, Standing, Stands, Busy
    <2> QED BY <2>1 DEF Untried
  <1>9. ASSUME NEW t \in Sessions
        PROVE  /\ GroupToDo(t) => GroupToDo(t)' \/ SomeLost' \/ ProjectsAreWithin
               /\ TotalToDo(t) => TotalToDo(t)' \/ SomeLost' \/ AllAreWithin
    <2>1. CASE t # s
      <3>1. Seen(t) => Seen(t)'
        BY <1>1, <2>1 DEF Seen, Range
      <3> QED BY <2>1, <3>1 DEF GroupToDo, TotalToDo
    <2> QED BY <2>1
  <1>10. GroupsKeepUp' /\ TotalKeepsUp'
    BY <1>1, <1>3, <1>8, <1>9, KeepingUpKeeps DEF PruneInv
  <1> QED BY <1>4, <1>5, <1>6, <1>7, <1>10 DEF PruneInv

LEMMA ListLimits == ASSUME StoreInv, PruneInv, NEW s \in Sessions, List(s) PROVE PruneInv'
  <1>1. /\ UNCHANGED <<manifest, finishedAt, log, eventCount, now, position, pass, retained, cutoff>> /\ rpc[s] = "list"
        /\ \/ /\ rpc' = [rpc EXCEPT ![s] = "read"] /\ UNCHANGED outcome
              /\ names' = [names EXCEPT ![s] = {n \in Sessions : manifest[n] # Absent}]
              /\ listed' = [listed EXCEPT ![s] = <<>>]
           \/ /\ rpc' = [rpc EXCEPT ![s] = "done"] /\ outcome' = [outcome EXCEPT ![s] = "unlisted"]
              /\ UNCHANGED <<names, listed>>
    BY DEF List, At, Ends, Stored, Recording
  <1>2. /\ rpc \in [Sessions -> Places] /\ names \in [Sessions -> SUBSET Sessions] /\ listed \in [Sessions -> Seq(Sessions)]
        /\ outcome \in [Sessions -> {"none", "ok", "unlisted", "failed"}]
    BY StoreNumbers
  <1>3. \A t \in Sessions : t # s =>
          rpc'[t] = rpc[t] /\ names'[t] = names[t] /\ listed'[t] = listed[t] /\ outcome'[t] = outcome[t]
    BY <1>1, <1>2
  <1>4. \/ /\ rpc'[s] = "read" /\ outcome'[s] = outcome[s]
           /\ names'[s] = {n \in Sessions : manifest[n] # Absent} /\ listed'[s] = <<>>
        \/ rpc'[s] = "done" /\ outcome'[s] = "unlisted" /\ names'[s] = names[s] /\ listed'[s] = listed[s]
    BY <1>1, <1>2
  <1>5. Stands(s) /\ Timed(s)
    BY DEF PruneInv, Standing, Times
  <1>6. Stands(s)'
    BY <1>1, <1>4, <1>5 DEF Stands, Busy, Passing
  <1>7. /\ cutoff'[s] = 0 \/ cutoff'[s] + MaxAge <= now
        /\ \A i \in DOMAIN listed'[s] : finishedAt[listed'[s][i]] # 0
    BY <1>1, <1>4, <1>5 DEF Timed
  <1>8. Sorted(s)' /\ Within(s)' /\ Judged(s)'
    BY <1>4 DEF Sorted, Within, Judged, Passing
  <1>9. CASE rpc'[s] = "done"
    <2>1. Lost(s)'
      BY <1>1, <1>4, <1>5, <1>9 DEF Lost, Stands, Busy, Running
    <2>2. SomeLost'
      BY <2>1 DEF SomeLost
    <2> QED BY <1>1, <1>3, <1>6, <1>7, <1>8, <1>9, <2>2, PruningKeeps DEF Busy
  <1>10. CASE rpc'[s] = "read"
    <2>1. Seen(s)'
      BY <1>1, <1>4, <1>10 DEF Seen, Intact, Absent
    <2>2. (GroupToDo(s) => GroupToDo(s)') /\ (TotalToDo(s) => TotalToDo(s)')
      BY <1>1, <1>10, <2>1 DEF GroupToDo, TotalToDo, Busy
    <2> QED BY <1>1, <1>3, <1>6, <1>7, <1>8, <1>10, <2>2, PruningKeeps DEF Busy
  <1> QED BY <1>4, <1>9, <1>10

LEMMA ReadNameLimits == ASSUME StoreInv, PruneInv, NEW s \in Sessions, ReadName(s) PROVE PruneInv'
  <1>1. PICK n : n = Min(names[s])
    OBVIOUS
  <1>2. /\ UNCHANGED <<rpc, manifest, finishedAt, log, eventCount, now, position, pass, retained, cutoff, outcome>>
        /\ rpc[s] = "read" /\ names[s] # {} /\ names' = [names EXCEPT ![s] = names[s] \ {n}]
        /\ listed' = [listed EXCEPT ![s] = IF Prunable(n) THEN Append(listed[s], n) ELSE listed[s]]
    BY <1>1 DEF ReadName, Stored, Recording
  <1>3. /\ names \in [Sessions -> SUBSET Sessions] /\ listed \in [Sessions -> Seq(Sessions)] /\ Sessions \subseteq Nat
    BY StoreNumbers
  <1>4. n \in Sessions
    <2>1. PICK x \in names[s] : \A y \in names[s] : x <= y
      BY <1>2, <1>3, Least
    <2>2. n \in names[s]
      BY <1>1, <2>1 DEF Min
    <2> QED BY <1>3, <2>2
  <1>5. \A t \in Sessions : t # s => names'[t] = names[t] /\ listed'[t] = listed[t]
    BY <1>2, <1>3
  <1>6. names'[s] = names[s] \ {n} /\ listed'[s] = IF Prunable(n) THEN Append(listed[s], n) ELSE listed[s]
    BY <1>2, <1>3
  <1>7. Stands(s) /\ Timed(s) /\ Timed(n)
    BY <1>4 DEF PruneInv, Standing, Times
  <1>8. Stands(s)'
    BY <1>2, <1>7 DEF Stands, Busy, Passing
  <1>9. \A i \in DOMAIN listed'[s] :
          \/ listed'[s][i] = n /\ Prunable(n)
          \/ i \in DOMAIN listed[s] /\ listed'[s][i] = listed[s][i]
    <2>1. listed[s] \in Seq(Sessions)
      BY <1>3
    <2> QED BY <1>4, <1>6, <2>1
  <1>10. Range(listed[s]) \subseteq Range(listed'[s]) /\ (Prunable(n) => n \in Range(listed'[s]))
    <2>1. listed[s] \in Seq(Sessions)
      BY <1>3
    <2>2. CASE Prunable(n)
      <3>1. listed'[s] = Append(listed[s], n)
        BY <1>6, <2>2
      <3>2. /\ Len(listed[s]) \in Nat /\ DOMAIN listed[s] = 1..Len(listed[s])
            /\ DOMAIN listed'[s] = 1..Len(listed[s]) + 1 /\ listed'[s][Len(listed[s]) + 1] = n
            /\ \A i \in DOMAIN listed[s] : listed'[s][i] = listed[s][i]
        BY <1>4, <2>1, <3>1
      <3> QED BY <3>2 DEF Range
    <2> QED BY <1>6, <2>2
  <1>11. \A i \in DOMAIN listed'[s] : finishedAt[listed'[s][i]] # 0
    BY <1>7, <1>9 DEF Timed, Prunable
  <1>12. Sorted(s)' /\ Within(s)' /\ Judged(s)'
    BY <1>2 DEF Sorted, Within, Judged, Passing
  <1>13. Seen(s) => Seen(s)'
    <2>1. Intact' = Intact /\ (n \in Intact => Prunable(n))
      BY <1>2 DEF Intact, Prunable
    <2> QED BY <1>6, <1>10, <2>1 DEF Seen
  <1>14. (GroupToDo(s) => GroupToDo(s)') /\ (TotalToDo(s) => TotalToDo(s)')
    BY <1>2, <1>13 DEF GroupToDo, TotalToDo, Busy
  <1> QED BY <1>2, <1>5, <1>7, <1>8, <1>11, <1>12, <1>14, PruningKeeps DEF Busy, Timed

LEMMA SortLimits == ASSUME StoreInv, PruneInv, NEW s \in Sessions, Sort(s) PROVE PruneInv'
  <1>0. PICK order \in Newest(s, Range(listed[s])) : listed' = [listed EXCEPT ![s] = order]
    BY DEF Sort
  <1>1. /\ UNCHANGED <<manifest, finishedAt, log, eventCount, names, pass, retained, now, outcome>>
        /\ rpc[s] = "read" /\ names[s] = {} /\ rpc' = [rpc EXCEPT ![s] = "prune"]
        /\ position' = [position EXCEPT ![s] = 1]
        /\ \/ cutoff' = [cutoff EXCEPT ![s] = cutoff[s]]
           \/ ~(now <= MaxAge) /\ cutoff' = [cutoff EXCEPT ![s] = now - MaxAge]
    BY DEF Sort, At, Stored, Recording
  <1>2. /\ rpc \in [Sessions -> Places] /\ listed \in [Sessions -> Seq(Sessions)] /\ position \in [Sessions -> Nat]
        /\ cutoff \in [Sessions -> Nat] /\ now \in Nat /\ MaxAge \in Nat
    BY StoreNumbers
  <1>3. /\ \A t \in Sessions : t # s => rpc'[t] = rpc[t] /\ listed'[t] = listed[t] /\ position'[t] = position[t]
                                        /\ cutoff'[t] = cutoff[t]
        /\ rpc'[s] = "prune" /\ listed'[s] = order /\ position'[s] = 1
        /\ cutoff'[s] = cutoff[s] \/ cutoff'[s] = now - MaxAge
    BY <1>0, <1>1, <1>2
  <1>4. Stands(s) /\ Timed(s)
    BY DEF PruneInv, Standing, Times
  <1>5. Stands(s)'
    BY <1>1, <1>3, <1>4 DEF Stands, Busy, Passing
  <1>6. cutoff'[s] = 0 \/ cutoff'[s] + MaxAge <= now
    BY <1>2, <1>3, <1>4 DEF Timed
  <1>7. Range(order) = Range(listed[s]) /\ Len(order) \in Nat /\ DOMAIN order = 1..Len(order)
    <2>1. listed[s] \in Seq(Sessions) /\ order \in [1..Cardinality(Range(listed[s])) -> Range(listed[s])]
      BY <1>0, <1>2 DEF Newest
    <2>2. order \in Seq(Sessions)
      BY <2>1, Orders
    <2> QED BY <1>0, <2>2 DEF Newest
  <1>8. \A i \in DOMAIN listed'[s] : finishedAt[listed'[s][i]] # 0
    <2>1. \A n \in Range(listed[s]) : finishedAt[n] # 0
      BY <1>4 DEF Timed, Range
    <2>2. \A i \in DOMAIN order : order[i] \in Range(listed[s])
      BY <1>7 DEF Range
    <2> QED BY <1>3, <2>1, <2>2
  <1>9. Sorted(s)'
    <2>1. \A i, j \in DOMAIN order : i < j => Before(s, order[i], order[j])
      BY <1>0 DEF Newest
    <2>2. \A a, b : Before(s, a, b)' <=> Before(s, a, b)
      BY <1>1 DEF Before, SameGroup
    <2> QED BY <1>3, <2>1, <2>2 DEF Sorted
  <1>10. Passed(s)' = {}
    <2>1. 1..1 - 1 = {}
      OBVIOUS
    <2> QED BY <1>3, <2>1 DEF Passed
  <1>11. Within(s)'
    <2>1. MaximumCount(s)' \in Nat /\ MaximumBytes(s)' \in Nat
      BY StoreAssumption DEF MaximumCount, MaximumBytes
    <2>2. ASSUME NEW g PROVE Earlier(s, g)' = {} /\ Sizes(Intact \cap Earlier(s, g))' = 0 /\ Sizes(Earlier(s, g))' = 0
                             /\ Cardinality(Intact \cap Earlier(s, g))' = 0
      <3>1. Earlier(s, g)' = {} /\ (Intact \cap Earlier(s, g))' = {}
        BY <1>10 DEF Earlier
      <3> QED BY <3>1, SumOfNone, FS_EmptySet DEF Sizes
    <2>3. Index(s)' = 0
      <3>1. {i \in 1..position'[s] - 1 : SameGroup(s, listed[s][i], Candidate(s))'} = {}
        BY <1>3
      <3> QED BY <1>3, <3>1, FS_EmptySet DEF Index
    <2>4. RetainedBytes(s)' = 0
      BY <2>3 DEF RetainedBytes
    <2>5. PICK c : c = Candidate(s)'
      OBVIOUS
    <2>6. Sizes(Intact \cap Earlier(s, Candidate(s)))' = 0 /\ Sizes(Earlier(s, Candidate(s)))' = 0
      <3>1. Earlier(s, Candidate(s))' = {} /\ (Intact \cap Earlier(s, Candidate(s)))' = {}
        BY <1>10 DEF Earlier
      <3> QED BY <3>1, SumOfNone DEF Sizes
    <2>7. \A g : Cardinality(Intact \cap Earlier(s, g))' <= MaximumCount(s)' /\ Sizes(Intact \cap Earlier(s, g))' <= MaximumBytes(s)'
      BY <2>1, <2>2
    <2>8. position'[s] <= Len(listed'[s]) + 1
      BY <1>3, <1>7
    <2> QED BY <2>4, <2>6, <2>7, <2>8 DEF Within
  <1>12. Judged(s)'
    BY <1>3 DEF Judged
  <1>13. Seen(s) => Seen(s)'
    BY <1>1, <1>3, <1>7 DEF Seen, Intact
  <1>14. (GroupToDo(s) => GroupToDo(s)') /\ (TotalToDo(s) => TotalToDo(s)')
    BY <1>1, <1>3, <1>13 DEF GroupToDo, TotalToDo, Busy
  <1> QED BY <1>1, <1>3, <1>5, <1>6, <1>8, <1>9, <1>11, <1>12, <1>14, PruningKeeps DEF Busy

\* What is there of a session that is over has the size it had when it finished, and
\* never more.
LEMMA BytesAtFinish ==
  ASSUME StoreInv, PruneInv, NEW n \in Sessions
  PROVE  /\ Bytes(n) \in Nat /\ Bytes(n) <= SizeAtFinish[n] /\ (n \in Intact => Bytes(n) = SizeAtFinish[n])
  <1>1. log[n] \in Nat /\ eventCount[n] \in Nat /\ pending[n] \in Nat
    BY StoreNumbers
  <1>2. Counts(n) /\ Stands(n) /\ Complete(n)
    BY DEF StoreInv, Counted, FinishedIsComplete, Complete, PruneInv, Standing
  <1>3. SizeAtFinish[n] = eventCount[n] + 1
    BY DEF SizeAtFinish
  <1> QED BY <1>1, <1>2, <1>3 DEF Bytes, Counts, Stands, Complete, Intact, Absent, Nothing

LEMMA PruneLimits == ASSUME StoreInv, PruneInv, NEW s \in Sessions, Prune(s) PROVE PruneInv'
  <1> DEFINE c == Candidate(s)
  <1>0. rpc[s] = "prune" /\ position[s] <= Len(listed[s])
    BY DEF Prune
  <1>1. /\ Sorted(s) /\ Within(s) /\ Stands(s) /\ Timed(s) /\ c \in Sessions /\ rpc[s] \in Passing
        /\ c \in Range(listed[s]) /\ position[s] \in Nat
    <2>1. position[s] \in DOMAIN listed[s] /\ position[s] \in Nat /\ c \in Sessions
      BY <1>0, ListIsOver
    <2> QED BY <1>0, <2>1 DEF PruneInv, Passes, Standing, Times, Passing, Candidate, Range
  <1>2. RetainedBytes(s) \in Nat /\ Bytes(c) \in Nat /\ MaximumCount(s) \in Nat /\ MaximumBytes(s) \in Nat
    BY <1>1, StoreNumbers, BytesAtFinish DEF RetainedBytes
  <1>3. /\ UNCHANGED <<manifest, finishedAt, log, eventCount, names, listed, pass, cutoff, now, outcome>>
        /\ \/ /\ Exceeds(s) /\ rpc' = [rpc EXCEPT ![s] = "remove"] /\ UNCHANGED position
              /\ retained' = [retained EXCEPT ![s] = RetainedBytes(s)]
           \/ /\ ~Exceeds(s) /\ position' = [position EXCEPT ![s] = position[s] + 1] /\ UNCHANGED rpc
              /\ retained' = [retained EXCEPT ![s] = RetainedBytes(s) + Bytes(c)]
    BY DEF Prune, At, Stored, Recording
  <1>4. rpc \in [Sessions -> Places] /\ position \in [Sessions -> Nat] /\ retained \in [Sessions -> Nat]
    BY StoreNumbers
  <1>5. /\ \A t \in Sessions : t # s => rpc'[t] = rpc[t] /\ position'[t] = position[t] /\ retained'[t] = retained[t]
        /\ \/ Exceeds(s) /\ rpc'[s] = "remove" /\ position'[s] = position[s] /\ retained'[s] = RetainedBytes(s)
           \/ ~Exceeds(s) /\ rpc'[s] = "prune" /\ position'[s] = position[s] + 1 /\ retained'[s] = RetainedBytes(s) + Bytes(c)
    BY <1>0, <1>3, <1>4
  <1>6. Stands(s)'
    BY <1>0, <1>1, <1>3, <1>5 DEF Stands, Busy, Passing
  <1>7. /\ cutoff'[s] = 0 \/ cutoff'[s] + MaxAge <= now
        /\ \A i \in DOMAIN listed'[s] : finishedAt[listed'[s][i]] # 0
    BY <1>1, <1>3 DEF Timed
  <1>8. Seen(s) => Seen(s)'
    BY <1>3 DEF Seen, Intact
  <1>9. (GroupToDo(s) => GroupToDo(s)') /\ (TotalToDo(s) => TotalToDo(s)')
    BY <1>0, <1>3, <1>5, <1>8 DEF GroupToDo, TotalToDo, Busy
  <1>10. Sorted(s)' /\ Within(s)' /\ Judged(s)'
    <2>1. CASE Exceeds(s)
      <3>1. /\ rpc'[s] = "remove" /\ position'[s] = position[s] /\ retained'[s] = RetainedBytes(s)
            /\ UNCHANGED <<manifest, finishedAt, log, eventCount, listed, pass, cutoff>>
        BY <1>3, <1>5, <2>1
      <3>2. /\ Intact' = Intact /\ SizeAtFinish' = SizeAtFinish /\ Candidate(s)' = c
            /\ \A a, b : SameGroup(s, a, b)' <=> SameGroup(s, a, b)
            /\ Passed(s)' = Passed(s) /\ MaximumCount(s)' = MaximumCount(s) /\ MaximumBytes(s)' = MaximumBytes(s)
        BY <3>1 DEF Intact, SizeAtFinish, Candidate, SameGroup, Passed, MaximumCount, MaximumBytes
      <3>3. \A g : Earlier(s, g)' = Earlier(s, g)
        BY <3>2 DEF Earlier
      <3>4. Index(s)' = Index(s)
        BY <3>1, <3>2 DEF Index
      <3>5. RetainedBytes(s)' = RetainedBytes(s)
        BY <3>1, <3>4 DEF RetainedBytes
      <3>6. Sorted(s)'
        BY <1>1, <3>1, <3>2 DEF Sorted, Before
      <3>7. \A g : Sizes(Intact \cap Earlier(s, g))' = Sizes(Intact \cap Earlier(s, g)) /\ Sizes(Earlier(s, g))' = Sizes(Earlier(s, g))
                   /\ Cardinality(Intact \cap Earlier(s, g))' = Cardinality(Intact \cap Earlier(s, g))
        BY <3>2, <3>3 DEF Sizes
      <3>8. Within(s)'
        <4>1. Earlier(s, Candidate(s))' = Earlier(s, c)
          BY <3>2 DEF Earlier
        <4>2. /\ Sizes(Intact \cap Earlier(s, Candidate(s)))' = Sizes(Intact \cap Earlier(s, c))
              /\ Sizes(Earlier(s, Candidate(s)))' = Sizes(Earlier(s, c))
          BY <3>2, <4>1 DEF Sizes
        <4> QED BY <1>1, <3>1, <3>2, <3>5, <3>7, <4>2 DEF Within
      <3>9. Judged(s)'
        <4>1. SizeAtFinish[c] \in Nat /\ Bytes(c) <= SizeAtFinish[c]
          <5>1. eventCount[c] \in Nat
            BY <1>1, StoreNumbers
          <5>2. SizeAtFinish[c] = eventCount[c] + 1
            BY <1>1 DEF SizeAtFinish
          <5> QED BY <1>1, <5>1, <5>2, BytesAtFinish
        <4>2. RetainedBytes(s) + Bytes(c) > MaximumBytes(s) => RetainedBytes(s) + SizeAtFinish[c] > MaximumBytes(s)
          BY <1>2, <4>1
        <4> QED BY <2>1, <3>1, <3>2, <3>4, <3>5, <4>2 DEF Judged, Exceeds
      <3> QED BY <3>6, <3>8, <3>9
    <2>2. CASE ~Exceeds(s)
      <3>1. rpc'[s] = "prune" /\ position'[s] = position[s] + 1 /\ retained'[s] = RetainedBytes(s) + Bytes(c)
        BY <1>5, <2>2
      <3> DEFINE own == Earlier(s, c)
      <3>2. /\ own \subseteq Sessions /\ c \notin own /\ Index(s) = Cardinality(own) /\ Index(s) \in Nat
        BY <1>0, <1>1, IndexCounts DEF Earlier
      <3>3. Index(s) + 1 <= MaximumCount(s) /\ RetainedBytes(s) + Bytes(c) <= MaximumBytes(s)
        BY <1>2, <2>2, <3>2 DEF Exceeds
      <3>4. Sizes(Intact \cap own) <= RetainedBytes(s) /\ RetainedBytes(s) <= Sizes(own)
        BY <1>0, <1>1 DEF Within
      <3> HIDE DEF own, c
      <3>5. Cardinality(Intact \cap (own \cup {c})) <= MaximumCount(s)
        <4>1. Intact \cap (own \cup {c}) \subseteq own \cup {c} /\ own \cup {c} \subseteq Sessions
          BY <1>1, <3>2
        <4>2. Cardinality(own \cup {c}) \in Nat /\ Cardinality(own \cup {c}) <= Index(s) + 1
          BY <1>1, <3>2, SizesAdd
        <4>3. /\ Cardinality(Intact \cap (own \cup {c})) \in Nat
              /\ Cardinality(Intact \cap (own \cup {c})) <= Cardinality(own \cup {c})
          BY <4>1, SizesCompare
        <4> QED BY <1>2, <3>2, <3>3, <4>2, <4>3
      <3>6. Sizes(Intact \cap (own \cup {c})) <= RetainedBytes(s) + Bytes(c)
        <4>1. Intact \cap own \subseteq Sessions /\ Sizes(Intact \cap own) \in Nat
          BY <1>1, <3>2, SizesAdd
        <4>2. CASE c \in Intact
          <5>1. Intact \cap (own \cup {c}) = (Intact \cap own) \cup {c}
            BY <4>2
          <5>2. /\ SizeAtFinish[c] \in Nat
                /\ c \notin Intact \cap own => Sizes((Intact \cap own) \cup {c}) = SizeAtFinish[c] + Sizes(Intact \cap own)
            BY <1>1, <4>1, SizesAdd
          <5>3. Bytes(c) = SizeAtFinish[c]
            BY <1>1, <4>2, BytesAtFinish
          <5> QED BY <1>2, <3>2, <3>4, <4>1, <5>1, <5>2, <5>3
        <4>3. CASE c \notin Intact
          <5>1. Intact \cap (own \cup {c}) = Intact \cap own
            BY <4>3
          <5>2. Sizes(Intact \cap (own \cup {c})) = Sizes(Intact \cap own)
            BY <5>1
          <5>3. Sizes(Intact \cap own) <= RetainedBytes(s) + Bytes(c)
            BY <1>2, <3>4, <4>1
          <5> QED BY <5>2, <5>3
        <4> QED BY <4>2, <4>3
      <3>7. RetainedBytes(s) + Bytes(c) <= Sizes(own \cup {c})
        <4>1. Sizes(own) \in Nat /\ SizeAtFinish[c] \in Nat /\ Sizes(own \cup {c}) = SizeAtFinish[c] + Sizes(own)
          BY <1>1, <3>2, SizesAdd
        <4>2. Bytes(c) <= SizeAtFinish[c]
          BY <1>1, BytesAtFinish
        <4> QED BY <1>2, <3>4, <4>1, <4>2
      <3>8. Sizes(Intact \cap (own \cup {c})) <= MaximumBytes(s)
        <4>1. Sizes(Intact \cap (own \cup {c})) \in Nat
          <5>1. Intact \cap (own \cup {c}) \subseteq Sessions
            BY <1>1, <3>2
          <5> QED BY <5>1, SizesCompare
        <4> QED BY <1>2, <3>3, <3>6, <4>1
      <3>9. retained'[s] \in Nat
        BY <1>2, <3>1
      <3> QED BY <1>0, <1>1, <1>3, <3>1, <3>5, <3>6, <3>7, <3>8, <3>9, AdvanceKeeps DEF Passing, own, c
    <2> QED BY <2>1, <2>2
  <1> QED BY <1>0, <1>3, <1>5, <1>6, <1>7, <1>9, <1>10, PruningKeeps DEF Busy

\* What fails or dies in its pruning leaves it to others.
LEMMA EndingLimits ==
  ASSUME StoreInv, PruneInv, NEW s \in Sessions, rpc[s] \in Busy, RemovalFails(s) \/ RecorderDies(s)
  PROVE  PruneInv'
  <1>1. /\ UNCHANGED <<manifest, finishedAt, log, eventCount, names, listed, position, pass, retained, cutoff, now>>
        /\ \/ rpc' = [rpc EXCEPT ![s] = "done"] /\ outcome' = [outcome EXCEPT ![s] = "failed"]
           \/ rpc' = [rpc EXCEPT ![s] = "dead"] /\ UNCHANGED outcome
    BY DEF RemovalFails, RecorderDies, At, Ends, Stored, Recording, Pruning
  <1>2. rpc \in [Sessions -> Places] /\ outcome \in [Sessions -> {"none", "ok", "unlisted", "failed"}]
    BY StoreNumbers
  <1>3. /\ \A t \in Sessions : t # s => rpc'[t] = rpc[t] /\ outcome'[t] = outcome[t]
        /\ \/ rpc'[s] = "done" /\ outcome'[s] = "failed"
           \/ rpc'[s] = "dead" /\ outcome'[s] = outcome[s]
    BY <1>1, <1>2
  <1>4. Stands(s) /\ Timed(s)
    BY DEF PruneInv, Standing, Times
  <1>5. Lost(s)'
    BY <1>1, <1>3, <1>4 DEF Lost, Stands, Busy, Running
  <1>6. SomeLost'
    BY <1>5 DEF SomeLost
  <1>7. Stands(s)' /\ Sorted(s)' /\ Within(s)' /\ Judged(s)'
    BY <1>1, <1>3, <1>4 DEF Stands, Busy, Passing, Sorted, Within, Judged
  <1>8. /\ cutoff'[s] = 0 \/ cutoff'[s] + MaxAge <= now
        /\ \A i \in DOMAIN listed'[s] : finishedAt[listed'[s][i]] # 0
    BY <1>1, <1>4 DEF Timed
  <1> QED BY <1>1, <1>3, <1>6, <1>7, <1>8, PruningKeeps

LEMMA RemovedLimits == ASSUME StoreInv, PruneInv, NEW s \in Sessions, Removed(s) PROVE PruneInv'
  <1> DEFINE c == Candidate(s)
             own == Earlier(s, c)
  <1>1. /\ UNCHANGED <<manifest, finishedAt, log, eventCount, names, listed, pass, retained, cutoff, now, outcome>>
        /\ rpc[s] = "remove" /\ manifest[c] = Absent /\ rpc' = [rpc EXCEPT ![s] = "prune"]
        /\ position' = [position EXCEPT ![s] = position[s] + 1]
    BY DEF Removed, At, Stored, Recording
  <1>2. rpc \in [Sessions -> Places] /\ position \in [Sessions -> Nat] /\ retained \in [Sessions -> Nat]
    BY StoreNumbers
  <1>3. /\ \A t \in Sessions : t # s => rpc'[t] = rpc[t] /\ position'[t] = position[t]
        /\ rpc'[s] = "prune" /\ position'[s] = position[s] + 1
    BY <1>1, <1>2
  <1>4. /\ Sorted(s) /\ Within(s) /\ Judged(s) /\ Stands(s) /\ Timed(s) /\ rpc[s] \in Passing
        /\ position[s] <= Len(listed[s]) /\ c \in Sessions /\ c \in Range(listed[s])
    <2>1. position[s] <= Len(listed[s])
      BY <1>1 DEF StoreInv, Settled, Settles
    <2>2. position[s] \in DOMAIN listed[s] /\ c \in Sessions
      BY <2>1, ListIsOver
    <2> QED BY <1>1, <2>1, <2>2 DEF PruneInv, Passes, Standing, Times, Passing, Candidate, Range
  <1>5. Stands(s)'
    BY <1>1, <1>3, <1>4 DEF Stands, Busy, Passing
  <1>6. /\ cutoff'[s] = 0 \/ cutoff'[s] + MaxAge <= now
        /\ \A i \in DOMAIN listed'[s] : finishedAt[listed'[s][i]] # 0
    BY <1>1, <1>4 DEF Timed
  <1>7. Seen(s) => Seen(s)'
    BY <1>1 DEF Seen, Intact
  <1>8. (GroupToDo(s) => GroupToDo(s)') /\ (TotalToDo(s) => TotalToDo(s)')
    BY <1>1, <1>3, <1>7 DEF GroupToDo, TotalToDo, Busy
  <1>9. own \subseteq Sessions /\ c \notin own
    BY <1>4, IndexCounts DEF Earlier
  <1>10. Intact \cap (own \cup {c}) = Intact \cap own
    BY <1>1 DEF Intact, Absent
  <1>11. /\ Cardinality(Intact \cap own) <= MaximumCount(s) /\ Sizes(Intact \cap own) <= MaximumBytes(s)
         /\ Sizes(Intact \cap own) <= retained[s] /\ retained[s] <= Sizes(own)
    BY <1>1, <1>4 DEF Within, Judged
  <1>12. retained[s] <= Sizes(own \cup {c}) /\ retained[s] \in Nat
    <2>1. own \subseteq own \cup {c} /\ own \cup {c} \subseteq Sessions
      BY <1>4, <1>9
    <2>2. Sizes(own) \in Nat /\ Sizes(own \cup {c}) \in Nat /\ Sizes(own) <= Sizes(own \cup {c})
      BY <2>1, SizesCompare
    <2>3. retained[s] \in Nat
      BY <1>2
    <2> HIDE DEF own, c
    <2> QED BY <1>11, <2>2, <2>3
  <1>13. /\ Cardinality(Intact \cap (own \cup {c})) <= MaximumCount(s) /\ Sizes(Intact \cap (own \cup {c})) <= MaximumBytes(s)
         /\ Sizes(Intact \cap (own \cup {c})) <= retained'[s] /\ retained'[s] <= Sizes(own \cup {c})
         /\ retained'[s] \in Nat
    <2> HIDE DEF own, c
    <2> QED BY <1>1, <1>10, <1>11, <1>12
  <1>14. Sorted(s)' /\ Within(s)' /\ Judged(s)'
    BY <1>1, <1>3, <1>4, <1>13, AdvanceKeeps DEF Passing
  <1>15. manifest[c].status # "finished"
    BY <1>1 DEF Absent
  <1> QED BY <1>1, <1>3, <1>5, <1>6, <1>8, <1>14, <1>15, PruningKeeps DEF Busy

\* At the end of a pass, what its list held of what is there is within its limits.
LEMMA PrunedLimits == ASSUME StoreInv, PruneInv, NEW s \in Sessions, Pruned(s) PROVE PruneInv'
  <1>1. /\ UNCHANGED <<manifest, finishedAt, log, eventCount, names, listed, position, retained, cutoff, now>>
        /\ rpc[s] = "prune" /\ position[s] > Len(listed[s])
        /\ \/ /\ pass[s] = "group" /\ rpc' = [rpc EXCEPT ![s] = "list"] /\ pass' = [pass EXCEPT ![s] = "total"]
              /\ UNCHANGED outcome
           \/ /\ pass[s] = "total" /\ rpc' = [rpc EXCEPT ![s] = "done"] /\ UNCHANGED pass
              /\ outcome' = [outcome EXCEPT ![s] = "ok"]
    <2>1. pass[s] \in {"group", "total"}
      BY StoreNumbers
    <2> QED BY <2>1 DEF Pruned, At, Ends, Stored, Recording
  <1>2. /\ rpc \in [Sessions -> Places] /\ pass \in [Sessions -> {"group", "total"}]
        /\ outcome \in [Sessions -> {"none", "ok", "unlisted", "failed"}]
    BY StoreNumbers
  <1>3. /\ \A t \in Sessions : t # s => rpc'[t] = rpc[t] /\ pass'[t] = pass[t] /\ outcome'[t] = outcome[t]
        /\ \/ pass[s] = "group" /\ rpc'[s] = "list" /\ pass'[s] = "total" /\ outcome'[s] = outcome[s]
           \/ pass[s] = "total" /\ rpc'[s] = "done" /\ pass'[s] = pass[s] /\ outcome'[s] = "ok"
    BY <1>1, <1>2
  <1>4. Stands(s) /\ Timed(s) /\ Within(s) /\ rpc[s] \in Passing
    BY <1>1 DEF PruneInv, Standing, Times, Passes, Passing
  <1>5. Stands(s)' /\ Sorted(s)' /\ Within(s)' /\ Judged(s)'
    BY <1>1, <1>3, <1>4 DEF Stands, Busy, Passing, Sorted, Within, Judged
  <1>6. /\ cutoff'[s] = 0 \/ cutoff'[s] + MaxAge <= now
        /\ \A i \in DOMAIN listed'[s] : finishedAt[listed'[s][i]] # 0
    BY <1>1, <1>4 DEF Timed
  <1>7. Seen(s) => Intact \subseteq Passed(s) /\ Intact \subseteq Range(listed[s])
    <2>1. names[s] = {}
      BY <1>4 DEF Stands
    <2>2. Range(listed[s]) \subseteq Passed(s)
      <3>1. DOMAIN listed[s] = 1..Len(listed[s]) /\ Len(listed[s]) \in Nat /\ position[s] \in Nat
        BY ListIsOver
      <3>2. \A i \in DOMAIN listed[s] : i \in 1..position[s] - 1
        BY <1>1, <3>1
      <3> QED BY <3>2 DEF Range, Passed
    <2> QED BY <2>1, <2>2 DEF Seen
  <1>8. GroupToDo(s) => ProjectsAreWithin
    <2> SUFFICES ASSUME GroupToDo(s), NEW n \in Intact
                 PROVE  Cardinality(OwnOf(n)) <= MaxSessions /\ Sizes(OwnOf(n)) <= MaxBytes
      BY DEF ProjectsAreWithin
    <2>1. pass[s] = "group" /\ Seen(s)
      BY <1>1 DEF GroupToDo
    <2>2. Intact \cap Earlier(s, n) = OwnOf(n)
      BY <1>7, <2>1 DEF Earlier, OwnOf, SameGroup
    <2>3. n \in Range(listed[s]) /\ MaximumCount(s) = MaxSessions /\ MaximumBytes(s) = MaxBytes
      BY <1>7, <2>1 DEF MaximumCount, MaximumBytes
    <2>4. Cardinality(Intact \cap Earlier(s, n)) <= MaximumCount(s) /\ Sizes(Intact \cap Earlier(s, n)) <= MaximumBytes(s)
      BY <1>4, <2>3 DEF Within
    <2> QED BY <2>2, <2>3, <2>4
  <1>9. TotalToDo(s) /\ pass[s] = "total" => AllAreWithin
    <2> SUFFICES ASSUME TotalToDo(s), pass[s] = "total"
                 PROVE  Cardinality(Intact) <= MaxTotalSessions /\ Sizes(Intact) <= MaxTotalBytes
      BY DEF AllAreWithin
    <2>1. Seen(s)
      BY <1>1 DEF TotalToDo
    <2>2. \A n : Intact \cap Earlier(s, n) = Intact
      BY <1>7, <2>1 DEF Earlier, SameGroup
    <2>3. MaximumCount(s) = MaxTotalSessions /\ MaximumBytes(s) = MaxTotalBytes
      BY DEF MaximumCount, MaximumBytes
    <2>4. CASE Intact = {}
      BY <2>4, SumOfNone, FS_EmptySet, StoreAssumption DEF Sizes
    <2>5. CASE Intact # {}
      <3>1. PICK n \in Range(listed[s]) : TRUE
        BY <1>7, <2>1, <2>5
      <3>2. Cardinality(Intact \cap Earlier(s, n)) <= MaximumCount(s) /\ Sizes(Intact \cap Earlier(s, n)) <= MaximumBytes(s)
        BY <1>4 DEF Within
      <3> QED BY <2>2, <2>3, <3>2
    <2> QED BY <2>4, <2>5
  <1>10. TotalToDo(s) => TotalToDo(s)' \/ AllAreWithin
    BY <1>2, <1>3, <1>9 DEF TotalToDo, Busy
  <1> QED BY <1>1, <1>3, <1>5, <1>6, <1>8, <1>10, PruningKeeps DEF Busy

\* A recorder that creates its files, records, closes, or ends before it has finished.
LEMMA RecorderLimits ==
  ASSUME StoreInv, PruneInv, NEW s \in Sessions,
         \/ CreateLog(s) \/ CreateManifest(s) \/ Record(s) \/ Append1(s) \/ Close(s) \/ AwaitAppends(s)
         \/ (RecorderDies(s) /\ rpc[s] \notin Busy)
  PROVE  PruneInv'
  <1>1. /\ rpc \in [Sessions -> Places] /\ outcome \in [Sessions -> {"none", "ok", "unlisted", "failed"}]
        /\ log \in [Sessions -> Nat] /\ eventCount \in [Sessions -> Nat] /\ pending \in [Sessions -> Nat]
        /\ finishedAt \in [Sessions -> Nat] /\ now \in Nat
        /\ manifest \in [Sessions -> [status : {"absent", "running", "finished"}, count : 0..MaxEvents]]
    BY StoreNumbers
  <1>2. Counts(s) /\ Settles(s) /\ Stands(s) /\ Timed(s) /\ now # 0
    BY DEF StoreInv, Counted, Settled, PruneInv, Standing, Times
  <1>3. CASE CreateLog(s)
    <2>1. /\ UNCHANGED <<manifest, finishedAt, eventCount, names, listed, position, pass, retained, cutoff, now>>
          /\ rpc[s] = "idle"
          /\ \/ rpc' = [rpc EXCEPT ![s] = "manifest"] /\ log' = [log EXCEPT ![s] = 1] /\ UNCHANGED outcome
             \/ /\ rpc' = [rpc EXCEPT ![s] = "done"] /\ outcome' = [outcome EXCEPT ![s] = "failed"] /\ UNCHANGED log
      BY <1>3 DEF CreateLog, At, Ends, Recording, Pruning
    <2>2. /\ \A t \in Sessions : t # s => rpc'[t] = rpc[t] /\ log'[t] = log[t] /\ outcome'[t] = outcome[t]
          /\ \/ rpc'[s] = "manifest" /\ outcome'[s] = outcome[s]
             \/ rpc'[s] = "done" /\ outcome'[s] = "failed"
      BY <1>1, <2>1
    <2>3. manifest[s].status # "finished" /\ Stands(s)'
      BY <1>2, <2>1, <2>2 DEF Settles, Stands, Recorded, Absent, Busy, Passing
    <2> QED BY <1>1, <2>1, <2>2, <2>3, RecordingKeeps DEF Intact, Lost, Busy
  <1>4. CASE CreateManifest(s)
    <2>1. /\ UNCHANGED <<finishedAt, eventCount, names, listed, position, pass, retained, cutoff, now>>
          /\ rpc[s] = "manifest"
          /\ \/ /\ rpc' = [rpc EXCEPT ![s] = "recording"] /\ manifest' = [manifest EXCEPT ![s] = Running]
                /\ UNCHANGED <<log, outcome>>
             \/ /\ rpc' = [rpc EXCEPT ![s] = "done"] /\ outcome' = [outcome EXCEPT ![s] = "failed"]
                /\ log' = [log EXCEPT ![s] = Nothing] /\ UNCHANGED manifest
      BY <1>4 DEF CreateManifest, At, Ends, Recording, Pruning
    <2>2. /\ \A t \in Sessions : t # s => rpc'[t] = rpc[t] /\ log'[t] = log[t] /\ outcome'[t] = outcome[t]
                                            /\ manifest'[t] = manifest[t]
          /\ \/ rpc'[s] = "recording" /\ outcome'[s] = outcome[s] /\ manifest'[s] = Running
             \/ rpc'[s] = "done" /\ outcome'[s] = "failed" /\ manifest'[s] = manifest[s]
      BY <1>1, <2>1
    <2>3. manifest[s].status # "finished" /\ manifest'[s].status # "finished"
      BY <1>2, <2>1, <2>2 DEF Settles, Recorded, Running
    <2>4. Stands(s)'
      BY <1>2, <2>1, <2>2, <2>3 DEF Stands, Busy, Passing
    <2> QED BY <1>1, <2>1, <2>2, <2>3, <2>4, RecordingKeeps DEF Intact, Lost, Busy
  <1>5. CASE Record(s)
    <2>1. /\ UNCHANGED <<rpc, manifest, log, finishedAt, names, listed, position, pass, retained, cutoff, now, outcome>>
          /\ rpc[s] = "recording" /\ eventCount' = [eventCount EXCEPT ![s] = eventCount[s] + 1]
      BY <1>5 DEF Record, Pruning
    <2>2. \A t \in Sessions : t # s => eventCount'[t] = eventCount[t]
      BY <1>1, <2>1
    <2>3. manifest[s].status # "finished" /\ Stands(s)'
      BY <1>2, <2>1 DEF Settles, Stands, Recorded, Busy, Passing
    <2> QED BY <1>1, <2>1, <2>2, <2>3, RecordingKeeps DEF Intact, Lost, Busy, Recorded
  <1>6. CASE Append1(s)
    <2>1. /\ UNCHANGED <<rpc, manifest, finishedAt, eventCount, names, listed, position, pass, retained, cutoff, now, outcome>>
          /\ rpc[s] # "dead" /\ pending[s] > 0
          /\ UNCHANGED log \/ log' = [log EXCEPT ![s] = log[s] + 1]
      BY <1>6 DEF Append1, Pruning
    <2>2. pending[s] # 0 /\ \A t \in Sessions : t # s => log'[t] = log[t]
      BY <1>1, <2>1
    <2>3. rpc[s] \in {"recording", "closed"} /\ manifest[s].status # "finished" /\ Stands(s)'
      BY <1>2, <2>1, <2>2 DEF Counts, Settles, Stands
    <2> QED BY <1>1, <1>2, <2>1, <2>2, <2>3, RecordingKeeps DEF Intact, Lost, Busy, Recorded, Timed
  <1>7. CASE Close(s)
    <2>1. /\ UNCHANGED <<manifest, log, eventCount, names, listed, position, pass, retained, cutoff, outcome>>
          /\ rpc[s] = "recording" /\ rpc' = [rpc EXCEPT ![s] = "closed"]
          /\ finishedAt' = [finishedAt EXCEPT ![s] = now] /\ now' = now + 1
      BY <1>7 DEF Close, At, Recording, Pruning
    <2>2. /\ \A t \in Sessions : t # s => rpc'[t] = rpc[t] /\ finishedAt'[t] = finishedAt[t]
          /\ rpc'[s] = "closed" /\ finishedAt'[s] = now /\ now' \in Nat /\ now <= now'
      BY <1>1, <2>1
    <2>3. manifest[s].status # "finished" /\ Stands(s)'
      BY <1>2, <2>1, <2>2 DEF Settles, Stands, Recorded, Busy, Passing
    <2> QED BY <1>2, <2>1, <2>2, <2>3, RecordingKeeps DEF Intact, Lost, Busy, Recorded
  <1>8. CASE AwaitAppends(s) \/ (RecorderDies(s) /\ rpc[s] \notin Busy)
    <2>1. /\ UNCHANGED <<manifest, log, finishedAt, eventCount, names, listed, position, pass, retained, cutoff, now>>
          /\ \/ /\ rpc[s] = "closed" /\ rpc' = [rpc EXCEPT ![s] = "done"] /\ outcome' = [outcome EXCEPT ![s] = "failed"]
             \/ rpc[s] = "closed" /\ rpc' = [rpc EXCEPT ![s] = "finalize"] /\ UNCHANGED outcome
             \/ /\ rpc[s] \notin {"idle", "done", "dead"} \cup Busy
                /\ rpc' = [rpc EXCEPT ![s] = "dead"] /\ UNCHANGED outcome
      BY <1>8 DEF AwaitAppends, RecorderDies, At, Ends, Stored, Recording, Pruning
    <2>2. /\ \A t \in Sessions : t # s => rpc'[t] = rpc[t] /\ outcome'[t] = outcome[t]
          /\ \/ rpc[s] = "closed" /\ rpc'[s] = "done" /\ outcome'[s] = "failed"
             \/ rpc[s] = "closed" /\ rpc'[s] = "finalize" /\ outcome'[s] = outcome[s]
             \/ rpc[s] \notin {"idle", "done", "dead"} \cup Busy /\ rpc'[s] = "dead" /\ outcome'[s] = outcome[s]
      BY <1>1, <2>1
    <2>3. manifest[s].status # "finished" /\ Stands(s)'
      BY <1>1, <1>2, <2>1, <2>2 DEF Settles, Stands, Recorded, Busy, Passing
    <2> QED BY <1>1, <1>2, <2>1, <2>2, <2>3, RecordingKeeps DEF Intact, Lost, Busy, Recorded, Timed
  <1> QED BY <1>3, <1>4, <1>5, <1>6, <1>7, <1>8

\* Time alone changes nothing.
LEMMA TimeLimits ==
  ASSUME StoreInv, PruneInv, Tick \/ UNCHANGED storeVars
  PROVE  PruneInv'
  <1>1. /\ UNCHANGED <<rpc, manifest, finishedAt, log, eventCount, names, listed, position, pass, retained, cutoff, outcome>>
        /\ now' = now \/ now' = now + 1
    BY DEF Tick, storeVars, Stored, Recording, Pruning
  <1>2. now' \in Nat /\ now <= now'
    BY <1>1, StoreNumbers
  <1>3. 0 \notin Sessions
    BY StoreNumbers
  <1> QED BY <1>1, <1>2, <1>3, RecordingKeeps

\* Who has finished has it all to prune.
LEMMA FinalizeLimits == ASSUME StoreInv, PruneInv, NEW s \in Sessions, Finalize(s) PROVE PruneInv'
  <1>1. /\ rpc \in [Sessions -> Places] /\ outcome \in [Sessions -> {"none", "ok", "unlisted", "failed"}]
        /\ log \in [Sessions -> Nat] /\ now \in Nat
        /\ manifest \in [Sessions -> [status : {"absent", "running", "finished"}, count : 0..MaxEvents]]
    BY StoreNumbers
  <1>2. Counts(s) /\ Settles(s) /\ Stands(s) /\ Timed(s)
    BY DEF StoreInv, Counted, Settled, PruneInv, Standing, Times
  <1>3. /\ UNCHANGED <<finishedAt, log, eventCount, names, listed, position, pass, retained, cutoff, now>> /\ rpc[s] = "finalize"
        /\ \/ /\ manifest' = [manifest EXCEPT ![s] = [status |-> "finished", count |-> eventCount[s]]]
              /\ rpc' = [rpc EXCEPT ![s] = "list"] /\ UNCHANGED outcome
           \/ /\ rpc' = [rpc EXCEPT ![s] = "done"] /\ outcome' = [outcome EXCEPT ![s] = "failed"]
              /\ UNCHANGED manifest
    BY DEF Finalize, At, Ends, Recording, Pruning
  <1>4. /\ \A t \in Sessions : t # s => rpc'[t] = rpc[t] /\ outcome'[t] = outcome[t] /\ manifest'[t] = manifest[t]
        /\ \/ /\ manifest'[s] = [status |-> "finished", count |-> eventCount[s]]
              /\ rpc'[s] = "list" /\ outcome'[s] = outcome[s]
           \/ rpc'[s] = "done" /\ outcome'[s] = "failed" /\ manifest'[s] = manifest[s]
    BY <1>1, <1>3
  <1>5. manifest[s].status # "finished" /\ rpc[s] \notin Recorded /\ s \notin Past /\ log[s] # Nothing
    BY <1>2, <1>3 DEF Settles, Stands, Counts, Recorded
  <1>6. Stands(s)'
    BY <1>2, <1>3, <1>4, <1>5 DEF Stands, Recorded, Busy, Passing
  <1>7. CASE rpc'[s] = "done"
    <2>1. manifest'[s] = manifest[s] /\ outcome'[s] = "failed"
      BY <1>4, <1>7
    <2> QED BY <1>1, <1>3, <1>4, <1>5, <1>6, <1>7, <2>1, RecordingKeeps DEF Intact, Lost, Busy, Recorded
  <1>8. CASE rpc'[s] = "list"
    <2>1. manifest'[s].status = "finished"
      BY <1>4, <1>8
    <2>2. Fixed
      BY <1>3, <1>4, <1>5 DEF Fixed, Intact
    <2>3. Standing'
      BY <1>3, <1>4, <1>6 DEF PruneInv, Standing, Stands
    <2>4. Times'
      BY <1>2, <1>3, <1>4 DEF PruneInv, Times, Timed, Busy
    <2>5. Passes'
      <3> SUFFICES ASSUME NEW t \in Sessions PROVE Sorted(t)' /\ Within(t)' /\ Judged(t)'
        BY DEF Passes
      <3>1. CASE t # s
        BY <1>3, <1>4, <2>2, <3>1, UntouchedKeeps DEF PruneInv, Passes
      <3>2. CASE t = s
        BY <1>8, <3>2 DEF Passing, Sorted, Within, Judged
      <3> QED BY <3>1, <3>2
    <2>6. SomeLost => SomeLost'
      <3>1. \A t \in Sessions : Lost(t) => Lost(t)'
        BY <1>3, <1>4 DEF Lost
      <3> QED BY <3>1 DEF SomeLost
    <2>7. HalvesAreOwed'
      <3> SUFFICES ASSUME NEW n \in Sessions, manifest'[n].status = "finished", log'[n] = Nothing
                   PROVE  SomeLost' \/ \E t \in Sessions : rpc'[t] = "remove" /\ Candidate(t)' = n
        BY DEF HalvesAreOwed, Nothing
      <3>1. manifest[n].status = "finished" /\ log[n] = Nothing
        BY <1>3, <1>4, <1>5
      <3>2. SomeLost \/ \E t \in Sessions : rpc[t] = "remove" /\ Candidate(t) = n
        BY <3>1 DEF PruneInv, HalvesAreOwed
      <3>3. \A t \in Sessions : Candidate(t)' = Candidate(t) /\ (rpc[t] = "remove" => rpc'[t] = "remove")
        BY <1>3, <1>4 DEF Candidate
      <3> QED BY <2>6, <3>2, <3>3
    <2>8. GroupToDo(s)' /\ TotalToDo(s)'
      BY <1>2, <1>3, <1>8 DEF GroupToDo, TotalToDo, Stands, Busy
    <2>9. GroupsKeepUp' /\ TotalKeepsUp'
      BY <2>8 DEF GroupsKeepUp, TotalKeepsUp
    <2> QED BY <2>3, <2>4, <2>5, <2>7, <2>9 DEF PruneInv
  <1> QED BY <1>4, <1>7, <1>8

LEMMA RemoveFileLimits == ASSUME StoreInv, PruneInv, NEW s \in Sessions, RemoveFile(s) PROVE PruneInv'
  <1>0. PICK c : c = Candidate(s)
    OBVIOUS
  <1>1. /\ UNCHANGED <<rpc, finishedAt, eventCount, names, listed, position, pass, retained, cutoff, now, outcome>>
        /\ rpc[s] = "remove"
        /\ \/ manifest' = [manifest EXCEPT ![c] = Absent] /\ UNCHANGED log
           \/ log' = [log EXCEPT ![c] = Nothing] /\ UNCHANGED manifest
    BY <1>0 DEF RemoveFile, Recording, Pruning
  <1>2. /\ log \in [Sessions -> Nat]
        /\ manifest \in [Sessions -> [status : {"absent", "running", "finished"}, count : 0..MaxEvents]]
    BY StoreNumbers
  <1>3. \A t \in Sessions :
          /\ t # c => manifest'[t] = manifest[t] /\ log'[t] = log[t]
          /\ manifest'[t] \in {manifest[t], Absent} /\ log'[t] \in {log[t], Nothing}
    BY <1>1, <1>2
  <1>4. Fixed /\ Intact' \subseteq Intact
    BY <1>1, <1>3 DEF Fixed, Intact, Absent
  <1>5. Standing'
    BY <1>1, <1>3 DEF PruneInv, Standing, Stands, Absent
  <1>6. Times'
    BY <1>1, <1>3 DEF PruneInv, Times, Timed, Absent
  <1>7. Passes'
    BY <1>1, <1>4, UntouchedKeeps DEF PruneInv, Passes
  <1>8. SomeLost => SomeLost'
    <2>1. \A t \in Sessions : Lost(t) => Lost(t)'
      BY <1>1, <1>3 DEF Lost, Absent, Running
    <2> QED BY <2>1 DEF SomeLost
  <1>9. HalvesAreOwed'
    <2> SUFFICES ASSUME NEW n \in Sessions, manifest'[n].status = "finished", log'[n] = Nothing
                 PROVE  SomeLost' \/ \E t \in Sessions : rpc'[t] = "remove" /\ Candidate(t)' = n
      BY DEF HalvesAreOwed, Nothing
    <2>1. \A t : Candidate(t)' = Candidate(t)
      BY <1>1 DEF Candidate
    <2>2. CASE n = c
      BY <1>0, <1>1, <2>1, <2>2
    <2>3. CASE n # c
      <3>1. manifest[n].status = "finished" /\ log[n] = Nothing
        BY <1>3, <2>3
      <3>2. SomeLost \/ \E t \in Sessions : rpc[t] = "remove" /\ Candidate(t) = n
        BY <3>1 DEF PruneInv, HalvesAreOwed
      <3> QED BY <1>1, <1>8, <2>1, <3>2
    <2> QED BY <2>2, <2>3
  <1>10. Untried => Untried'
    BY <1>1 DEF Untried
  <1>11. \A t \in Sessions : (GroupToDo(t) => GroupToDo(t)') /\ (TotalToDo(t) => TotalToDo(t)')
    <2>1. \A t \in Sessions : Seen(t) => Seen(t)'
      BY <1>1, <1>4 DEF Seen, Range
    <2> QED BY <1>1, <2>1 DEF GroupToDo, TotalToDo
  <1>12. GroupsKeepUp' /\ TotalKeepsUp'
    BY <1>4, <1>8, <1>10, <1>11, KeepingUpKeeps DEF PruneInv
  <1> QED BY <1>5, <1>6, <1>7, <1>9, <1>12 DEF PruneInv

LEMMA LimitsInitially == StoreInit => PruneInv
  <1> SUFFICES ASSUME StoreInit PROVE PruneInv
    OBVIOUS
  <1>1. \A s \in Sessions : /\ rpc[s] = (IF s \in Past THEN "done" ELSE "idle")
                            /\ outcome[s] = (IF s \in Past THEN "ok" ELSE "none")
                            /\ eventCount[s] = (IF s \in Past THEN 1 ELSE 0)
                            /\ manifest[s] = (IF s \in Past THEN [status |-> "finished", count |-> 1] ELSE Absent)
                            /\ log[s] = (IF s \in Past THEN 2 ELSE Nothing)
                            /\ finishedAt[s] = (IF s \in Past THEN 1 ELSE 0)
                            /\ listed[s] = <<>> /\ pass[s] = "group" /\ cutoff[s] = 0
    BY DEF StoreInit
  <1>2. Standing
    BY <1>1 DEF Standing, Stands, Busy, Passing, Absent
  <1>3. Times
    <2>1. now = 2 /\ \A s \in Sessions : DOMAIN listed[s] = {}
      BY <1>1 DEF StoreInit
    <2> QED BY <1>1, <2>1 DEF Times, Timed, Busy, Absent
  <1>4. Passes
    BY <1>1 DEF Passes, Sorted, Within, Judged, Passing
  <1>5. HalvesAreOwed
    BY <1>1 DEF HalvesAreOwed, Absent, Nothing
  <1>6. Untried
    BY <1>1 DEF Untried, Busy
  <1> QED BY <1>2, <1>3, <1>4, <1>5, <1>6 DEF PruneInv, GroupsKeepUp, TotalKeepsUp

LEMMA LimitsAreKept == ASSUME StoreInv, PruneInv, [StoreNext]_storeVars PROVE PruneInv'
  <1>1. CASE Tick \/ UNCHANGED storeVars
    BY <1>1, TimeLimits
  <1>2. ASSUME NEW s \in Sessions,
               \/ CreateLog(s) \/ CreateManifest(s) \/ Record(s) \/ Append1(s) \/ Close(s) \/ AwaitAppends(s) \/ Finalize(s)
        PROVE  PruneInv'
    BY <1>2, RecorderLimits, FinalizeLimits
  <1>3. ASSUME NEW s \in Sessions, RemovalFails(s) \/ RecorderDies(s) PROVE PruneInv'
    <2>1. RemovalFails(s) => rpc[s] \in Busy
      BY DEF RemovalFails, Busy
    <2> QED BY <1>3, <2>1, RecorderLimits, EndingLimits
  <1>4. ASSUME NEW s \in Sessions,
               List(s) \/ ReadName(s) \/ Sort(s) \/ Prune(s) \/ RemoveFile(s) \/ Removed(s) \/ Pruned(s)
        PROVE  PruneInv'
    BY <1>4, ListLimits, ReadNameLimits, SortLimits, PruneLimits, RemoveFileLimits, RemovedLimits, PrunedLimits
  <1> QED BY <1>1, <1>2, <1>3, <1>4 DEF StoreNext

\* When every recorder has finished, the history is within the limits.
LEMMA LimitsHoldAtTheEnd == ASSUME StoreInv, PruneInv PROVE PruningKeepsUp
  <1> DEFINE kept == {s \in Sessions : manifest[s].status = "finished"}
             Own(s) == kept \cap OfProject(s)
  <1> SUFFICES ASSUME \E s \in Sessions \ Past : outcome[s] = "ok",
                      \A s \in Sessions : rpc[s] = "idle" \/ outcome[s] = "ok" \/ manifest[s] = Running
               PROVE  /\ \A s \in kept : Cardinality(Own(s)) <= MaxSessions /\ Sizes(Own(s)) <= MaxBytes
                      /\ Cardinality(kept) <= MaxTotalSessions /\ Sizes(kept) <= MaxTotalBytes
    BY DEF PruningKeepsUp
  <1>1. ~SomeLost
    BY DEF SomeLost, Lost
  <1>2. \A s \in Sessions : rpc[s] \notin Busy
    BY DEF PruneInv, Standing, Stands, Busy, Running
  <1>3. ProjectsAreWithin /\ AllAreWithin
    BY <1>1, <1>2 DEF PruneInv, GroupsKeepUp, TotalKeepsUp, GroupToDo, TotalToDo, Untried
  <1>4. kept = Intact
    BY <1>1, <1>2 DEF Intact, PruneInv, HalvesAreOwed, Busy
  <1>5. ASSUME NEW s \in kept PROVE Cardinality(Own(s)) <= MaxSessions /\ Sizes(Own(s)) <= MaxBytes
    <2>1. Own(s) \subseteq OwnOf(s) /\ OwnOf(s) \subseteq Sessions
      BY <1>4 DEF OfProject, OwnOf, Intact
    <2>2. Cardinality(OwnOf(s)) <= MaxSessions /\ Sizes(OwnOf(s)) <= MaxBytes
      BY <1>3, <1>4 DEF ProjectsAreWithin
    <2>3. /\ Cardinality(Own(s)) <= Cardinality(OwnOf(s)) /\ Sizes(Own(s)) <= Sizes(OwnOf(s))
          /\ Cardinality(Own(s)) \in Nat /\ Cardinality(OwnOf(s)) \in Nat /\ Sizes(Own(s)) \in Nat /\ Sizes(OwnOf(s)) \in Nat
      BY <2>1, SizesCompare
    <2>4. MaxSessions \in Nat /\ MaxBytes \in Nat
      BY StoreAssumption
    <2> HIDE DEF Own
    <2> QED BY <2>2, <2>3, <2>4
  <1>6. Cardinality(kept) <= MaxTotalSessions /\ Sizes(kept) <= MaxTotalBytes
    BY <1>3, <1>4 DEF AllAreWithin
  <1> QED BY <1>5, <1>6

\* What came before a candidate in its group finished after it, or at once and is first
\* by name.
LEMMA EarlierIsNewer ==
  ASSUME StoreInv, PruneInv, NEW s \in Sessions, rpc[s] \in Passing, position[s] <= Len(listed[s])
  PROVE  /\ pass[s] = "group" => Earlier(s, Candidate(s)) \subseteq Newer(Candidate(s), OfProject(Candidate(s)))
         /\ Earlier(s, Candidate(s)) \subseteq Newer(Candidate(s), Finished)
  <1> SUFFICES ASSUME NEW n \in Earlier(s, Candidate(s))
               PROVE  /\ n \in Newer(Candidate(s), Finished)
                      /\ pass[s] = "group" => n \in Newer(Candidate(s), OfProject(Candidate(s)))
    OBVIOUS
  <1>1. PICK i \in 1..position[s] - 1 : n = listed[s][i]
    BY DEF Earlier, Passed
  <1>2. /\ Len(listed[s]) \in Nat /\ position[s] \in Nat /\ position[s] \in DOMAIN listed[s]
        /\ DOMAIN listed[s] = 1..Len(listed[s])
    BY ListIsOver
  <1>3. i \in DOMAIN listed[s] /\ i < position[s]
    BY <1>1, <1>2
  <1>4. n \in Sessions /\ rpc[n] \in Recorded /\ finishedAt[n] # 0
    BY <1>1, <1>3, ListIsOver DEF PruneInv, Times, Timed
  <1>5. n \in Finished
    BY <1>4 DEF Finished, Recorded
  <1>6. Before(s, n, Candidate(s)) /\ SameGroup(s, n, Candidate(s))
    BY <1>1, <1>2, <1>3 DEF PruneInv, Passes, Sorted, Candidate, Earlier
  <1>7. n \in Newer(Candidate(s), Finished)
    BY <1>5, <1>6 DEF Newer, Before
  <1>8. pass[s] = "group" => n \in Newer(Candidate(s), OfProject(Candidate(s)))
    BY <1>5, <1>6 DEF Newer, Before, SameGroup, OfProject
  <1> QED BY <1>7, <1>8

\* What is being removed has expired, or newer ones fill a limit.
LEMMA RemovalIsDue ==
  ASSUME StoreInv, PruneInv, NEW s \in Sessions, rpc[s] = "remove"
  PROVE  LET c == Candidate(s) IN
           \/ finishedAt[c] + MaxAge < now
           \/ Cardinality(Newer(c, OfProject(c))) >= MaxSessions
           \/ Cardinality(Newer(c, Finished)) >= MaxTotalSessions
           \/ Sizes(Newer(c, OfProject(c)) \cup {c}) > MaxBytes
           \/ Sizes(Newer(c, Finished) \cup {c}) > MaxTotalBytes
  <1> DEFINE c == Candidate(s)
             own == Earlier(s, c)
  <1>1. position[s] <= Len(listed[s]) /\ rpc[s] \in Passing
    BY DEF StoreInv, Settled, Settles, Passing
  <1>2. Sorted(s) /\ Within(s) /\ Judged(s) /\ Timed(s) /\ c \in Sessions
    BY <1>1, ListIsOver DEF PruneInv, Passes, Times
  <1>3. /\ finishedAt[c] \in Nat /\ cutoff[s] \in Nat /\ now \in Nat /\ MaxAge \in Nat
        /\ MaximumCount(s) \in Nat /\ MaximumBytes(s) \in Nat /\ pass[s] \in {"group", "total"}
        /\ RetainedBytes(s) \in Nat
    BY <1>2, StoreNumbers DEF RetainedBytes
  <1>4. own \subseteq Sessions /\ c \notin own /\ Index(s) = Cardinality(own)
    BY <1>1, <1>2, IndexCounts DEF Earlier
  <1>5. ASSUME NEW newer \in SUBSET Sessions, own \subseteq newer
        PROVE  /\ Index(s) >= MaximumCount(s) => Cardinality(newer) >= MaximumCount(s)
               /\ RetainedBytes(s) + SizeAtFinish[c] > MaximumBytes(s) => Sizes(newer \cup {c}) > MaximumBytes(s)
    <2>1. Cardinality(own) <= Cardinality(newer) /\ Cardinality(own) \in Nat /\ Cardinality(newer) \in Nat
      BY <1>5, SizesCompare
    <2>2. Sizes(own) \in Nat /\ SizeAtFinish[c] \in Nat /\ Sizes(own \cup {c}) = SizeAtFinish[c] + Sizes(own)
      BY <1>2, <1>4, SizesAdd
    <2>3. own \cup {c} \subseteq newer \cup {c} /\ newer \cup {c} \subseteq Sessions
      BY <1>2, <1>5
    <2>4. Sizes(own \cup {c}) <= Sizes(newer \cup {c}) /\ Sizes(newer \cup {c}) \in Nat
      BY <2>3, SizesCompare
    <2>5. RetainedBytes(s) <= Sizes(own)
      BY <1>1, <1>2 DEF Within
    <2> HIDE DEF c, own
    <2> QED BY <1>3, <1>4, <2>1, <2>2, <2>4, <2>5
  <1>6. finishedAt[c] < cutoff[s] => finishedAt[c] + MaxAge < now
    BY <1>2, <1>3 DEF Timed
  <1>7. CASE pass[s] = "group"
    <2>1. PICK newer : newer = Newer(c, OfProject(c))
      OBVIOUS
    <2>2. newer \subseteq Sessions /\ own \subseteq newer
      BY <1>1, <1>7, <2>1, EarlierIsNewer DEF Newer, OfProject, Finished
    <2>3. MaximumCount(s) = MaxSessions /\ MaximumBytes(s) = MaxBytes
      BY <1>7 DEF MaximumCount, MaximumBytes
    <2>4. /\ Index(s) >= MaximumCount(s) => Cardinality(newer) >= MaxSessions
          /\ RetainedBytes(s) + SizeAtFinish[c] > MaximumBytes(s) => Sizes(newer \cup {c}) > MaxBytes
      BY <1>5, <2>2, <2>3
    <2> QED BY <1>2, <1>6, <2>1, <2>4 DEF Judged
  <1>8. CASE pass[s] = "total"
    <2>1. PICK newer : newer = Newer(c, Finished)
      OBVIOUS
    <2>2. newer \subseteq Sessions /\ own \subseteq newer
      BY <1>1, <2>1, EarlierIsNewer DEF Newer, Finished
    <2>3. MaximumCount(s) = MaxTotalSessions /\ MaximumBytes(s) = MaxTotalBytes
      BY <1>8 DEF MaximumCount, MaximumBytes
    <2>4. /\ Index(s) >= MaximumCount(s) => Cardinality(newer) >= MaxTotalSessions
          /\ RetainedBytes(s) + SizeAtFinish[c] > MaximumBytes(s) => Sizes(newer \cup {c}) > MaxTotalBytes
      BY <1>5, <2>2, <2>3
    <2> QED BY <1>2, <1>6, <2>1, <2>4 DEF Judged
  <1> QED BY <1>3, <1>7, <1>8

LEMMA StoreStepRemovesByLimits == ASSUME StoreInv, PruneInv, [StoreNext]_storeVars PROVE RemovesByLimits
  <1> SUFFICES ASSUME NEW n \in Sessions, manifest[n] # Absent, manifest'[n] = Absent
               PROVE  /\ manifest[n].status = "finished"
                      /\ \/ finishedAt[n] + MaxAge < now
                         \/ Cardinality(Newer(n, OfProject(n))) >= MaxSessions
                         \/ Cardinality(Newer(n, Finished)) >= MaxTotalSessions
                         \/ Sizes(Newer(n, OfProject(n)) \cup {n}) > MaxBytes
                         \/ Sizes(Newer(n, Finished) \cup {n}) > MaxTotalBytes
    BY DEF RemovesByLimits
  <1>1. manifest[n].status = "finished"
    BY StoreStepRemovesFinished DEF OnlyFinishedGo
  <1>2. PICK s \in Sessions : CreateManifest(s) \/ Finalize(s) \/ RemoveFile(s)
    BY DEF StoreNext, storeVars, Tick, Stored, CreateLog, Record, Append1, Close,
       AwaitAppends, List, ReadName, Sort, Prune, Removed, RemovalFails, Pruned, RecorderDies
  <1>3. manifest \in [Sessions -> [status : {"absent", "running", "finished"}, count : 0..MaxEvents]]
    BY StoreNumbers
  <1>4. ~CreateManifest(s)
    BY <1>3 DEF CreateManifest, Running, Absent
  <1>5. ~Finalize(s)
    <2> SUFFICES ASSUME Finalize(s) PROVE FALSE
      OBVIOUS
    <2>1. manifest' = [manifest EXCEPT ![s] = [status |-> "finished", count |-> eventCount[s]]]
      BY DEF Finalize
    <2>2. [status |-> "finished", count |-> eventCount[s]] # Absent
      BY DEF Absent
    <2> QED BY <1>3, <2>1, <2>2
  <1>6. rpc[s] = "remove" /\ n = Candidate(s)
    BY <1>2, <1>3, <1>4, <1>5 DEF RemoveFile
  <1> QED BY <1>1, <1>6, RemovalIsDue

-----------------------------------------------------------------------------
(* The remembered targets: proofs *)

LEMMA ServersAreFinite == IsFiniteSet(Servers)
  <1> DEFINE scope == [w \in Writers |-> Scope[w]]
  <1>1. scope \in Surjection(Writers, Servers)
    BY DEF Surjection, Servers
  <1> QED BY <1>1, FS_Surjection, StateAssumption

LEMMA StateInitially == StateInit => StateInv
  <1> SUFFICES ASSUME StateInit PROVE StateInv
    OBVIOUS
  <1>1. Empty \in Documents
    BY DEF Empty, Documents
  <1>2. StateTypeOK
    BY <1>1 DEF StateInit, StateTypeOK
  <1>3. \A s \in Servers : Empty[s].at = 0
    BY DEF Empty, NoEntry
  <1> QED BY <1>2, <1>3 DEF StateInit, StateInv, Dated, Understood

\* What a writer writes is a document again, its own entry the newest of it.
LEMMA Remembers ==
  ASSUME NEW document \in Documents, NEW w \in Writers, NEW at \in Nat \ {0}, \A s \in Servers : document[s].at < at
  PROVE  /\ Remembering(document, w, at) \in Documents
         /\ \A s \in Servers : Remembering(document, w, at)[s].at <= at
  <1> DEFINE own == [by |-> w, at |-> at]
             all == [document EXCEPT ![Scope[w]] = own]
  <1>1. own \in [by : Writers, at : Nat \ {0}] /\ own.at = at /\ Scope[w] \in Servers
    BY DEF Servers
  <1> HIDE DEF own
  <1>2. all \in Documents
    BY <1>1 DEF Documents
  <1>3. \A s \in Servers : all[s].at <= at
    <2>1. \A s \in Servers : all[s] = IF s = Scope[w] THEN own ELSE document[s]
      BY <1>1 DEF Documents
    <2>2. \A s \in Servers : document[s].at \in Nat
      BY DEF Documents, NoEntry
    <2> QED BY <1>1, <2>1, <2>2
  <1> HIDE DEF all
  <1>4. \A s \in Servers : Remembering(document, w, at)[s] \in {all[s], NoEntry}
    BY DEF Remembering, all, own
  <1>5. Remembering(document, w, at) = [s \in Servers |-> Remembering(document, w, at)[s]]
    BY DEF Remembering
  <1>6. Remembering(document, w, at) \in Documents
    BY <1>2, <1>4, <1>5 DEF Documents
  <1>7. NoEntry.at <= at
    BY DEF NoEntry
  <1> QED BY <1>3, <1>4, <1>6, <1>7

LEMMA StateStepKeeps == ASSUME StateInv, [StateNext]_stateVars PROVE StateInv'
  <1>1. CASE UNCHANGED stateVars
    BY <1>1 DEF StateInv, StateTypeOK, Dated, Understood, stateVars
  <1>2. ASSUME NEW w \in Writers, ReadState(w) PROVE StateInv'
    <2>1. /\ UNCHANGED <<state, valid, tclock>>
          /\ \/ valid /\ tpc' = [tpc EXCEPT ![w] = "read"] /\ read' = [read EXCEPT ![w] = state]
             \/ tpc' = [tpc EXCEPT ![w] = "refused"] /\ UNCHANGED read
      BY <1>2 DEF ReadState
    <2>2. /\ tpc \in [Writers -> {"idle", "read", "renamed", "refused", "dead"}]
          /\ state \in Documents /\ read \in [Writers -> Documents]
      BY DEF StateInv, StateTypeOK
    <2>3. tpc' \in [Writers -> {"idle", "read", "renamed", "refused", "dead"}] /\ read' \in [Writers -> Documents]
      BY <2>1, <2>2
    <2>4. \A v \in Writers : read'[v] = read[v] \/ read'[v] = state
      BY <2>1, <2>2
    <2>5. Dated'
      BY <2>1, <2>4 DEF StateInv, Dated
    <2>6. Understood'
      BY <2>1, <2>2 DEF StateInv, Understood
    <2> QED BY <2>1, <2>3, <2>5, <2>6 DEF StateInv, StateTypeOK
  <1>3. ASSUME NEW w \in Writers, WriteState(w) PROVE StateInv'
    <2>1. /\ UNCHANGED <<valid, read>> /\ tpc[w] = "read"
          /\ \/ /\ tclock' = tclock + 1 /\ state' = Remembering(read[w], w, tclock + 1)
                /\ tpc' = [tpc EXCEPT ![w] = "renamed"]
             \/ tpc' = [tpc EXCEPT ![w] = "refused"] /\ UNCHANGED <<state, tclock>>
      BY <1>3 DEF WriteState
    <2>2. /\ tpc \in [Writers -> {"idle", "read", "renamed", "refused", "dead"}] /\ tclock \in Nat
          /\ state \in Documents /\ read[w] \in Documents /\ read \in [Writers -> Documents]
      BY DEF StateInv, StateTypeOK
    <2>3. tpc' \in [Writers -> {"idle", "read", "renamed", "refused", "dead"}]
      BY <2>1, <2>2
    <2>4. \A document \in Documents, s \in Servers : document[s].at \in Nat
      BY DEF Documents, NoEntry
    <2>5. tclock + 1 \in Nat \ {0} /\ \A s \in Servers : read[w][s].at < tclock + 1
      BY <2>2, <2>4 DEF StateInv, Dated
    <2>6. /\ Remembering(read[w], w, tclock + 1) \in Documents
          /\ \A s \in Servers : Remembering(read[w], w, tclock + 1)[s].at <= tclock + 1
      BY <2>2, <2>5, Remembers
    <2>7. state' \in Documents /\ tclock' \in Nat
      BY <2>1, <2>2, <2>6
    <2>8. Dated'
      <3>1. \A s \in Servers : state'[s].at <= tclock'
        BY <2>1, <2>2, <2>6 DEF StateInv, Dated
      <3>2. \A v \in Writers, s \in Servers : read[v][s].at <= tclock /\ read[v][s].at \in Nat
        BY <2>2, <2>4 DEF StateInv, Dated
      <3>3. tclock <= tclock' /\ tclock \in Nat /\ tclock' \in Nat
        BY <2>1, <2>2
      <3>4. \A v \in Writers, s \in Servers : read'[v][s].at <= tclock'
        BY <2>1, <3>2, <3>3
      <3> QED BY <3>1, <3>4 DEF Dated
    <2>9. Understood'
      BY <2>1, <2>2 DEF StateInv, Understood
    <2> QED BY <2>1, <2>2, <2>3, <2>7, <2>8, <2>9 DEF StateInv, StateTypeOK
  <1>4. ASSUME NEW w \in Writers, WriterDies(w) PROVE StateInv'
    <2>1. UNCHANGED <<state, valid, read, tclock>> /\ tpc' = [tpc EXCEPT ![w] = "dead"]
      BY <1>4 DEF WriterDies
    <2>2. tpc \in [Writers -> {"idle", "read", "renamed", "refused", "dead"}]
      BY DEF StateInv, StateTypeOK
    <2>3. tpc' \in [Writers -> {"idle", "read", "renamed", "refused", "dead"}] /\ Understood'
      BY <2>1, <2>2 DEF StateInv, Understood
    <2> QED BY <2>1, <2>3 DEF StateInv, StateTypeOK, Dated
  <1> QED BY <1>1, <1>2, <1>3, <1>4 DEF StateNext

\* Of the entries newer than one that is dropped, as many stay as fill the file: the
\* newest that is dropped has that many newer ones, and they stay.
LEMMA TheNewestStay ==
  ASSUME NEW all, NEW age \in Nat, NEW last \in Nat, \A s \in Servers : all[s].at \in Nat /\ all[s].at <= last,
         Cardinality({o \in Servers : all[o].at > age}) >= MaxServers
  PROVE  Cardinality({o \in Servers : /\ all[o].at > age
                                      /\ Cardinality({p \in Servers : all[p].at > all[o].at}) < MaxServers}) >= MaxServers
  <1> DEFINE Above(n) == {p \in Servers : all[p].at > n}
             stay == {o \in Above(age) : Cardinality(Above(all[o].at)) < MaxServers}
             go == Above(age) \ stay
  <1>0. stay = {o \in Servers : /\ all[o].at > age
                                /\ Cardinality({p \in Servers : all[p].at > all[o].at}) < MaxServers}
    OBVIOUS
  <1>1. IsFiniteSet(stay) /\ \A n : Cardinality(Above(n)) \in Nat /\ Above(n) \subseteq Servers
    <2>1. \A n : IsFiniteSet(Above(n))
      BY ServersAreFinite, FS_Subset
    <2>2. stay \in SUBSET Servers
      OBVIOUS
    <2>3. IsFiniteSet(stay)
      BY <2>2, ServersAreFinite, FS_Subset
    <2> QED BY <2>1, <2>3, FS_CardinalityType
  <1>2. CASE go = {}
    <2>1. stay = Above(age)
      BY <1>2
    <2> QED BY <1>0, <2>1
  <1>3. CASE go # {}
    <2> DEFINE ages == {last - all[o].at : o \in go}
    <2>1. ages \in SUBSET Nat /\ ages # {}
      <3>1. \A o \in go : all[o].at \in Nat /\ all[o].at <= last
        OBVIOUS
      <3>2. \A o \in go : last - all[o].at \in Nat
        BY <3>1
      <3> QED BY <1>3, <3>2
    <2>2. PICK age1 \in ages : \A other \in ages : age1 <= other
      BY <2>1, Least
    <2>3. PICK o \in go : age1 = last - all[o].at
      OBVIOUS
    <2>4. \A p \in go : all[p].at <= all[o].at
      <3> SUFFICES ASSUME NEW p \in go PROVE all[p].at <= all[o].at
        OBVIOUS
      <3>1. last - all[o].at <= last - all[p].at
        BY <2>2, <2>3
      <3>2. all[o].at \in Nat /\ all[p].at \in Nat
        OBVIOUS
      <3> QED BY <3>1, <3>2
    <2>5. Above(all[o].at) \subseteq stay
      BY <2>4
    <2>6. Cardinality(Above(all[o].at)) >= MaxServers
      <3>1. PICK n \in Nat : n = Cardinality(Above(all[o].at))
        BY <1>1
      <3>2. ~(n < MaxServers)
        BY <3>1
      <3>3. n >= MaxServers
        BY <3>2, StateAssumption
      <3> QED BY <3>1, <3>3
    <2>7. Cardinality(Above(all[o].at)) <= Cardinality(stay)
      BY <1>1, <2>5, FS_Subset
    <2>8. Cardinality(stay) \in Nat
      BY <1>1, FS_CardinalityType
    <2>9. Cardinality(stay) >= MaxServers
      <3>1. PICK n \in Nat, m \in Nat : n = Cardinality(Above(all[o].at)) /\ m = Cardinality(stay)
        BY <1>1, <2>8
      <3> HIDE DEF stay, Above
      <3>2. n >= MaxServers /\ n <= m
        BY <2>6, <2>7, <3>1
      <3>3. m >= MaxServers
        BY <3>2, StateAssumption
      <3> QED BY <3>1, <3>3
    <2> QED BY <1>0, <2>9
  <1> QED BY <1>2, <1>3

LEMMA StateStepKeepsEntries == ASSUME StateInv, [StateNext]_stateVars PROVE KeepsEntries
  <1>1. CASE UNCHANGED state
    BY <1>1 DEF KeepsEntries
  <1>2. CASE ~UNCHANGED state
    <2>1. PICK w \in Writers : WriteState(w)
      BY <1>2 DEF StateNext, stateVars, ReadState, WriterDies
    <2>2. /\ tpc[w] = "read" /\ tpc' = [tpc EXCEPT ![w] = "renamed"] /\ state' = Remembering(read[w], w, tclock + 1)
      BY <1>2, <2>1 DEF WriteState
    <2>3. valid
      BY <2>2 DEF StateInv, Understood
    <2>4. /\ tpc'[w] = "renamed" /\ read[w] \in Documents /\ tclock \in Nat
          /\ \A o \in Servers : read[w][o].at \in Nat /\ read[w][o].at <= tclock
      <3>1. \A document \in Documents, o \in Servers : document[o].at \in Nat
        BY DEF Documents, NoEntry
      <3> QED BY <2>2, <3>1 DEF StateInv, StateTypeOK, Dated
    <2> DEFINE own == [by |-> w, at |-> tclock + 1]
               all == [read[w] EXCEPT ![Scope[w]] = own]
               Kept(o) == Cardinality({p \in Servers : all[p].at > all[o].at}) < MaxServers
    <2>5. \A o \in Servers : state'[o] = IF Kept(o) THEN all[o] ELSE NoEntry
      BY <2>2 DEF Remembering
    <2>6. own.at = tclock + 1
      OBVIOUS
    <2> HIDE DEF own
    <2>7. \A o \in Servers : all[o] = IF o = Scope[w] THEN own ELSE read[w][o]
      BY <2>4 DEF Documents
    <2> HIDE DEF all
    <2>8. \A o \in Servers : all[o].at \in Nat /\ all[o].at <= tclock + 1
      BY <2>4, <2>6, <2>7
    <2>9. ASSUME NEW s \in Servers, state[s] # NoEntry, state'[s] = NoEntry, read[w][s] = state[s]
          PROVE  Cardinality({o \in Servers : state'[o].at > state[s].at}) >= MaxServers
      <3>1. s # Scope[w]
        <4> SUFFICES ASSUME s = Scope[w] PROVE FALSE
          OBVIOUS
        <4>1. {p \in Servers : all[p].at > all[s].at} = {}
          BY <2>6, <2>7, <2>8
        <4>2. Kept(s)
          <5>1. Cardinality({p \in Servers : all[p].at > all[s].at}) = 0
            BY <4>1, FS_EmptySet
          <5>2. 0 < MaxServers
            BY StateAssumption
          <5> QED BY <5>1, <5>2
        <4>3. own = NoEntry
          BY <2>5, <2>7, <2>9, <4>2
        <4> QED BY <2>4, <2>6, <4>3 DEF NoEntry
      <3>2. all[s] = state[s] /\ ~Kept(s)
        BY <2>5, <2>7, <2>9, <3>1
      <3>3. PICK age \in Nat : age = state[s].at /\ age = all[s].at
        BY <2>8, <3>2
      <3>4. Cardinality({o \in Servers : all[o].at > age}) >= MaxServers
        <4>1. {o \in Servers : all[o].at > age} \in SUBSET Servers
          OBVIOUS
        <4>2. Cardinality({o \in Servers : all[o].at > age}) \in Nat
          BY <4>1, ServersAreFinite, FS_Subset, FS_CardinalityType
        <4> QED BY <3>2, <3>3, <4>2, StateAssumption
      <3>5. Cardinality({o \in Servers : all[o].at > age /\ Kept(o)}) >= MaxServers
        <4>1. PICK last \in Nat : last = tclock + 1
          BY <2>4
        <4>2. \A o \in Servers : all[o].at \in Nat /\ all[o].at <= last
          BY <2>8, <4>1
        <4> QED BY <3>4, <4>2, TheNewestStay
      <3>6. \A o \in Servers : state'[o].at > age <=> all[o].at > age /\ Kept(o)
        <4>1. ~(NoEntry.at > age)
          BY DEF NoEntry
        <4> HIDE DEF Kept
        <4> QED BY <2>5, <4>1
      <3>7. {o \in Servers : state'[o].at > age} = {o \in Servers : all[o].at > age /\ Kept(o)}
        BY <3>6
      <3> QED BY <3>3, <3>5, <3>7
    <2> QED BY <2>2, <2>3, <2>4, <2>9 DEF KeepsEntries
  <1> QED BY <1>1, <1>2

-----------------------------------------------------------------------------
(* The composition *)

Inv == SetupInv /\ StateInv /\ StoreInv /\ PruneInv /\ PortsInv

LEMMA Initially == Init => Inv
  BY SetupInitially, StateInitially, StoreInitially, LimitsInitially, PortsInitially DEF Init, Inv

\* A step of one component leaves the others as they are.
LEMMA EachSteps ==
  ASSUME [Next]_vars
  PROVE  [SetupNext]_setupVars /\ [StateNext]_stateVars /\ [StoreNext]_storeVars /\ [PortsNext]_portVars
  BY DEF Next, vars

LEMMA StepKeeps == Inv /\ [Next]_vars => Inv'
  BY EachSteps, SetupStepKeeps, StateStepKeeps, StoreStepKeeps, LimitsAreKept, PortsStepKeeps DEF Inv

\* Every behaviour keeps the invariants of the four components.
THEOREM Invariant == Spec => []Inv
  <1>1. Init => Inv
    BY Initially
  <1>2. Inv /\ [Next]_vars => Inv'
    BY StepKeeps
  <1> QED BY <1>1, <1>2, PTL DEF Spec

\* What the components keep is always of its type (the types of setup.ts,
\* target-state.ts, session-store.ts and ports.ts).
THEOREM TypesAreKept == Spec => []TypeOK
  <1>1. Inv => TypeOK
    <2>1. PlannedWrites \subseteq Seq(Files)
      BY DEF PlannedWrites, Files
    <2>2. SetupTypes => SetupTypeOK
      BY <2>1 DEF SetupTypes, SetupTypeOK
    <2> QED BY <2>2 DEF Inv, TypeOK, SetupInv, StateInv, StoreInv, PortsInv
  <1> QED BY <1>1, Invariant, PTL

\* Setup changes both files or none, and what it reports is what it did (atomicWriteSet).
THEOREM SetupChangesBothOrNone == Spec => []SetupIsAtomic
  <1>1. Inv => SetupIsAtomic
    BY DEF Inv, SetupInv
  <1> QED BY <1>1, Invariant, PTL

\* A manifest that says a session is over counts the lines of its log (finish, #record).
THEOREM HistoryIsComplete == Spec => []FinishedIsComplete
  <1>1. Inv => FinishedIsComplete
    BY DEF Inv, StoreInv
  <1> QED BY <1>1, Invariant, PTL

\* A session that is over and reported no failed cleanup leaves none of its mappings.
THEOREM MappingsAreCleaned == Spec => []NothingLeaks
  <1>1. Inv => NothingLeaks
    BY DEF Inv, PortsInv
  <1> QED BY <1>1, Invariant, PTL

\* Neither a remembered target nor a mapping of another is taken away by a write or a
\* mapping decided by what was read before (writeRememberedTarget, reverse --no-rebind);
\* cleanup takes away another's mapping only where the session's own was and is gone.
THEOREM OthersStay == Spec => OthersAreKept
  <1>1. Inv /\ [Next]_vars => [KeepsEntries /\ ReplacesNothing /\ RemovesOnlyOwn]_vars
    <2> SUFFICES ASSUME Inv, [Next]_vars PROVE KeepsEntries /\ ReplacesNothing /\ RemovesOnlyOwn
      OBVIOUS
    <2>1. KeepsEntries
      BY EachSteps, StateStepKeepsEntries DEF Inv
    <2>2. ReplacesNothing
      BY EachSteps, PortsReplaceNothing DEF Inv, PortsInv, ReplacesNothing
    <2>3. RemovesOnlyOwn
      BY EachSteps, PortsRemoveOnlyOwn DEF Inv
    <2> QED BY <2>1, <2>2, <2>3
  <1> QED BY <1>1, Invariant, PTL DEF Spec, OthersAreKept

\* Once every recorder has finished and no call has failed, the history is within its
\* limits, however their prunings overlapped (pruneSessions).
THEOREM HistoryIsLimited == Spec => []PruningKeepsUp
  <1>1. Inv => PruningKeepsUp
    BY LimitsHoldAtTheEnd DEF Inv
  <1> QED BY <1>1, Invariant, PTL

\* A session is removed only when it is over and has expired or newer ones fill a limit,
\* although every pruner decides by a list and sizes read earlier (pruneGroup).
THEOREM RemovalsAreDue == Spec => OnlyLimitsRemove
  <1>1. Inv /\ [Next]_vars => [RemovesByLimits]_storeVars
    BY EachSteps, StoreStepRemovesByLimits DEF Inv
  <1> QED BY <1>1, Invariant, PTL DEF Spec, OnlyLimitsRemove
=============================================================================
