----------------------------- MODULE AgentTask -----------------------------
(***************************************************************************)
(* A development session that runs as a process of its own and that MCP    *)
(* connections start, poll and stop by a handle (src/agent/dev-task.ts).   *)
(* All parties meet in one record file: each reads it, awaits, and writes  *)
(* back what it read with its own change, so every write may undo another. *)
(***************************************************************************)
EXTENDS Integers

CONSTANTS
  Client,   \* MCP connections that know the handle
  MaxPolls, \* bound: polls of each waiting loop (20 or 50 in the code)
  Faults    \* what the environment may do: a subset of FaultKinds

\* disk: a record write fails; kill: the process is killed from outside; crash:
\* the starting server dies; late: its second write misses the child's second;
\* sleep: the host sleeps longer than HEARTBEAT_STALE_MS.
FaultKinds == {"disk", "kill", "crash", "late", "sleep"}
ASSUME BoundsAssumption == MaxPolls \in Nat /\ Faults \subseteq FaultKinds

Terminal == {"completed", "failed", "interrupted"}
Status == Terminal \cup {"starting", "running", "stopping"}
\* pid: the process is named; fresh: updatedAt is younger than HEARTBEAT_STALE_MS
Records == [status : Status, ready : BOOLEAN, pid : BOOLEAN, fresh : BOOLEAN]
NoRecord == [status |-> "none", ready |-> FALSE, pid |-> FALSE, fresh |-> FALSE]

VARIABLES
  record,  \* the record file, or NoRecord
  starter, \* startAgentDevTask: idle, recorded, spawned or done
  given,   \* the handle was returned to the clients
  proc,    \* where the managed process stands
  code,    \* what its exit code says, a terminal status
  terms,   \* SIGTERMs it has received
  held,    \* the record its main line read, across an await
  beat,    \* the record a heartbeat read, across an await
  pc,      \* where the call of each client stands
  mine,    \* the record each client read, across an await
  polls,   \* polls of a client's loop
  missed   \* history: the process lived on while its record went stale

process == <<proc, code, terms, held, beat>>
vars == <<record, starter, given, process, pc, mine, polls, missed>>

Booting == {"booting", "activating"}
Ending == {"ending", "closing", "drained"}
Executing == Booting \cup Ending \cup {"managed", "unmanaged"}
Over == Ending \cup {"dying", "gone"}
Waiting == {"poll", "pollKilled"}
Pcs == Waiting \cup {"idle", "read", "judge", "fail", "wait", "mark", "signal",
                     "finalize", "interrupt"}

TypeOK ==
  /\ record \in Records \cup {NoRecord} /\ held \in Records \cup {NoRecord}
  /\ beat \in Records \cup {NoRecord}
  /\ starter \in {"idle", "recorded", "spawned", "done"} /\ given \in BOOLEAN
  /\ proc \in Executing \cup {"none", "dying", "gone"} /\ code \in Terminal
  /\ terms \in 0 .. 1 /\ missed \in BOOLEAN
  /\ pc \in [Client -> Pcs] /\ mine \in [Client -> Records \cup {NoRecord}]
  /\ polls \in [Client -> 0 .. MaxPolls]

Init ==
  /\ record = NoRecord /\ starter = "idle" /\ given = FALSE /\ missed = FALSE
  /\ proc = "none" /\ code = "failed" /\ terms = 0 /\ held = NoRecord /\ beat = NoRecord
  /\ pc = [c \in Client |-> "idle"] /\ mine = [c \in Client |-> NoRecord]
  /\ polls = [c \in Client |-> 0]

\* processAlive(pid): signal 0 also finds a process that has not quite died.
Alive == proc \notin {"none", "gone"}
Closed(r) == r.status \in Terminal

\* A signal ends the process with whatever it was about to write.
EndsAs(state) == proc' = state /\ held' = NoRecord /\ beat' = NoRecord

\* atomicRecord: the file is replaced as a whole, or the call throws.
Write(r, status) == record' = [r EXCEPT !.status = status, !.fresh = TRUE]
WriteFails == "disk" \in Faults /\ UNCHANGED record

-----------------------------------------------------------------------------
(* startAgentDevTask *)

Started == [status |-> "starting", ready |-> FALSE, pid |-> FALSE, fresh |-> TRUE]

StartRecord ==
  /\ starter = "idle" /\ starter' = "recorded" /\ record' = Started
  /\ UNCHANGED <<given, process, pc, mine, polls, missed>>

Spawn ==
  /\ starter = "recorded" /\ starter' = "spawned" /\ proc' = "booting"
  /\ UNCHANGED <<record, given, code, terms, held, beat, pc, mine, polls, missed>>

\* The child cannot be spawned: the task is recorded as failed, the call throws.
SpawnFails ==
  /\ starter = "recorded" /\ starter' = "done"
  /\ Write(record, "failed") \/ WriteFails
  /\ UNCHANGED <<given, process, pc, mine, polls, missed>>

StartReturns ==
  /\ starter = "spawned" /\ starter' = "done" /\ given' = TRUE
  /\ Write([Started EXCEPT !.pid = TRUE], "running")
  /\ UNCHANGED <<process, pc, mine, polls, missed>>

\* The pid cannot be recorded: the call throws, and the child stays.
StartThrows ==
  /\ "disk" \in Faults /\ starter = "spawned" /\ starter' = "done"
  /\ Write([Started EXCEPT !.pid = TRUE], "failed") \/ UNCHANGED record
  /\ UNCHANGED <<given, process, pc, mine, polls, missed>>

\* The server dies, or cannot open the output files before it spawns the child.
StarterDies ==
  /\ starter \in {"recorded", "spawned"} /\ starter' = "done"
  /\ "crash" \in Faults \/ (starter = "recorded" /\ "disk" \in Faults)
  /\ UNCHANGED <<record, given, process, pc, mine, polls, missed>>

-----------------------------------------------------------------------------
(* The managed process: activateAgentTaskFromEnvironment and the CLI's main *)

ProcessStep(from, to) ==
  /\ proc = from /\ proc' = to
  /\ UNCHANGED <<starter, given, pc, mine, polls, missed>>

BootRead ==
  /\ ProcessStep("booting", "activating") /\ record.pid
  /\ held' = record /\ UNCHANGED <<record, code, terms, beat>>

\* No record names this process within a second: it runs without one.
BootGivesUp ==
  /\ ProcessStep("booting", "unmanaged") /\ ~record.pid
  /\ starter = "done" \/ "late" \in Faults
  /\ UNCHANGED <<record, code, terms, held, beat>>

\* Activation takes over whatever status it read.
ActivateWrite ==
  /\ ProcessStep("activating", "managed")
  /\ Write([held EXCEPT !.ready = TRUE], "running") /\ held' = NoRecord
  /\ UNCHANGED <<code, terms, beat>>

ActivateThrows ==
  /\ ProcessStep("activating", "gone") /\ WriteFails
  /\ held' = NoRecord /\ UNCHANGED <<code, terms, beat>>

HeartbeatRead ==
  /\ ProcessStep("managed", "managed")
  /\ beat = NoRecord /\ record.pid /\ ~Closed(record)
  /\ beat' = record /\ UNCHANGED <<record, code, terms, held>>

\* The write of a heartbeat lands however far the session has come by then.
HeartbeatWrite ==
  /\ beat # NoRecord /\ proc \in Executing
  /\ Write(beat, beat.status) \/ WriteFails
  /\ beat' = NoRecord
  /\ UNCHANGED <<starter, given, proc, code, terms, held, pc, mine, polls, missed>>

\* runCli returns; only a process that was told to stop says it was interrupted.
RunEnds ==
  /\ \/ ProcessStep("managed", "ending") \/ ProcessStep("unmanaged", "gone")
  /\ code' \in IF terms = 0 THEN {"completed", "failed"} ELSE Terminal
  /\ UNCHANGED <<record, terms, held, beat>>

\* finish(): the interval is cleared, a heartbeat under way is not.
FinishRead ==
  /\ proc = "ending"
  /\ IF record.pid /\ ~Closed(record)
     THEN ProcessStep("ending", "closing") /\ held' = record
     ELSE ProcessStep("ending", "drained") /\ UNCHANGED held
  /\ UNCHANGED <<record, code, terms, beat>>

FinishWrite ==
  /\ ProcessStep("closing", "drained")
  /\ Write(held, code) \/ WriteFails
  /\ held' = NoRecord /\ UNCHANGED <<code, terms, beat>>

Exit ==
  /\ ProcessStep("drained", "gone") /\ beat = NoRecord
  /\ UNCHANGED <<record, code, terms, held, beat>>

\* A process that was sent SIGKILL takes a moment to be gone.
Dies ==
  /\ ProcessStep("dying", "gone")
  /\ UNCHANGED <<record, code, terms, held, beat>>

-----------------------------------------------------------------------------
(* getAgentDevTask *)

ClientStep(c, from, to) ==
  /\ pc[c] = from /\ pc' = [pc EXCEPT ![c] = to]
  /\ UNCHANGED <<starter, given, missed>>
Mine(c, r) == mine' = [mine EXCEPT ![c] = r]
Return(c, from) ==
  ClientStep(c, from, "idle") /\ Mine(c, NoRecord) /\ polls' = [polls EXCEPT ![c] = 0]
Quiet == UNCHANGED <<record, process>>

Get(c) ==
  /\ given /\ ClientStep(c, "idle", "read")
  /\ Quiet /\ UNCHANGED <<mine, polls>>

GetRead(c) ==
  /\ pc[c] = "read" /\ Quiet
  /\ IF Closed(record) THEN Return(c, "read")
     ELSE ClientStep(c, "read", "judge") /\ Mine(c, record) /\ UNCHANGED polls

\* The process of a record that is not closed is dead, or was not heard of lately.
Lost(r) == ~r.pid \/ ~Alive \/ ~r.fresh

\* Mutant: a process that has not reported ready yet counts as lost.
GetJudgeReady(c) ==
  /\ pc[c] = "judge" /\ Quiet
  /\ IF Lost(mine[c]) \/ ~mine[c].ready
     THEN ClientStep(c, "judge", "fail") /\ UNCHANGED <<mine, polls>>
     ELSE Return(c, "judge")

\* Mutant: only a process that once was ready can be lost.
GetJudgeOnlyReady(c) ==
  /\ pc[c] = "judge" /\ Quiet
  /\ IF Lost(mine[c]) /\ mine[c].ready
     THEN ClientStep(c, "judge", "fail") /\ UNCHANGED <<mine, polls>>
     ELSE Return(c, "judge")

GetJudge(c) ==
  /\ pc[c] = "judge" /\ Quiet
  /\ IF Lost(mine[c])
     THEN ClientStep(c, "judge", "fail") /\ UNCHANGED <<mine, polls>>
     ELSE Return(c, "judge")

GetFail(c) == Return(c, "fail") /\ Write(mine[c], "failed") /\ UNCHANGED process

GetFailThrows(c) == Return(c, "fail") /\ WriteFails /\ UNCHANGED process

-----------------------------------------------------------------------------
(* stopAgentDevTask *)

Stop(c) ==
  /\ given /\ pc[c] = "idle" /\ ~Closed(record) /\ Quiet
  /\ ClientStep(c, "idle", "wait") /\ Mine(c, record) /\ UNCHANGED polls

\* Poll until the process is ready, but not for ever.
StopWait(c) ==
  /\ ~mine[c].ready /\ polls[c] < MaxPolls /\ Quiet
  /\ ClientStep(c, "wait", "wait") /\ Mine(c, record)
  /\ polls' = [polls EXCEPT ![c] = @ + 1]

\* A task that is not ready, or lost, is not stopped but looked up.
StopJudge(c) ==
  /\ mine[c].ready \/ polls[c] = MaxPolls
  /\ Quiet /\ UNCHANGED mine /\ polls' = [polls EXCEPT ![c] = 0]
  /\ IF ~mine[c].ready \/ Lost(mine[c])
     THEN ClientStep(c, "wait", "read")
     ELSE ClientStep(c, "wait", "mark")

StopMark(c) ==
  /\ Write(mine[c], "stopping") /\ ClientStep(c, "mark", "signal")
  /\ UNCHANGED <<process, mine, polls>>

StopMarkFails(c) == Return(c, "mark") /\ WriteFails /\ UNCHANGED process

\* SIGTERM: the first one aborts the run, a second one has no listener left.
StopSignal(c) ==
  /\ ClientStep(c, "signal", "poll") /\ UNCHANGED <<record, code, mine, polls>>
  /\ IF proc \in Executing /\ terms = 1 THEN EndsAs("gone") /\ UNCHANGED terms
     ELSE /\ terms' = IF proc \in Executing THEN 1 ELSE terms
          /\ UNCHANGED <<proc, held, beat>>

\* The loops end with the record closed, the process gone, or patience over.
StopPoll(c) ==
  /\ pc[c] \in Waiting /\ Quiet /\ UNCHANGED mine
  /\ IF ~Alive
     THEN ClientStep(c, pc[c], "finalize") /\ UNCHANGED polls
     ELSE /\ polls[c] < MaxPolls /\ ~Closed(record)
          /\ ClientStep(c, pc[c], pc[c]) /\ polls' = [polls EXCEPT ![c] = @ + 1]

StopReturns(c) == pc[c] \in Waiting /\ Closed(record) /\ Quiet /\ Return(c, pc[c])

\* Mutant: patience over, the process is left to its SIGTERM.
StopKillNot(c) ==
  /\ polls[c] = MaxPolls /\ ~Closed(record) /\ Alive
  /\ ClientStep(c, "poll", "pollKilled") /\ polls' = [polls EXCEPT ![c] = 0]
  /\ UNCHANGED <<record, process, mine>>

StopKill(c) ==
  /\ polls[c] = MaxPolls /\ ~Closed(record) /\ Alive
  /\ ClientStep(c, "poll", "pollKilled") /\ polls' = [polls EXCEPT ![c] = 0]
  /\ EndsAs("dying") /\ UNCHANGED <<record, code, terms, mine>>

StopGivesUp(c) ==
  /\ polls[c] = MaxPolls /\ ~Closed(record) /\ Alive /\ Quiet
  /\ ClientStep(c, "pollKilled", "read") /\ polls' = [polls EXCEPT ![c] = 0]
  /\ UNCHANGED mine

\* finalizeIntentionalStop: the record of a process that is gone is closed.
FinalizeRead(c) ==
  /\ pc[c] = "finalize" /\ Quiet
  /\ IF Closed(record) THEN Return(c, "finalize")
     ELSE ClientStep(c, "finalize", "interrupt") /\ Mine(c, record) /\ UNCHANGED polls

FinalizeWrite(c) ==
  /\ Return(c, "interrupt") /\ UNCHANGED process
  /\ Write(mine[c], "interrupted") \/ WriteFails

-----------------------------------------------------------------------------
(* The environment *)

Killed ==
  /\ "kill" \in Faults /\ proc \in Executing /\ EndsAs("gone")
  /\ UNCHANGED <<record, starter, given, code, terms, pc, mine, polls, missed>>

\* A minute passes without a write; heartbeats prevent it unless the host sleeps.
GoesStale ==
  /\ record.fresh /\ record' = [record EXCEPT !.fresh = FALSE]
  /\ proc \in {"none", "unmanaged", "gone"} \/ "sleep" \in Faults
  /\ missed' = (missed \/ proc \in Executing \ Ending)
  /\ UNCHANGED <<starter, given, process, pc, mine, polls>>

Start == StartRecord \/ Spawn \/ SpawnFails \/ StartReturns \/ StartThrows \/ StarterDies

Run ==
  \/ BootRead \/ BootGivesUp \/ ActivateWrite \/ ActivateThrows
  \/ HeartbeatRead \/ HeartbeatWrite \/ FinishRead \/ FinishWrite \/ Exit \/ Dies

Call(c) ==
  \/ GetRead(c) \/ GetJudge(c) \/ GetFail(c) \/ GetFailThrows(c)
  \/ StopWait(c) \/ StopJudge(c) \/ StopMark(c) \/ StopMarkFails(c)
  \/ StopSignal(c) \/ StopPoll(c) \/ StopReturns(c) \/ StopKill(c)
  \/ StopGivesUp(c) \/ FinalizeRead(c) \/ FinalizeWrite(c)

Next ==
  \/ Start \/ Run \/ RunEnds \/ Killed \/ GoesStale
  \/ \E c \in Client : Get(c) \/ Stop(c) \/ Call(c)

Spec == Init /\ [][Next]_vars

\* The process and every call go on; clients poll, as the agent guide asks them
\* to; a disk that fails does not fail every write there ever is.  Nothing makes
\* a development run end.
Fairness ==
  /\ WF_vars(Run)
  /\ \A c \in Client : WF_vars(Get(c) \/ Call(c)) /\ SF_vars(GetFail(c))

-----------------------------------------------------------------------------
(* Properties *)

\* A task the clients see closed has no development run behind it, unless the
\* process was not heard of for a minute.
TerminalMeansOver == given /\ Closed(record) => proc \in Over \/ missed

\* A stop that got as far as its signal returns only when the run is over.
SignalledStopEnds ==
  [][\A c \in Client :
       pc[c] \in {"poll", "pollKilled", "finalize"} /\ pc'[c] \in {"idle", "read"}
         => proc' \in Over \/ missed']_vars

\* A process that is gone is noticed by those who poll, whoever it was that ended
\* it and however it was interrupted in its own record keeping.
GoneIsNoticed == given /\ proc = "gone" ~> Closed(record)

\* The outcome of a task that completed is kept.
CompletionIsKept == [][record.status = "completed" => record'.status = "completed"]_vars
=============================================================================
