----------------------------- MODULE AgentProofs ----------------------------
(***************************************************************************)
(* What agents start and ask for, proved about for every instance: that a  *)
(* managed task seen closed has no run behind it, for any number of        *)
(* clients (AgentTask); that runProcess is never left waiting for a        *)
(* process of its own that nothing will strike (ProcessRunner); and of the *)
(* MCP server, whose tools are commands, that mutations of one device      *)
(* exclude each other and that what is compared was taken of one device    *)
(* (McpServer).                                                            *)
(***************************************************************************)
EXTENDS AgentTask, ProcessRunner, McpServer, SequenceTheorems, TLAPS

-----------------------------------------------------------------------------
(* The managed task *)

\* The calls of a client that hold a record they will write back or judge by.
Holding == {"judge", "fail", "wait", "mark", "interrupt"}

\* What the start hands out, and to whom.
Handed ==
  /\ given => starter = "done" /\ record.pid
  /\ starter \in {"idle", "recorded"} => proc = "none"
  /\ starter = "spawned" => proc # "none"
  /\ proc = "none" => ~record.pid
  /\ \A c \in Client : pc[c] # "idle" => given

\* Every copy of the record that is still written back names the process.
NamesProcess ==
  /\ \A c \in Client : pc[c] \in Holding => mine[c].pid
  /\ proc \in {"activating", "closing"} => held.pid
  /\ beat # NoRecord => beat.pid /\ ~Closed(beat)

OverOrMissed == proc \in Over \/ missed

\* A record that is no longer fresh tells of a process that was not heard of.
StaleIsOver ==
  /\ record.pid /\ ~record.fresh => OverOrMissed
  /\ \A c \in Client : pc[c] \in Holding /\ ~mine[c].fresh => OverOrMissed

\* What a client has concluded stays true.
Judged ==
  \A c \in Client :
    /\ pc[c] = "fail" => OverOrMissed
    /\ pc[c] = "pollKilled" => proc \in Over
    /\ pc[c] \in {"finalize", "interrupt"} => proc = "gone"

TaskTypes ==
  /\ record \in Records \cup {NoRecord} /\ held \in Records \cup {NoRecord}
  /\ beat \in Records \cup {NoRecord}
  /\ proc \in Executing \cup {"none", "dying", "gone"} /\ code \in Terminal
  /\ given \in BOOLEAN /\ missed \in BOOLEAN
  /\ pc \in [Client -> Pcs] /\ mine \in [Client -> Records \cup {NoRecord}]

TaskInv == TaskTypes /\ Handed /\ NamesProcess /\ StaleIsOver /\ Judged /\ TerminalMeansOver

\* What a write leaves in the file.
LEMMA Written ==
  ASSUME NEW r \in Records \cup {NoRecord}, NEW st \in Status
  PROVE  LET w == [r EXCEPT !.status = st, !.fresh = TRUE]
         IN  w \in Records /\ w.status = st /\ w.pid = r.pid /\ w.fresh
<1>1. CASE r \in Records
  BY <1>1 DEF Records
<1>2. CASE r = NoRecord
  BY <1>2 DEF Records, NoRecord
<1> QED BY <1>1, <1>2

\* Whoever takes a step, these are what keeps the invariant: a process that is over
\* stays over, what is written names it and is fresh, and a client concludes only
\* what is so.
LEMMA StepKeeps ==
  ASSUME TaskInv, TaskTypes', UNCHANGED <<starter, given>>, missed => missed',
         proc \in Over => proc' \in Over, proc = "gone" => proc' = "gone",
         proc = "none" <=> proc' = "none",
         \/ record' = record
         \/ /\ record'.pid /\ record'.fresh /\ proc # "none"
            /\ record'.status \in Terminal => OverOrMissed',
         proc' \in {"activating", "closing"} => held'.pid,
         beat' # NoRecord => beat'.pid /\ beat'.status \notin Terminal,
         \A c \in Client :
           \/ pc'[c] = pc[c] /\ mine'[c] = mine[c]
           \/ /\ given
              /\ pc'[c] \in Holding => mine'[c].pid /\ (mine'[c].fresh \/ OverOrMissed')
              /\ pc'[c] = "fail" => OverOrMissed'
              /\ pc'[c] = "pollKilled" => proc' \in Over
              /\ pc'[c] \in {"finalize", "interrupt"} => proc' = "gone"
  PROVE  TaskInv'
<1> USE DEF TaskInv
<1>0. OverOrMissed => OverOrMissed'
  BY DEF OverOrMissed
<1>1. Handed'
  BY DEF Handed
<1>2. NamesProcess'
  BY DEF NamesProcess, Closed
<1>3. StaleIsOver'
  BY <1>0 DEF StaleIsOver
<1>4. Judged'
  BY <1>0 DEF Judged
<1>5. TerminalMeansOver'
  BY <1>0 DEF TerminalMeansOver, OverOrMissed, Closed
<1> QED BY <1>1, <1>2, <1>3, <1>4, <1>5

LEMMA TaskBegins == Init => TaskInv
<1> SUFFICES ASSUME Init PROVE TaskInv
  OBVIOUS
<1> USE DEF Init, NoRecord
<1>1. TaskTypes
  BY DEF TaskTypes, Executing, Booting, Pcs, Terminal
<1>2. Handed /\ NamesProcess /\ StaleIsOver /\ Judged /\ TerminalMeansOver
  BY DEF Handed, NamesProcess, StaleIsOver, Judged, TerminalMeansOver, Holding
<1> QED BY <1>1, <1>2 DEF TaskInv

\* The steps of the managed process, and its end.
LEMMA ProcessKeeps ==
  ASSUME TaskInv, Run \/ RunEnds \/ Killed
  PROVE  TaskInv'
<1> DEFINE Alike == UNCHANGED <<starter, given, missed, pc, mine>>
           Onward == /\ proc \in Executing \cup {"dying"}
                     /\ proc' \in Executing \cup {"dying", "gone"}
                     /\ proc \in Over => proc' \in Over
           Kept == /\ held' \in Records \cup {NoRecord} /\ beat' \in Records \cup {NoRecord}
                   /\ code' \in Terminal
                   /\ proc' \in {"activating", "closing"} => held'.pid
                   /\ beat' # NoRecord => beat'.pid /\ beat'.status \notin Terminal
           Noted == \/ record' = record
                    \/ /\ record' \in Records /\ record'.pid /\ record'.fresh
                       /\ record'.status \in Terminal => OverOrMissed'
<1>1. ASSUME Alike, Onward, Kept, Noted PROVE TaskInv'
  <2>1. TaskTypes'
    BY <1>1 DEF TaskInv, TaskTypes
  <2>2. proc # "none" /\ proc' # "none" /\ proc # "gone"
    BY <1>1 DEF Executing, Booting, Ending
  <2> QED BY <1>1, <2>1, <2>2, StepKeeps
<1>2. SUFFICES Alike /\ Onward /\ Kept /\ Noted
  BY <1>1
<1> USE DEF Executing, Booting, Ending, Over
<1>3. /\ record \in Records \cup {NoRecord} /\ held \in Records \cup {NoRecord}
      /\ beat \in Records \cup {NoRecord} /\ code \in Terminal
      /\ proc \in {"activating", "closing"} => held.pid
      /\ beat # NoRecord => beat.pid /\ beat.status \notin Terminal
  BY DEF TaskInv, TaskTypes, NamesProcess, Closed
<1>4. Terminal \subseteq Status /\ "running" \in Status \ Terminal
  BY DEF Status, Terminal

<1>5. CASE BootRead
  BY <1>3, <1>5 DEF BootRead, ProcessStep, NoRecord
<1>6. CASE BootGivesUp
  BY <1>3, <1>6 DEF BootGivesUp, ProcessStep, NoRecord
<1>7. CASE ActivateWrite
  <2> DEFINE w == [[held EXCEPT !.ready = TRUE] EXCEPT !.status = "running", !.fresh = TRUE]
  <2>1. held.pid /\ held \in Records
    BY <1>3, <1>7 DEF ActivateWrite, ProcessStep, NoRecord
  <2>2. [held EXCEPT !.ready = TRUE] \in Records /\ [held EXCEPT !.ready = TRUE].pid
    BY <2>1 DEF Records
  <2>3. w \in Records /\ w.status = "running" /\ w.pid /\ w.fresh
    BY <1>4, <2>2, Written
  <2>4. record' = w
    BY <1>7 DEF ActivateWrite, Write
  <2> HIDE DEF w
  <2> QED BY <1>3, <1>4, <1>7, <2>3, <2>4 DEF ActivateWrite, ProcessStep, NoRecord
<1>8. CASE ActivateThrows
  BY <1>3, <1>8 DEF ActivateThrows, ProcessStep, NoRecord, WriteFails
<1>9. CASE HeartbeatRead
  BY <1>3, <1>9 DEF HeartbeatRead, ProcessStep, NoRecord, Closed
<1>10. CASE HeartbeatWrite
  <2> DEFINE w == [beat EXCEPT !.status = beat.status, !.fresh = TRUE]
  <2>1. beat \in Records /\ beat.pid /\ beat.status \in Status \ Terminal
    BY <1>3, <1>10 DEF HeartbeatWrite, Records
  <2>2. w \in Records /\ w.status = beat.status /\ w.pid /\ w.fresh
    BY <2>1, Written
  <2>3. record' = w \/ record' = record
    BY <1>10 DEF HeartbeatWrite, Write, WriteFails
  <2> HIDE DEF w
  <2> QED BY <1>3, <1>10, <2>1, <2>2, <2>3 DEF HeartbeatWrite, NoRecord
<1>11. CASE FinishRead
  BY <1>3, <1>11 DEF FinishRead, ProcessStep, NoRecord, Closed
<1>12. CASE FinishWrite
  <2> DEFINE w == [held EXCEPT !.status = code, !.fresh = TRUE]
  <2>1. w \in Records /\ w.pid /\ w.fresh
    BY <1>3, <1>4, <1>12, Written DEF FinishWrite, ProcessStep
  <2>2. record' = w \/ record' = record
    BY <1>12 DEF FinishWrite, Write, WriteFails
  <2> HIDE DEF w
  <2> QED BY <1>3, <1>12, <2>1, <2>2 DEF FinishWrite, ProcessStep, NoRecord, OverOrMissed
<1>13. CASE Exit
  BY <1>3, <1>13 DEF Exit, ProcessStep, NoRecord
<1>14. CASE Dies
  BY <1>3, <1>14 DEF Dies, ProcessStep, NoRecord
<1>15. CASE RunEnds
  BY <1>3, <1>15 DEF RunEnds, ProcessStep, NoRecord, Terminal
<1>16. CASE Killed
  BY <1>3, <1>16 DEF Killed, ProcessStep, NoRecord, EndsAs
<1> QED BY <1>5, <1>6, <1>7, <1>8, <1>9, <1>10, <1>11, <1>12, <1>13, <1>14, <1>15, <1>16 DEF Run

\* The steps of a client's call.
LEMMA CallKeeps ==
  ASSUME TaskInv, NEW c \in Client, Get(c) \/ Stop(c) \/ Call(c)
  PROVE  TaskInv'
<1> DEFINE Alike == UNCHANGED <<starter, given, missed>>
           Elsewhere == \A d \in Client \ {c} : pc'[d] = pc[d] /\ mine'[d] = mine[d]
           Own == /\ given \/ (pc'[c] = pc[c] /\ mine'[c] = mine[c])
                  /\ pc' \in [Client -> Pcs] /\ mine' \in [Client -> Records \cup {NoRecord}]
                  /\ pc'[c] \in Holding => mine'[c].pid /\ (mine'[c].fresh \/ OverOrMissed')
                  /\ pc'[c] = "fail" => OverOrMissed'
                  /\ pc'[c] = "pollKilled" => proc' \in Over
                  /\ pc'[c] \in {"finalize", "interrupt"} => proc' = "gone"
           Same == UNCHANGED <<proc, code, held, beat>>
           Struckdown == /\ UNCHANGED code /\ held' = NoRecord /\ beat' = NoRecord
                         /\ proc \notin {"none", "gone"}
                         /\ proc' = "gone" \/ (proc' = "dying" /\ proc # "gone")
           Noted == \/ record' = record
                    \/ /\ given /\ record' \in Records /\ record'.pid /\ record'.fresh
                       /\ record'.status \in Terminal => OverOrMissed'
<1>1. /\ record \in Records \cup {NoRecord} /\ mine \in [Client -> Records \cup {NoRecord}]
      /\ pc \in [Client -> Pcs] /\ (pc[c] # "idle" => given) /\ (given => record.pid /\ proc # "none")
      /\ pc[c] \in Holding => mine[c].pid /\ (mine[c].fresh \/ OverOrMissed)
      /\ pc[c] = "fail" => OverOrMissed
      /\ pc[c] = "pollKilled" => proc \in Over
      /\ pc[c] \in {"finalize", "interrupt"} => proc = "gone"
      /\ record.pid /\ ~record.fresh => OverOrMissed
      /\ given /\ record.status \in Terminal => OverOrMissed
  BY DEF TaskInv, TaskTypes, Handed, NamesProcess, StaleIsOver, Judged, TerminalMeansOver,
         OverOrMissed, Closed
<1>2. ASSUME Alike, Elsewhere, Own, Same \/ Struckdown, Noted PROVE TaskInv'
  <2>1. TaskTypes'
    BY <1>2 DEF TaskInv, TaskTypes
  <2>2. /\ proc' \in {"activating", "closing"} => held'.pid
        /\ beat' # NoRecord => beat'.pid /\ beat'.status \notin Terminal
    BY <1>2 DEF TaskInv, NamesProcess, Closed
  <2>3. /\ proc \in Over => proc' \in Over
        /\ proc = "gone" => proc' = "gone" /\ (proc = "none" <=> proc' = "none")
    BY <1>2 DEF Over, Ending
  <2>4. proc = "none" <=> proc' = "none"
    BY <1>2
  <2>5. record' = record \/ proc # "none"
    BY <1>1, <1>2 DEF Handed, TaskInv
  <2> QED BY <1>2, <2>1, <2>2, <2>3, <2>4, <2>5, StepKeeps
<1>3. SUFFICES Alike /\ Elsewhere /\ Own /\ (Same \/ Struckdown) /\ Noted
  BY <1>2
<1> USE DEF Holding, Pcs, Waiting
<1>4. CASE Get(c) \/ GetRead(c)
  <2>1. given => record.pid /\ (record.fresh \/ OverOrMissed')
    BY <1>1, <1>4 DEF Get, GetRead, ClientStep, Return, Quiet, process, OverOrMissed
  <2> QED BY <1>1, <1>4, <2>1
          DEF Get, GetRead, ClientStep, Return, Mine, Quiet, process, Closed, NoRecord
<1>5. CASE GetJudge(c)
  <2>1. pc[c] = "judge" /\ (Lost(mine[c]) => OverOrMissed)
    BY <1>1, <1>5 DEF GetJudge, Lost, Alive, OverOrMissed, Over
  <2>2. OverOrMissed => OverOrMissed'
    BY <1>5 DEF GetJudge, ClientStep, Return, Quiet, process, OverOrMissed
  <2> QED BY <1>1, <1>5, <2>1, <2>2 DEF GetJudge, ClientStep, Return, Mine, Quiet, process,
             NoRecord
<1>6. CASE GetFail(c)
  <2> DEFINE w == [mine[c] EXCEPT !.status = "failed", !.fresh = TRUE]
  <2>1. w \in Records /\ w.pid /\ w.fresh /\ OverOrMissed
    <3>1. /\ mine[c] \in Records \cup {NoRecord} /\ "failed" \in Status
          /\ mine[c].pid /\ OverOrMissed
      BY <1>1, <1>6 DEF GetFail, Return, ClientStep, Status, Terminal
    <3> QED BY <3>1, Written
  <2>2. OverOrMissed'
    BY <1>6, <2>1 DEF GetFail, ClientStep, Return, process, OverOrMissed
  <2>3. record' = w
    BY <1>6 DEF GetFail, Write
  <2> HIDE DEF w
  <2> QED BY <1>1, <1>6, <2>1, <2>2, <2>3 DEF GetFail, ClientStep, Return, Mine, process,
             NoRecord
<1>7. CASE GetFailThrows(c) \/ StopMarkFails(c)
  BY <1>1, <1>7 DEF GetFailThrows, StopMarkFails, WriteFails, ClientStep, Return, Mine, process,
     NoRecord
<1>8. CASE Stop(c) \/ StopWait(c)
  BY <1>1, <1>8 DEF Stop, StopWait, ClientStep, Mine, Quiet, process, OverOrMissed, NoRecord
<1>9. CASE StopJudge(c)
  <2>1. pc[c] = "wait" /\ UNCHANGED <<mine, record, missed, proc>>
    BY <1>9 DEF StopJudge, ClientStep, Quiet, process
  <2> QED BY <1>1, <1>9, <2>1 DEF StopJudge, ClientStep, Quiet, process, OverOrMissed
<1>10. CASE StopMark(c)
  <2> DEFINE w == [mine[c] EXCEPT !.status = "stopping", !.fresh = TRUE]
  <2>1. w \in Records /\ w.pid /\ w.fresh /\ w.status \notin Terminal
    <3>1. /\ mine[c] \in Records \cup {NoRecord} /\ "stopping" \in Status \ Terminal
          /\ mine[c].pid
      BY <1>1, <1>10 DEF StopMark, ClientStep, Status, Terminal
    <3> QED BY <3>1, Written
  <2>2. record' = w
    BY <1>10 DEF StopMark, Write
  <2> HIDE DEF w
  <2> QED BY <1>1, <1>10, <2>1, <2>2 DEF StopMark, ClientStep, process
<1>11. CASE StopSignal(c)
  BY <1>1, <1>11 DEF StopSignal, ClientStep, EndsAs, Executing, Booting, Ending
<1>12. CASE StopPoll(c)
  BY <1>1, <1>12 DEF StopPoll, ClientStep, Quiet, process, Alive
<1>13. CASE StopReturns(c)
  BY <1>1, <1>13 DEF StopReturns, ClientStep, Return, Mine, Quiet, process, NoRecord
<1>14. CASE StopKill(c)
  BY <1>1, <1>14 DEF StopKill, ClientStep, EndsAs, Alive, Over
<1>15. CASE StopGivesUp(c)
  BY <1>1, <1>15 DEF StopGivesUp, ClientStep, Quiet, process
<1>16. CASE FinalizeRead(c)
  <2>1. record.pid /\ (record.fresh \/ OverOrMissed')
    BY <1>1, <1>16 DEF FinalizeRead, ClientStep, Return, Quiet, process, OverOrMissed
  <2> QED BY <1>1, <1>16, <2>1 DEF FinalizeRead, ClientStep, Return, Mine, Quiet, process,
             NoRecord
<1>17. CASE FinalizeWrite(c)
  <2> DEFINE w == [mine[c] EXCEPT !.status = "interrupted", !.fresh = TRUE]
  <2>1. w \in Records /\ w.pid /\ w.fresh
    <3>1. /\ mine[c] \in Records \cup {NoRecord} /\ "interrupted" \in Status
          /\ mine[c].pid
      BY <1>1, <1>17 DEF FinalizeWrite, Return, ClientStep, Status, Terminal
    <3> QED BY <3>1, Written
  <2>2. OverOrMissed'
    BY <1>1, <1>17 DEF FinalizeWrite, ClientStep, Return, process, OverOrMissed, Over
  <2>3. record' = w \/ record' = record
    BY <1>17 DEF FinalizeWrite, Write, WriteFails
  <2> HIDE DEF w
  <2> QED BY <1>1, <1>17, <2>1, <2>2, <2>3
          DEF FinalizeWrite, ClientStep, Return, Mine, process, NoRecord
<1> QED BY <1>4, <1>5, <1>6, <1>7, <1>8, <1>9, <1>10, <1>11, <1>12, <1>13, <1>14, <1>15, <1>16, <1>17
           DEF Call

\* The steps of the start.  The handle is given out with a record that says running.
LEMMA StartKeeps ==
  ASSUME TaskInv, Start
  PROVE  TaskInv'
<1> USE DEF TaskInv
<1>1. /\ ~given /\ \A c \in Client : pc[c] = "idle"
      /\ starter \in {"idle", "recorded"} => proc = "none"
      /\ record \in Records \cup {NoRecord}
  BY DEF Handed, TaskTypes, Start, StartRecord, Spawn, SpawnFails, StartReturns, StartThrows,
         StarterDies
<1>2. /\ Started \in Records /\ ~Started.pid /\ Started.fresh
      /\ "running" \in Status \ Terminal /\ "failed" \in Status
  BY DEF Started, Records, Status, Terminal
<1> DEFINE named == [Started EXCEPT !.pid = TRUE]
<1>3. named \in Records /\ named.pid
  BY <1>2 DEF Records
<1>4. CASE StartRecord \/ Spawn \/ StarterDies
  <2>1. /\ record' = record \/ (record' = Started /\ proc = "none")
        /\ proc' = proc \/ (proc' = "booting" /\ starter' = "spawned")
        /\ starter' \in {"idle", "recorded"} => proc' = "none"
        /\ starter' = "spawned" => proc' # "none"
        /\ UNCHANGED <<given, code, held, beat, pc, mine, missed>>
    BY <1>1, <1>4 DEF Handed, StartRecord, Spawn, StarterDies, process
  <2>2. /\ proc # proc' => proc = "none"
    BY <1>1, <1>4 DEF StartRecord, Spawn, StarterDies, process
  <2>3. TaskTypes'
    BY <1>2, <2>1 DEF TaskTypes, Executing, Booting
  <2>4. Handed' /\ NamesProcess' /\ Judged' /\ TerminalMeansOver'
    BY <1>1, <1>2, <2>1, <2>2 DEF Handed, NamesProcess, Judged, TerminalMeansOver, Holding, Closed
  <2>5. StaleIsOver'
    BY <1>1, <1>2, <2>1, <2>2 DEF StaleIsOver, Handed, Holding, OverOrMissed, Over, Ending
  <2> QED BY <2>3, <2>4, <2>5
<1>5. CASE SpawnFails
  <2> DEFINE w == [record EXCEPT !.status = "failed", !.fresh = TRUE]
  <2>1. w \in Records /\ w.pid = record.pid /\ w.fresh
    BY <1>1, <1>2, Written
  <2>2. record' = w \/ record' = record
    BY <1>5 DEF SpawnFails, Write, WriteFails
  <2>3. starter = "recorded" /\ starter' = "done" /\ UNCHANGED <<given, process, pc, mine, missed>>
    BY <1>5 DEF SpawnFails
  <2> HIDE DEF w
  <2> USE <1>1, <2>1, <2>2, <2>3 DEF process
  <2>4. TaskTypes'
    BY DEF TaskTypes
  <2>5. Handed' /\ NamesProcess' /\ StaleIsOver' /\ Judged' /\ TerminalMeansOver'
    BY DEF Handed, NamesProcess, StaleIsOver, OverOrMissed, Judged, TerminalMeansOver, Holding
  <2> QED BY <2>4, <2>5
<1>6. CASE StartReturns \/ StartThrows
  <2> DEFINE runs == [named EXCEPT !.status = "running", !.fresh = TRUE]
             fails == [named EXCEPT !.status = "failed", !.fresh = TRUE]
  <2>1. runs \in Records /\ runs.pid /\ runs.fresh /\ runs.status = "running"
    BY <1>2, <1>3, Written
  <2>2. fails \in Records /\ fails.pid /\ fails.fresh
    BY <1>2, <1>3, Written
  <2>3. /\ starter = "spawned" /\ starter' = "done" /\ UNCHANGED <<process, pc, mine, missed>>
        /\ \/ given' = TRUE /\ record' = runs
           \/ given' = given /\ record' \in {fails, record}
    BY <1>1, <1>6 DEF StartReturns, StartThrows, Write
  <2> HIDE DEF runs, fails, named
  <2>4. /\ proc # "none" /\ record' \in Records \cup {NoRecord}
        /\ record' = record \/ record'.fresh
        /\ given' => record'.pid /\ record'.status \notin Terminal
    BY <1>1, <1>2, <2>1, <2>2, <2>3 DEF Handed
  <2> USE <1>1, <2>3, <2>4 DEF process
  <2>5. TaskTypes'
    BY DEF TaskTypes
  <2>6. Handed' /\ NamesProcess' /\ StaleIsOver' /\ Judged' /\ TerminalMeansOver'
    BY DEF Handed, NamesProcess, StaleIsOver, OverOrMissed, Judged, TerminalMeansOver, Holding, Closed
  <2> QED BY <2>5, <2>6
<1> QED BY <1>4, <1>5, <1>6 DEF Start

\* A record that is no longer fresh while its process lives on is noted.
LEMMA StaleKeeps ==
  ASSUME TaskInv, GoesStale
  PROVE  TaskInv'
<1> USE DEF TaskInv
<1> DEFINE old == [record EXCEPT !.fresh = FALSE]
<1>1. record \in Records /\ old \in Records /\ old.pid = record.pid /\ old.status = record.status
  <2>1. record \in Records
    BY DEF GoesStale, TaskTypes, NoRecord
  <2> QED BY <2>1 DEF Records
<1>2. /\ record' = old /\ UNCHANGED <<starter, given, process, pc, mine>>
      /\ missed' = (missed \/ proc \in Executing \ Ending)
  BY DEF GoesStale
<1> HIDE DEF old
<1>3. TaskTypes' /\ Handed' /\ NamesProcess'
  BY <1>1, <1>2 DEF TaskTypes, Handed, NamesProcess, process
<1>4. OverOrMissed => OverOrMissed'
  BY <1>2 DEF OverOrMissed, process
<1>5. record.pid => OverOrMissed'
  BY <1>2 DEF Handed, TaskTypes, OverOrMissed, Over, Executing, process
<1>6. StaleIsOver'
  BY <1>1, <1>2, <1>4, <1>5 DEF StaleIsOver
<1>7. Judged' /\ TerminalMeansOver'
  BY <1>1, <1>2, <1>4 DEF Judged, TerminalMeansOver, OverOrMissed, Closed, process
<1> QED BY <1>3, <1>6, <1>7

LEMMA TaskSteps == TaskInv /\ [Next]_vars => TaskInv'
<1> SUFFICES ASSUME TaskInv, [Next]_vars PROVE TaskInv'
  OBVIOUS
<1>1. CASE UNCHANGED vars
  <2>1. TaskTypes'
    BY <1>1 DEF TaskInv, TaskTypes, vars, process
  <2> QED BY <1>1, <2>1
          DEF TaskInv, vars, process, Handed, NamesProcess, StaleIsOver, OverOrMissed, Judged,
              TerminalMeansOver
<1>2. CASE \E c \in Client : Get(c) \/ Stop(c) \/ Call(c)
  <2>1. PICK c \in Client : Get(c) \/ Stop(c) \/ Call(c)
    BY <1>2
  <2> QED BY <2>1, CallKeeps
<1> QED BY <1>1, <1>2, StartKeeps, ProcessKeeps, StaleKeeps DEF Next

\* A task that the clients see closed has no development run behind it, unless its
\* process was not heard of for a minute: for any number of connections, polls and
\* faults (dev-task.ts, getAgentDevTask and stopAgentDevTask).
THEOREM ClosedTaskIsOver == Spec => []TerminalMeansOver
<1>1. TaskInv => TerminalMeansOver
  BY DEF TaskInv
<1> QED BY <1>1, TaskBegins, TaskSteps, PTL DEF Spec

\* A stop that got as far as its signal returns only when the run is over.
THEOREM StopReturnsWhenOver == Spec => SignalledStopEnds
<1> DEFINE Ends == \A c \in Client :
             pc[c] \in {"poll", "pollKilled", "finalize"} /\ pc'[c] \in {"idle", "read"}
               => proc' \in Over \/ missed'
<1>1. ASSUME TaskInv, Next, NEW c \in Client,
             pc[c] \in {"poll", "pollKilled", "finalize"}, pc'[c] \in {"idle", "read"}
      PROVE  proc' \in Over \/ missed'
  <2>1. pc' # pc /\ pc \in [Client -> Pcs]
    BY <1>1 DEF TaskInv, TaskTypes
  <2>2. PICK d \in Client : Get(d) \/ Stop(d) \/ Call(d)
    BY <1>1, <2>1
       DEF Next, Start, StartRecord, Spawn, SpawnFails, StartReturns, StartThrows, StarterDies,
           Run, BootRead, BootGivesUp, ActivateWrite, ActivateThrows, HeartbeatRead,
           HeartbeatWrite, RunEnds, FinishRead, FinishWrite, Exit, Dies, ProcessStep, Killed,
           GoesStale
  <2>3. d = c /\ (StopReturns(d) \/ StopGivesUp(d) \/ FinalizeRead(d))
    BY <1>1, <2>1, <2>2
       DEF Get, Stop, Call, GetRead, GetJudge, GetFail, GetFailThrows, StopWait, StopJudge,
           StopMark, StopMarkFails, StopSignal, StopPoll, StopReturns, StopKill, StopGivesUp,
           FinalizeRead, FinalizeWrite, ClientStep, Return
  <2>4. StopReturns(c) \/ StopGivesUp(c) \/ FinalizeRead(c)
    BY <2>3
  <2>5. UNCHANGED <<proc, missed>>
    BY <2>4 DEF StopReturns, StopGivesUp, FinalizeRead, ClientStep, Return, Quiet, process
  <2>6. proc \in Over \/ missed
    <3>1. CASE StopReturns(c)
      BY <1>1, <3>1 DEF StopReturns, TaskInv, Handed, TerminalMeansOver
    <3>2. CASE StopGivesUp(c)
      BY <1>1, <3>2 DEF StopGivesUp, ClientStep, TaskInv, Judged
    <3>3. CASE FinalizeRead(c)
      BY <1>1, <3>3 DEF FinalizeRead, TaskInv, Judged, Over
    <3> QED BY <2>4, <3>1, <3>2, <3>3
  <2> QED BY <2>5, <2>6
<1>2. TaskInv /\ [Next]_vars => [Ends]_vars
  BY <1>1
<1>3. SignalledStopEnds <=> [][Ends]_vars
  BY DEF SignalledStopEnds
<1> HIDE DEF Ends
<1> QED BY <1>2, <1>3, TaskBegins, TaskSteps, PTL DEF Spec

-----------------------------------------------------------------------------
(* The runner *)

\* A process of the call's own is alive.
OwnIsAlive == child \in Processes \/ (request.group /\ grand \in Processes)

\* The strongest signal there is has been sent, or is the first one to be sent.
KilledForGood == "killEscalated" \in ended \/ (request.kill = "SIGKILL" /\ AskedToEnd)

\* Before the spawn there is nothing, and no timer is set but while the child runs.
BeginsEmpty ==
  /\ running = "begin" => child = "none" /\ grand = "none" /\ ended = {}
  /\ running # "spawned" => timers = {}

\* Nothing survives the strongest signal, and the dead start no child.
KilledAreGone == KilledForGood /\ running = "spawned" => ~OwnIsAlive

RequestOK == request \in AllRequests \cup {NoRequest}

RunnerInv == RequestOK /\ BeginsEmpty /\ KilledAreGone /\ AskedToEndIsStruck

-----------------------------------------------------------------------------
(* What a signal does *)

\* A signal revives nobody, and SIGKILL spares nobody.
LEMMA StruckIsWeaker ==
  ASSUME NEW p, NEW sig
  PROVE  /\ Struck(p, sig) \in Processes => p \in Processes
         /\ sig = "SIGKILL" => Struck(p, sig) \notin Processes
  BY DEF Struck, Processes

LEMMA GroupIsBoolean == RequestOK => request.group \in BOOLEAN
  <1>1. CASE request \in AllRequests
    BY <1>1, Zenon DEF AllRequests
  <1>2. CASE request = NoRequest
    BY <1>2 DEF NoRequest
  <1> QED BY <1>1, <1>2 DEF RequestOK

\* terminate() leaves nothing of the call's own alive, or leaves the escalation set;
\* what was over stays over, and SIGKILL leaves nothing in any case.
LEMMA TerminateStrikes ==
  ASSUME RequestOK, KilledAreGone, running = "spawned", NEW set, Terminate(set), UNCHANGED request
  PROVE  /\ OwnIsAlive' => OwnIsAlive /\ "escalation" \in timers'
         /\ request.kill = "SIGKILL" => ~OwnIsAlive'
         /\ set \subseteq timers'
  <1>1. request.group \in BOOLEAN
    BY GroupIsBoolean
  <1>2. CASE TooLate
    <2>1. ~OwnIsAlive
      BY <1>2, <1>1 DEF TooLate, OwnIsAlive, Processes
    <2>2. ~OwnIsAlive' /\ timers' = set
      BY <2>1, <1>2 DEF Terminate, OwnIsAlive
    <2> QED BY <2>2
  <1>3. CASE ~TooLate
    <2>1. child' = Struck(child, request.kill) /\ timers' = set \cup Escalation
      BY <1>3 DEF Terminate, Strike
    <2>2. grand' = IF request.group THEN Struck(grand, request.kill) ELSE grand
      BY <1>3 DEF Terminate, Strike
    <2>3. OwnIsAlive' => OwnIsAlive
      BY <1>1, <2>1, <2>2, StruckIsWeaker DEF OwnIsAlive
    <2>4. request.kill = "SIGKILL" => ~OwnIsAlive'
      BY <1>1, <2>1, <2>2, StruckIsWeaker DEF OwnIsAlive
    <2>5. OwnIsAlive' => "escalation" \in Escalation
      BY <2>3, <2>4 DEF KilledAreGone, KilledForGood, Escalation
    <2> QED BY <2>1, <2>3, <2>4, <2>5
  <1> QED BY <1>2, <1>3

\* The steps that ask for the end of the call keep the invariant: they leave the
\* escalation, if it is needed, to come.
LEMMA AskingKeeps ==
  ASSUME RunnerInv, running = "spawned", UNCHANGED <<request, running>>,
         NEW set, Terminate(set), "killEscalated" \in ended' => "killEscalated" \in ended
  PROVE  RunnerInv'
  <1>1. RequestOK'
    BY DEF RunnerInv, RequestOK
  <1>2. BeginsEmpty'
    BY DEF BeginsEmpty
  <1>3. OwnIsAlive' => OwnIsAlive /\ "escalation" \in timers'
    BY TerminateStrikes DEF RunnerInv
  <1>4. request.kill = "SIGKILL" => ~OwnIsAlive'
    BY TerminateStrikes DEF RunnerInv
  <1>5. KilledAreGone'
    BY <1>3, <1>4 DEF RunnerInv, KilledAreGone, KilledForGood
  <1>6. AskedToEndIsStruck'
    BY <1>3 DEF AskedToEndIsStruck, OwnIsAlive
  <1> QED BY <1>1, <1>2, <1>5, <1>6 DEF RunnerInv

-----------------------------------------------------------------------------
(* The invariant *)

LEMMA RunnerBegins == RunnerInit => RunnerInv
  BY RequestsAssumption DEF RunnerInit, RunnerInv, RequestOK, BeginsEmpty, KilledAreGone,
     AskedToEndIsStruck

LEMMA RunnerSteps == RunnerInv /\ [RunnerNext]_runnerVars => RunnerInv'
  <1> SUFFICES ASSUME RunnerInv, [RunnerNext]_runnerVars PROVE RunnerInv'
    OBVIOUS
  <1>1. CASE Spawned
    <2>1. RequestOK' /\ BeginsEmpty' /\ ended = {} /\ running' # "begin"
      BY <1>1 DEF Spawned, Fixed, RunnerInv, RequestOK, BeginsEmpty
    <2>2. SUFFICES ASSUME running' = "spawned" PROVE KilledAreGone' /\ AskedToEndIsStruck'
      BY <2>1 DEF RunnerInv, KilledAreGone, AskedToEndIsStruck
    <2>3. grand' = "none" /\ "killEscalated" \notin ended'
      BY <1>1, <2>2 DEF Spawned
    <2>4. CASE raised
      <3>1. request.kill = "SIGKILL" => ~OwnIsAlive'
        BY <1>1, <2>2, <2>3, <2>4, StruckIsWeaker DEF Spawned, Fixed, OwnIsAlive, Processes
      <3>2. request.kill # "SIGKILL" => "escalation" \in timers'
        BY <1>1, <2>1, <2>2, <2>4 DEF Spawned, Escalation
      <3>3. request' = request
        BY <1>1 DEF Spawned, Fixed
      <3> QED BY <2>3, <3>1, <3>2, <3>3
              DEF KilledAreGone, KilledForGood, AskedToEndIsStruck, OwnIsAlive
    <2>5. CASE ~raised
      <3>1. ~AskedToEnd'
        BY <1>1, <2>2, <2>5 DEF Spawned, AskedToEnd
      <3> QED BY <2>3, <3>1 DEF KilledAreGone, KilledForGood, AskedToEndIsStruck
    <2> QED BY <2>4, <2>5
  <1>2. CASE TimesOut
    <2>1. CASE running = "spawned"
      BY <1>2, <2>1, AskingKeeps DEF TimesOut, Fixed
    <2>2. CASE running # "spawned"
      BY <1>2, <2>2 DEF TimesOut, RunnerInv, BeginsEmpty
    <2> QED BY <2>1, <2>2
  <1>3. CASE BecomesIdle
    <2>1. running = "spawned"
      BY <1>3 DEF BecomesIdle, RunnerInv, BeginsEmpty
    <2> QED BY <1>3, <2>1, AskingKeeps DEF BecomesIdle, Fixed
  <1>4. CASE Escalates
    <2>1. ~OwnIsAlive'
      BY <1>4, StruckIsWeaker DEF Escalates, Fixed, Strike, OwnIsAlive, RunnerInv, RequestOK,
         AllRequests, NoRequest
    <2>2. KilledAreGone' /\ AskedToEndIsStruck'
      BY <2>1 DEF KilledAreGone, AskedToEndIsStruck, OwnIsAlive
    <2>3. running = "spawned" /\ running' = running /\ request' = request
      BY <1>4 DEF Escalates, Fixed, RunnerInv, BeginsEmpty
    <2> QED BY <2>2, <2>3 DEF RunnerInv, RequestOK, BeginsEmpty
  <1>5. CASE Closes
    BY <1>5 DEF Closes, Fixed, RunnerInv, RequestOK, BeginsEmpty, KilledAreGone,
       AskedToEndIsStruck
  <1>6. CASE RaiseSignal
    <2>1. CASE running = "spawned"
      BY <1>6, <2>1, AskingKeeps DEF RaiseSignal
    <2>2. CASE running # "spawned"
      BY <1>6, <2>2 DEF RaiseSignal, RunnerInv, RequestOK, BeginsEmpty, KilledAreGone,
         AskedToEndIsStruck
    <2> QED BY <2>1, <2>2
  <1>7. CASE OutputArrives
    <2>1. CASE UNCHANGED <<child, grand, ended>> /\ timers' = timers \cup {"idle"}
      BY <1>7, <2>1 DEF OutputArrives, Fixed, RunnerInv, RequestOK, BeginsEmpty, KilledAreGone,
         KilledForGood, AskedToEnd, AskedToEndIsStruck, OwnIsAlive
    <2>2. CASE ended' = ended \cup {"streamError"} /\ Terminate(timers)
      BY <1>7, <2>2, AskingKeeps DEF OutputArrives, Fixed
    <2> QED BY <1>7, <2>1, <2>2 DEF OutputArrives
  <1>8. CASE ProcessLives
    <2>1. OwnIsAlive' => OwnIsAlive
      BY <1>8 DEF ProcessLives, Fixed, OwnIsAlive, Processes
    <2> QED BY <1>8, <2>1 DEF ProcessLives, Fixed, RunnerInv, RequestOK, BeginsEmpty,
               KilledAreGone, KilledForGood, AskedToEnd, AskedToEndIsStruck, OwnIsAlive
  <1>9. CASE UNCHANGED runnerVars
    BY <1>9 DEF runnerVars, RunnerInv, RequestOK, BeginsEmpty, KilledAreGone, KilledForGood,
       AskedToEnd, AskedToEndIsStruck, OwnIsAlive
  <1> QED BY <1>1, <1>2, <1>3, <1>4, <1>5, <1>6, <1>7, <1>8, <1>9 DEF RunnerNext

\* What the caller asked to end is over, or will be struck again: runProcess does not
\* wait for ever for a process of its own (process-runner.ts, terminate).
THEOREM AskedToEndWillBeStruck == RunnerSpec => []AskedToEndIsStruck
  <1>1. RunnerInv => AskedToEndIsStruck
    BY DEF RunnerInv
  <1> QED BY <1>1, RunnerBegins, RunnerSteps, PTL DEF RunnerSpec
-----------------------------------------------------------------------------
(* The MCP server: what its calls keep to *)

Fields == Arguments \cup {"at", "seen", "via", "diff", "ok"}
Outside == {"none", "queued"}
Begins == {"ensure", "base", "run", "input", "target"}

\* Every call keeps the connection and the tool it was asked for, and all its fields.
Shapes ==
  /\ plan \in Plans
  /\ calls = [k \in Planned |-> calls[k]]
  /\ \A k \in Planned : k \in Nat /\ DOMAIN calls[k] = Fields /\ calls[k].conn \in Connection
  /\ bound = [c \in Connection |-> bound[c]]

\* A call that has begun found every earlier one of its connection settled.
OneByOne ==
  \A k, m \in Planned : m < k /\ calls[m].conn = calls[k].conn /\ calls[k].at \notin Outside => calls[m].at = "ended"

\* A call of a tool that needs a target works with the binding it was admitted with.
Admitted == \A k \in Planned : Begun(k) /\ calls[k].tool \in TargetBound => calls[k].seen = bound[calls[k].conn]

\* Past its lease, a call that changes the target holds the lease of what is bound,
HoldsLease ==
  \A k \in Planned : Begun(k) /\ calls[k].at # "lease" /\ calls[k].tool \in Changing
                    => <<bound[calls[k].conn].identity, k>> \in leases
\* and an identity has one lease.
OneLease == \A l, h \in leases : l[1] = h[1] => l[2] = h[2]

\* What a comparison has in hand: nothing, then the base it took under the binding it
\* works with, and at the end perhaps both.
InHand(k) ==
  LET diff == calls[k].diff
  IN  \/ diff = NoDiff
      \/ /\ diff = <<diff[1]>>
         /\ calls[k].at = "ended" \/ (Begun(k) /\ diff[1].identity = bound[calls[k].conn].identity)
      \/ diff = <<diff[1], diff[2]>> /\ calls[k].at = "ended" /\ diff[1].identity = diff[2].identity
Compared == \A k \in Planned : InHand(k)

McpInv == Shapes /\ OneByOne /\ Admitted /\ HoldsLease /\ OneLease /\ Compared

-----------------------------------------------------------------------------
(* The tools and the calls *)

\* A tool's handler begins at a place that is neither a wait nor an end.
LEMMA HandlerBegins == ASSUME NEW tool PROVE Handler(tool) \in Begins
  BY DEF Handler, Begins

\* The tools that change the target look at it.
LEMMA ChangingIsBound == Changing \subseteq TargetBound
  BY DEF TargetBound

LEMMA McpInitially == McpInit => McpInv
  <1> SUFFICES ASSUME McpInit PROVE McpInv
    OBVIOUS
  <1>1. ASSUME NEW k \in Planned
        PROVE  /\ k \in Nat /\ DOMAIN calls[k] = Fields /\ calls[k].conn \in Connection
               /\ calls[k].at = "none" /\ calls[k].diff = NoDiff
    <2>1. k \in Nat /\ DOMAIN plan[k] = Arguments /\ plan[k].conn \in Connection
      BY PlansAssumption DEF McpInit, Planned
    <2>2. calls[k] = [x \in Fields |-> IF x \in Arguments THEN plan[k][x] ELSE NotSubmitted[x]]
      BY <2>1 DEF McpInit, Planned, Fields, NotSubmitted, Arguments, Amended
    <2>3. calls[k].conn = plan[k].conn /\ calls[k].at = NotSubmitted.at /\ calls[k].diff = NotSubmitted.diff
      BY <2>2 DEF Fields, Arguments
    <2> QED BY <2>1, <2>2, <2>3 DEF NotSubmitted
  <1>2. Shapes
    BY <1>1 DEF Shapes, McpInit
  <1>3. OneByOne /\ Admitted /\ HoldsLease /\ OneLease /\ Compared
    BY <1>1 DEF OneByOne, Admitted, HoldsLease, OneLease, Compared, InHand, Begun, Outside, McpInit
  <1> QED BY <1>2, <1>3 DEF McpInv

\* What Update does to a call, whatever fields it is handed.
LEMMA Updates ==
  ASSUME NEW k \in Planned, Shapes, NEW fields, DOMAIN fields \subseteq Fields \ Arguments,
         calls' = [calls EXCEPT ![k] = Amended(calls[k], fields)]
  PROVE  /\ calls' = [m \in Planned |-> calls'[m]]
         /\ \A m \in Planned \ {k} : calls'[m] = calls[m]
         /\ DOMAIN calls'[k] = Fields
         /\ calls'[k].conn = calls[k].conn /\ calls'[k].tool = calls[k].tool
         /\ \A x \in {"at", "seen", "diff"} : calls'[k][x] = IF x \in DOMAIN fields THEN fields[x] ELSE calls[k][x]
  <1>1. calls'[k] = [x \in Fields |-> IF x \in DOMAIN fields THEN fields[x] ELSE calls[k][x]]
    BY DEF Shapes, Amended, Fields
  <1>2. calls'[k].conn = calls[k].conn /\ calls'[k].tool = calls[k].tool
    BY <1>1 DEF Fields, Arguments
  <1> QED BY <1>1, <1>2 DEF Shapes, Fields


\* A step of one call keeps the invariant: what it has to keep to.
LEMMA OneStepKeeps ==
  ASSUME McpInv, NEW k \in Planned, UNCHANGED plan,
         calls' = [m \in Planned |-> calls'[m]], \A m \in Planned \ {k} : calls'[m] = calls[m],
         DOMAIN calls'[k] = Fields, calls'[k].conn = calls[k].conn, calls'[k].tool = calls[k].tool,
         calls[k].at # "ended",
         \/ calls'[k].at \in Outside \/ calls[k].at \notin Outside
         \/ \A m \in Planned : m < k /\ calls[m].conn = calls[k].conn => calls[m].at = "ended",
         bound' = [c \in Connection |-> bound'[c]],
         \/ bound' = bound
         \/ Begun(k) /\ calls'[k].at = "ended" /\ \A c \in Connection \ {calls[k].conn} : bound'[c] = bound[c],
         Begun(k)' /\ calls[k].tool \in TargetBound => calls'[k].seen = bound'[calls[k].conn],
         \A l \in leases : l[2] # k => l \in leases',
         Begun(k)' /\ calls'[k].at # "lease" /\ calls[k].tool \in Changing
           => <<bound'[calls[k].conn].identity, k>> \in leases',
         OneLease', InHand(k)'
  PROVE  McpInv'
  <1> USE DEF McpInv
  <1>1. Planned' = Planned /\ Shapes'
    BY DEF Shapes, Planned
  <1>2. OneByOne'
    <2> SUFFICES ASSUME NEW i \in Planned, NEW m \in Planned, m < i, calls'[m].conn = calls'[i].conn, calls'[i].at \notin Outside
                 PROVE  calls'[m].at = "ended"
      BY <1>1 DEF OneByOne
    <2>1. i # m /\ calls[m].conn = calls[i].conn
      BY DEF Shapes
    <2>2. calls[i].at \notin Outside => calls[m].at = "ended"
      BY <2>1 DEF OneByOne
    <2> QED BY <2>1, <2>2
  <1>3. ASSUME NEW m \in Planned, m # k, Begun(m) PROVE bound'[calls[m].conn] = bound[calls[m].conn]
    <2>1. Begun(k) => calls[m].conn # calls[k].conn
      <3>1. m < k \/ k < m
        BY <1>3 DEF Shapes
      <3> QED BY <1>3, <3>1 DEF OneByOne, Begun, Outside
    <2> QED BY <1>3, <2>1 DEF Shapes
  <1>4. \A m \in Planned \ {k} : Begun(m)' = Begun(m)
    BY DEF Begun
  <1>5. Admitted'
    BY <1>1, <1>3, <1>4 DEF Admitted
  <1>6. HoldsLease'
    <2> SUFFICES ASSUME NEW m \in Planned, m # k, Begun(m), calls[m].at # "lease", calls[m].tool \in Changing
                 PROVE  <<bound'[calls[m].conn].identity, m>> \in leases'
      BY <1>1, <1>4 DEF HoldsLease
    <2>1. <<bound[calls[m].conn].identity, m>> \in leases
      BY DEF HoldsLease
    <2> QED BY <2>1, <1>3
  <1>7. Compared'
    BY <1>1, <1>3, <1>4 DEF Compared, InHand
  <1> QED BY <1>1, <1>2, <1>5, <1>6, <1>7

-----------------------------------------------------------------------------
(* The queue and the lease *)

\* An answer ends a call with what it has in hand.
LEMMA Answers ==
  ASSUME McpInv, NEW k \in Planned, NEW ok, Answer(k, ok)
  PROVE  /\ calls' = [m \in Planned |-> calls'[m]] /\ \A m \in Planned \ {k} : calls'[m] = calls[m]
         /\ DOMAIN calls'[k] = Fields /\ calls'[k].conn = calls[k].conn /\ calls'[k].tool = calls[k].tool
         /\ calls'[k].at = "ended" /\ calls'[k].diff = calls[k].diff
  <1> DEFINE fields == AsEnded(ok)
  <1>1. DOMAIN fields = {"at", "ok", "seen", "via"} /\ fields.at = "ended"
    BY DEF AsEnded
  <1>2. DOMAIN fields \subseteq Fields \ Arguments
    BY <1>1 DEF Fields, Arguments
  <1>3. calls' = [calls EXCEPT ![k] = Amended(calls[k], fields)]
    BY DEF Answer, Update, McpInv, Shapes
  <1> HIDE DEF fields
  <1>4. /\ calls' = [m \in Planned |-> calls'[m]] /\ \A m \in Planned \ {k} : calls'[m] = calls[m]
        /\ DOMAIN calls'[k] = Fields /\ calls'[k].conn = calls[k].conn /\ calls'[k].tool = calls[k].tool
        /\ \A x \in {"at", "seen", "diff"} : calls'[k][x] = IF x \in DOMAIN fields THEN fields[x] ELSE calls[k][x]
    BY <1>2, <1>3, Updates DEF McpInv
  <1> QED BY <1>1, <1>4

\* A call that goes on to its next step.
LEMMA Goes ==
  ASSUME McpInv, NEW k \in Planned, NEW step, McpGo(k, step)
  PROVE  /\ calls' = [m \in Planned |-> calls'[m]] /\ \A m \in Planned \ {k} : calls'[m] = calls[m]
         /\ DOMAIN calls'[k] = Fields /\ calls'[k].conn = calls[k].conn /\ calls'[k].tool = calls[k].tool
         /\ calls'[k].at = step /\ calls'[k].diff = calls[k].diff /\ calls'[k].seen = calls[k].seen
  <1> DEFINE fields == [at |-> step]
  <1>1. DOMAIN fields = {"at"} /\ fields.at = step
    OBVIOUS
  <1>2. DOMAIN fields \subseteq Fields \ Arguments
    BY <1>1 DEF Fields, Arguments
  <1>3. calls' = [calls EXCEPT ![k] = Amended(calls[k], fields)]
    BY DEF McpGo, Update, McpInv, Shapes
  <1> HIDE DEF fields
  <1> QED BY <1>1, <1>2, <1>3, Updates DEF McpInv

\* The end of a call that had begun or was at the head of the queue.
LEMMA AnswerKeeps ==
  ASSUME McpInv, NEW k \in Planned, NEW ok, Answer(k, ok), UNCHANGED plan, calls[k].at # "ended",
         \/ calls[k].at \notin Outside
         \/ \A m \in Planned : m < k /\ calls[m].conn = calls[k].conn => calls[m].at = "ended",
         bound' = [c \in Connection |-> bound'[c]],
         \/ bound' = bound
         \/ Begun(k) /\ \A c \in Connection \ {calls[k].conn} : bound'[c] = bound[c],
         \A l \in leases : l[2] # k => l \in leases', leases' \subseteq leases
  PROVE  McpInv'
  <1>1. /\ calls' = [m \in Planned |-> calls'[m]] /\ \A m \in Planned \ {k} : calls'[m] = calls[m]
        /\ DOMAIN calls'[k] = Fields /\ calls'[k].conn = calls[k].conn /\ calls'[k].tool = calls[k].tool
        /\ calls'[k].at = "ended" /\ calls'[k].diff = calls[k].diff
    BY Answers
  <1>2. ~Begun(k)'
    BY <1>1 DEF Begun
  <1>3. OneLease'
    BY DEF McpInv, OneLease
  <1>4. InHand(k)'
    BY <1>1 DEF McpInv, Compared, InHand
  <1> QED BY <1>1, <1>2, <1>3, <1>4, OneStepKeeps

\* A call that goes on to its next step under the same binding and leases, with what
\* a comparison may have in hand.
LEMMA OnwardKeeps ==
  ASSUME McpInv, NEW k \in Planned, NEW fields, Update(k, fields), UNCHANGED <<plan, bound, leases>>,
         Begun(k), calls[k].at # "lease", fields.at \notin {"none", "queued", "lease", "ended"},
         "at" \in DOMAIN fields, DOMAIN fields \subseteq {"at", "via", "diff", "ok"},
         "diff" \in DOMAIN fields =>
           \/ fields.diff = NoDiff
           \/ fields.diff = <<fields.diff[1]>> /\ fields.diff[1].identity = bound[calls[k].conn].identity
  PROVE  McpInv'
  <1>0. DOMAIN fields \subseteq Fields \ Arguments /\ "seen" \notin DOMAIN fields
    BY DEF Fields, Arguments
  <1>1. calls' = [calls EXCEPT ![k] = Amended(calls[k], fields)]
    BY DEF Update, McpInv, Shapes
  <1>2. /\ calls' = [m \in Planned |-> calls'[m]] /\ \A m \in Planned \ {k} : calls'[m] = calls[m]
        /\ DOMAIN calls'[k] = Fields /\ calls'[k].conn = calls[k].conn /\ calls'[k].tool = calls[k].tool
        /\ \A x \in {"at", "seen", "diff"} : calls'[k][x] = IF x \in DOMAIN fields THEN fields[x] ELSE calls[k][x]
    BY <1>0, <1>1, Updates DEF McpInv
  <1>3. /\ calls'[k].at = fields.at /\ calls'[k].seen = calls[k].seen
        /\ calls'[k].diff = IF "diff" \in DOMAIN fields THEN fields.diff ELSE calls[k].diff
    BY <1>0, <1>2
  <1>4. Begun(k)' /\ calls[k].at # "ended" /\ calls[k].at \notin Outside
    BY <1>3 DEF Begun, Outside
  <1>5. calls[k].tool \in TargetBound => calls'[k].seen = bound'[calls[k].conn]
    BY <1>3 DEF McpInv, Admitted
  <1>6. calls[k].tool \in Changing => <<bound'[calls[k].conn].identity, k>> \in leases'
    BY DEF McpInv, HoldsLease
  <1>7. OneLease'
    BY DEF McpInv, OneLease
  <1>8. InHand(k)'
    <2>1. CASE "diff" \in DOMAIN fields
      BY <2>1, <1>2, <1>3, <1>4 DEF InHand
    <2>2. CASE "diff" \notin DOMAIN fields
      BY <2>2, <1>2, <1>3, <1>4 DEF McpInv, Compared, InHand
    <2> QED BY <2>1, <2>2
  <1>9. bound' = [c \in Connection |-> bound'[c]]
    BY DEF McpInv, Shapes
  <1> QED BY <1>2, <1>4, <1>5, <1>6, <1>7, <1>8, <1>9, OneStepKeeps

LEMMA GoingKeeps ==
  ASSUME McpInv, NEW k \in Planned, NEW step, McpGo(k, step), UNCHANGED <<plan, bound, leases>>,
         Begun(k), calls[k].at # "lease", step \notin {"none", "queued", "lease", "ended"}
  PROVE  McpInv'
  <1> DEFINE fields == [at |-> step]
  <1>1. Update(k, fields) /\ fields.at = step /\ DOMAIN fields = {"at"}
    BY DEF McpGo
  <1> HIDE DEF fields
  <1> QED BY <1>1, OnwardKeeps

\* A handler that returns leaves the call to its release, or at its end.
LEMMA ReturnKeeps ==
  ASSUME McpInv, NEW k \in Planned, NEW ok, NEW fields, AnswerCall(k, ok, fields), UNCHANGED <<plan, bound, leases>>,
         Begun(k), calls[k].at # "lease", DOMAIN fields \subseteq {"diff"},
         "diff" \in DOMAIN fields =>
           \/ fields.diff = NoDiff
           \/ calls[k].tool \notin Changing /\ fields.diff = <<fields.diff[1]>>
           \/ /\ calls[k].tool \notin Changing /\ fields.diff = <<fields.diff[1], fields.diff[2]>>
              /\ fields.diff[1].identity = fields.diff[2].identity
  PROVE  McpInv'
  <1>1. CASE calls[k].tool \in Changing
    <2> DEFINE released == [ok |-> ok, at |-> "release"]
               handed == Amended(released, fields)
    <2>1. DOMAIN handed = {"ok", "at"} \cup DOMAIN fields
      BY DEF Amended
    <2>2. handed.at = "release" /\ ("diff" \in DOMAIN fields => handed.diff = fields.diff)
      BY DEF Amended
    <2>3. Update(k, handed)
      BY <1>1 DEF AnswerCall, ShouldLease
    <2> HIDE DEF handed
    <2> QED BY <1>1, <2>1, <2>2, <2>3, OnwardKeeps
  <1>2. CASE calls[k].tool \notin Changing
    <2> DEFINE handed == Amended(AsEnded(ok), fields)
    <2>1. DOMAIN handed = {"at", "ok", "seen", "via"} \cup DOMAIN fields
      BY DEF Amended, AsEnded
    <2>2. handed.at = "ended" /\ ("diff" \in DOMAIN fields => handed.diff = fields.diff)
      BY DEF Amended, AsEnded
    <2>3. calls' = [calls EXCEPT ![k] = Amended(calls[k], handed)]
      BY <1>2 DEF AnswerCall, Update, ShouldLease, McpInv, Shapes
    <2> HIDE DEF handed
    <2>4. DOMAIN handed \subseteq Fields \ Arguments
      BY <2>1 DEF Fields, Arguments
    <2>5. /\ calls' = [m \in Planned |-> calls'[m]] /\ \A m \in Planned \ {k} : calls'[m] = calls[m]
          /\ DOMAIN calls'[k] = Fields /\ calls'[k].conn = calls[k].conn /\ calls'[k].tool = calls[k].tool
          /\ \A x \in {"at", "seen", "diff"} : calls'[k][x] = IF x \in DOMAIN handed THEN handed[x] ELSE calls[k][x]
      BY <2>3, <2>4, Updates DEF McpInv
    <2>6. calls'[k].at = "ended" /\ ~Begun(k)'
      BY <2>1, <2>2, <2>5 DEF Begun
    <2>7. calls'[k].diff = IF "diff" \in DOMAIN fields THEN fields.diff ELSE calls[k].diff
      BY <2>1, <2>2, <2>5
    <2>8. InHand(k)'
      BY <1>2, <2>6, <2>7 DEF McpInv, Compared, InHand
    <2>9. OneLease' /\ bound' = [c \in Connection |-> bound'[c]]
      BY DEF McpInv, OneLease, Shapes
    <2> QED BY <2>5, <2>6, <2>8, <2>9, OneStepKeeps DEF Begun, Outside
  <1> QED BY <1>1, <1>2

-----------------------------------------------------------------------------
(* One lemma per step of a call *)

LEMMA SubmitKeeps == ASSUME McpInv, NEW k \in Planned, Submit(k) PROVE McpInv'
  <1>1. McpGo(k, "queued") /\ UNCHANGED <<plan, bound, leases>> /\ calls[k].at = "none"
    BY DEF Submit, World, Submitted
  <1>2. /\ calls' = [m \in Planned |-> calls'[m]] /\ \A m \in Planned \ {k} : calls'[m] = calls[m]
        /\ DOMAIN calls'[k] = Fields /\ calls'[k].conn = calls[k].conn /\ calls'[k].tool = calls[k].tool
        /\ calls'[k].at = "queued" /\ calls'[k].diff = calls[k].diff
    BY <1>1, Goes
  <1>3. calls'[k].at \in Outside /\ calls[k].at # "ended" /\ ~Begun(k)'
    BY <1>1, <1>2 DEF Outside, Begun
  <1>4. InHand(k)'
    BY <1>1, <1>2 DEF McpInv, Compared, InHand, Begun
  <1>5. OneLease' /\ bound' = [c \in Connection |-> bound'[c]]
    BY <1>1 DEF McpInv, OneLease, Shapes
  <1> QED BY <1>1, <1>2, <1>3, <1>4, <1>5, OneStepKeeps

LEMMA BeginKeeps == ASSUME McpInv, NEW k \in Planned, Begin(k) PROVE McpInv'
  <1>1. /\ UNCHANGED <<plan, bound, leases>> /\ calls[k].at = "queued"
        /\ \A m \in Planned : m < k /\ calls[m].conn = calls[k].conn => calls[m].at = "ended"
    BY DEF Begin, Turn, World, Settled
  <1>2. OneLease' /\ bound' = [c \in Connection |-> bound'[c]]
    BY <1>1 DEF McpInv, OneLease, Shapes
  <1>3. CASE Answer(k, FALSE)
    BY <1>1, <1>2, <1>3, AnswerKeeps
  <1>4. CASE Update(k, [seen |-> bound[calls[k].conn],
                        at |-> IF ShouldLease(calls[k].tool) THEN "lease" ELSE Handler(calls[k].tool)])
    <2> DEFINE next == IF ShouldLease(calls[k].tool) THEN "lease" ELSE Handler(calls[k].tool)
               fields == [seen |-> bound[calls[k].conn], at |-> next]
    <2>1. DOMAIN fields = {"seen", "at"} /\ fields.at = next /\ fields.seen = bound[calls[k].conn]
      OBVIOUS
    <2>2. calls' = [calls EXCEPT ![k] = Amended(calls[k], fields)]
      BY <1>4 DEF Update, McpInv, Shapes
    <2>3. next \notin {"none", "queued", "ended"} /\ (calls[k].tool \in Changing => next = "lease")
      <3>1. Handler(calls[k].tool) \in Begins
        BY HandlerBegins
      <3> QED BY <3>1 DEF ShouldLease, Begins
    <2> HIDE DEF fields, next
    <2>4. DOMAIN fields \subseteq Fields \ Arguments
      BY <2>1 DEF Fields, Arguments
    <2>5. /\ calls' = [m \in Planned |-> calls'[m]] /\ \A m \in Planned \ {k} : calls'[m] = calls[m]
          /\ DOMAIN calls'[k] = Fields /\ calls'[k].conn = calls[k].conn /\ calls'[k].tool = calls[k].tool
          /\ \A x \in {"at", "seen", "diff"} : calls'[k][x] = IF x \in DOMAIN fields THEN fields[x] ELSE calls[k][x]
      BY <2>2, <2>4, Updates DEF McpInv
    <2>6. calls'[k].at = next /\ calls'[k].seen = bound[calls[k].conn] /\ calls'[k].diff = calls[k].diff
      BY <2>1, <2>5
    <2>7. InHand(k)'
      BY <1>1, <2>6 DEF McpInv, Compared, InHand, Begun
    <2> QED BY <1>1, <1>2, <2>3, <2>5, <2>6, <2>7, OneStepKeeps
  <1> QED BY <1>3, <1>4 DEF Begin

LEMMA TakeLeaseKeeps == ASSUME McpInv, NEW k \in Planned, TakeLease(k) PROVE McpInv'
  <1> DEFINE id == bound[calls[k].conn].identity
             next == Handler(calls[k].tool)
  <1>1. UNCHANGED <<plan, bound>> /\ calls[k].at = "lease" /\ Begun(k)
    BY DEF TakeLease, World, Begun
  <1>2. bound' = [c \in Connection |-> bound'[c]]
    BY <1>1 DEF McpInv, Shapes
  <1>3. CASE (\A l \in leases : l[1] # id) /\ leases' = leases \cup {<<id, k>>} /\ McpGo(k, next)
    <2>1. next \notin {"none", "queued", "lease", "ended"}
      <3>1. Handler(calls[k].tool) \in Begins
        BY HandlerBegins
      <3> QED BY <3>1 DEF Begins
    <2> HIDE DEF next
    <2>2. /\ calls' = [m \in Planned |-> calls'[m]] /\ \A m \in Planned \ {k} : calls'[m] = calls[m]
          /\ DOMAIN calls'[k] = Fields /\ calls'[k].conn = calls[k].conn /\ calls'[k].tool = calls[k].tool
          /\ calls'[k].at = next /\ calls'[k].diff = calls[k].diff /\ calls'[k].seen = calls[k].seen
      BY <1>3, Goes
    <2>3. Begun(k)' /\ calls[k].at # "ended" /\ calls[k].at \notin Outside
      BY <1>1, <2>1, <2>2 DEF Begun, Outside
    <2>4. calls[k].tool \in TargetBound => calls'[k].seen = bound'[calls[k].conn]
      BY <1>1, <2>2 DEF McpInv, Admitted
    <2>5. OneLease'
      BY <1>3 DEF McpInv, OneLease
    <2>6. InHand(k)'
      BY <1>1, <2>2, <2>3 DEF McpInv, Compared, InHand
    <2>7. <<bound'[calls[k].conn].identity, k>> \in leases' /\ \A l \in leases : l \in leases'
      BY <1>1, <1>3
    <2> QED BY <1>1, <1>2, <2>2, <2>3, <2>4, <2>5, <2>6, <2>7, OneStepKeeps
  <1>4. CASE Answer(k, FALSE) /\ UNCHANGED leases
    BY <1>1, <1>2, <1>4, AnswerKeeps DEF Outside
  <1> QED BY <1>3, <1>4 DEF TakeLease

LEMMA ReleaseKeeps == ASSUME McpInv, NEW k \in Planned, Release(k) PROVE McpInv'
  <1>1. /\ UNCHANGED <<plan, bound>> /\ calls[k].at = "release" /\ Answer(k, calls[k].ok)
        /\ leases' = {l \in leases : l[2] # k}
    BY DEF Release, World
  <1>2. bound' = [c \in Connection |-> bound'[c]]
    BY <1>1 DEF McpInv, Shapes
  <1>3. calls[k].at # "ended" /\ calls[k].at \notin Outside
    BY <1>1 DEF Outside
  <1> DEFINE ok == calls[k].ok
  <1>4. Answer(k, ok)
    BY <1>1
  <1> HIDE DEF ok
  <1> QED BY <1>1, <1>2, <1>3, <1>4, AnswerKeeps

\* An answer that binds a target: nothing else of its connection is under way.
LEMMA BindKeeps ==
  ASSUME McpInv, NEW k \in Planned, NEW t, NEW ok, Bind(k, t), Answer(k, ok), UNCHANGED <<plan, leases>>, Begun(k)
  PROVE  McpInv'
  <1>1. /\ bound' = [c \in Connection |-> bound'[c]]
        /\ \A c \in Connection \ {calls[k].conn} : bound'[c] = bound[c]
    BY DEF Bind, McpInv, Shapes
  <1>2. calls[k].at # "ended" /\ calls[k].at \notin Outside
    BY DEF Begun, Outside
  <1> QED BY <1>1, <1>2, AnswerKeeps

\* The answer of a call that has begun and changes neither a binding nor a lease.
LEMMA PlainAnswerKeeps ==
  ASSUME McpInv, NEW k \in Planned, NEW ok, Answer(k, ok), UNCHANGED <<plan, bound, leases>>, Begun(k)
  PROVE  McpInv'
  <1>1. bound' = [c \in Connection |-> bound'[c]]
    BY DEF McpInv, Shapes
  <1>2. calls[k].at # "ended" /\ calls[k].at \notin Outside
    BY DEF Begun, Outside
  <1> QED BY <1>1, <1>2, AnswerKeeps

\* A return that has nothing to say of a comparison.
LEMMA PlainReturnKeeps ==
  ASSUME McpInv, NEW k \in Planned, NEW ok, AnswerCall(k, ok, <<>>), UNCHANGED <<plan, bound, leases>>,
         Begun(k), calls[k].at # "lease"
  PROVE  McpInv'
  <1> DEFINE fields == <<>>
  <1>1. AnswerCall(k, ok, fields) /\ DOMAIN fields = {}
    OBVIOUS
  <1> HIDE DEF fields
  <1> QED BY <1>1, ReturnKeeps

LEMMA EnsureInputKeeps == ASSUME McpInv, NEW k \in Planned, EnsureInput(k) PROVE McpInv'
  <1>1. UNCHANGED <<plan, bound, leases>> /\ calls[k].at = "ensure" /\ Begun(k)
    BY DEF EnsureInput, World, Begun
  <1>2. CASE Answer(k, FALSE)
    BY <1>1, <1>2, PlainAnswerKeeps
  <1>3. ASSUME NEW via, Update(k, [at |-> "list", via |-> via]) PROVE McpInv'
    <2> DEFINE fields == [at |-> "list", via |-> via]
    <2>1. Update(k, fields) /\ fields.at = "list" /\ DOMAIN fields = {"at", "via"}
      BY <1>3
    <2> HIDE DEF fields
    <2> QED BY <1>1, <2>1, OnwardKeeps
  <1> QED BY <1>2, <1>3 DEF EnsureInput

\* What a choice does: it binds, or what is to be done otherwise.
LEMMA EnsureListKeeps == ASSUME McpInv, NEW k \in Planned, EnsureList(k) PROVE McpInv'
  <1>1. UNCHANGED <<plan, leases>> /\ calls[k].at = "list" /\ Begun(k)
    BY DEF EnsureList, World, Begun
  <1>2. CASE Answer(k, FALSE) /\ UNCHANGED bound
    BY <1>1, <1>2, PlainAnswerKeeps
  <1>3. ASSUME NEW t, NEW ok, Bind(k, t), Answer(k, ok) PROVE McpInv'
    BY <1>1, <1>3, BindKeeps
  <1>4. ASSUME NEW via, Update(k, [at |-> "connect", via |-> via]), UNCHANGED bound PROVE McpInv'
    <2> DEFINE fields == [at |-> "connect", via |-> via]
    <2>1. Update(k, fields) /\ fields.at = "connect" /\ DOMAIN fields = {"at", "via"}
      BY <1>4
    <2> HIDE DEF fields
    <2> QED BY <1>1, <1>4, <2>1, OnwardKeeps
  <1> QED BY <1>2, <1>3, <1>4 DEF EnsureList, Choose

LEMMA EnsureConnectKeeps == ASSUME McpInv, NEW k \in Planned, EnsureConnect(k) PROVE McpInv'
  <1>1. UNCHANGED <<plan, bound, leases>> /\ calls[k].at = "connect" /\ Begun(k)
    BY DEF EnsureConnect, Begun
  <1>2. CASE Answer(k, FALSE)
    BY <1>1, <1>2, PlainAnswerKeeps
  <1>3. CASE McpGo(k, "relist")
    BY <1>1, <1>3, GoingKeeps
  <1> QED BY <1>2, <1>3 DEF EnsureConnect

LEMMA EnsureRelistKeeps == ASSUME McpInv, NEW k \in Planned, EnsureRelist(k) PROVE McpInv'
  <1>1. UNCHANGED <<plan, leases>> /\ calls[k].at = "relist" /\ Begun(k)
    BY DEF EnsureRelist, World, Begun
  <1>2. CASE Answer(k, FALSE) /\ UNCHANGED bound
    BY <1>1, <1>2, PlainAnswerKeeps
  <1>3. ASSUME NEW t, NEW ok, Bind(k, t), Answer(k, ok) PROVE McpInv'
    BY <1>1, <1>3, BindKeeps
  <1> QED BY <1>2, <1>3 DEF EnsureRelist, Choose

LEMMA ToolInputKeeps == ASSUME McpInv, NEW k \in Planned, ToolInput(k) PROVE McpInv'
  <1>1. UNCHANGED <<plan, bound, leases>> /\ calls[k].at = "input" /\ Begun(k)
    BY DEF ToolInput, World, Begun
  <1>2. CASE McpGo(k, "target")
    BY <1>1, <1>2, GoingKeeps
  <1>3. CASE AnswerCall(k, FALSE, <<>>)
    BY <1>1, <1>3, PlainReturnKeeps
  <1> QED BY <1>2, <1>3 DEF ToolInput

LEMMA RunToolKeeps == ASSUME McpInv, NEW k \in Planned, RunTool(k) PROVE McpInv'
  <1>1. UNCHANGED <<plan, bound, leases>> /\ calls[k].at = "run" /\ Begun(k)
    BY DEF RunTool, World, Begun
  <1>2. ASSUME NEW ok, AnswerCall(k, ok, <<>>) PROVE McpInv'
    BY <1>1, <1>2, PlainReturnKeeps
  <1> QED BY <1>2 DEF RunTool

LEMMA FindTargetKeeps == ASSUME McpInv, NEW k \in Planned, FindTarget(k) PROVE McpInv'
  <1>1. UNCHANGED <<plan, bound, leases>> /\ calls[k].at = "target" /\ Begun(k)
    BY DEF FindTarget, World, Begun
  <1>2. CASE AnswerCall(k, FALSE, <<>>)
    BY <1>1, <1>2, PlainReturnKeeps
  <1>3. ASSUME NEW via, Update(k, [at |-> "act", via |-> via]) PROVE McpInv'
    <2> DEFINE fields == [at |-> "act", via |-> via]
    <2>1. Update(k, fields) /\ fields.at = "act" /\ DOMAIN fields = {"at", "via"}
      BY <1>3
    <2> HIDE DEF fields
    <2> QED BY <1>1, <2>1, OnwardKeeps
  <1> QED BY <1>2, <1>3 DEF FindTarget

\* A pair is made of its first by appending its second.
LEMMA AppendsSecond == ASSUME NEW x, NEW y PROVE Append(<<x>>, y) = <<x, y>>
  <1> DEFINE appended == Append(<<x>>, y)
             pair == <<x, y>>
  <1>1. /\ appended \in Seq({x, y}) /\ pair \in Seq({x, y}) /\ Len(appended) = 2 /\ Len(pair) = 2
        /\ appended[1] = pair[1] /\ appended[2] = pair[2]
    OBVIOUS
  <1> HIDE DEF appended, pair
  <1>2. \A i \in 1 .. Len(appended) : appended[i] = pair[i]
    BY <1>1
  <1>3. appended = pair
    BY <1>1, <1>2, SeqEqual
  <1> QED BY <1>3 DEF appended, pair

\* A device acts: compare_ui is not a tool that changes the device, and what it sees is
\* taken under the binding its base was taken under.
LEMMA ActKeeps == ASSUME McpInv, NEW k \in Planned, Act(k) PROVE McpInv'
  <1>1. UNCHANGED <<plan, bound, leases>> /\ calls[k].at = "act" /\ Begun(k)
    BY DEF Act, Begun
  <1>2. ASSUME NEW ok, AnswerCall(k, ok, <<>>) PROVE McpInv'
    BY <1>1, <1>2, PlainReturnKeeps
  <1>3. CASE AnswerCall(k, FALSE, [diff |-> NoDiff])
    <2> DEFINE fields == [diff |-> NoDiff]
    <2>1. AnswerCall(k, FALSE, fields) /\ DOMAIN fields = {"diff"} /\ fields.diff = NoDiff
      BY <1>3
    <2> HIDE DEF fields
    <2> QED BY <1>1, <2>1, ReturnKeeps
  <1>4. ASSUME NEW d, calls[k].tool = "compare_ui", AnswerCall(k, TRUE, [diff |-> Append(calls[k].diff, Taken(k, d))])
        PROVE  McpInv'
    <2> DEFINE seen == Taken(k, d)
               both == Append(calls[k].diff, seen)
               fields == [diff |-> both]
    <2>1. AnswerCall(k, TRUE, fields) /\ DOMAIN fields = {"diff"} /\ fields.diff = both
      BY <1>4
    <2>2. seen.identity = bound[calls[k].conn].identity
      BY DEF Taken
    <2> HIDE DEF seen, fields
    <2>3. \/ both = <<both[1]>>
          \/ both = <<both[1], both[2]>> /\ both[1].identity = both[2].identity
      <3>1. InHand(k)
        BY DEF McpInv, Compared
      <3>2. CASE calls[k].diff = NoDiff
        BY <3>2 DEF NoDiff
      <3>3. CASE calls[k].diff = <<calls[k].diff[1]>> /\ calls[k].diff[1].identity = bound[calls[k].conn].identity
        <4>1. both = <<calls[k].diff[1], seen>>
          BY <3>3, AppendsSecond
        <4> HIDE DEF both
        <4> QED BY <2>2, <3>3, <4>1
      <3> QED BY <1>1, <3>1, <3>2, <3>3 DEF InHand
    <2>4. calls[k].tool \notin Changing
      BY <1>4 DEF Changing, AppTools, TouchTools, TextTools, DialogTools
    <2> HIDE DEF both
    <2> QED BY <1>1, <2>1, <2>3, <2>4, ReturnKeeps
  <1> QED BY <1>2, <1>3, <1>4 DEF Act

LEMMA CompareBaseKeeps == ASSUME McpInv, NEW k \in Planned, CompareBase(k) PROVE McpInv'
  <1>1. UNCHANGED <<plan, bound, leases>> /\ calls[k].at = "base" /\ Begun(k)
    BY DEF CompareBase, World, Begun
  <1>2. CASE Answer(k, FALSE)
    BY <1>1, <1>2, PlainAnswerKeeps
  <1>3. ASSUME NEW base, base.identity = bound[calls[k].conn].identity, Update(k, [at |-> "target", diff |-> <<base>>])
        PROVE  McpInv'
    <2> DEFINE fields == [at |-> "target", diff |-> <<base>>]
    <2>1. /\ Update(k, fields) /\ fields.at = "target" /\ DOMAIN fields = {"at", "diff"}
          /\ fields.diff = <<fields.diff[1]>> /\ fields.diff[1] = base
      BY <1>3
    <2> HIDE DEF fields
    <2> QED BY <1>1, <1>3, <2>1, OnwardKeeps
  <1> QED BY <1>2, <1>3 DEF CompareBase, UsableBase

\* What changes by itself: no binding, call or lease.
LEMMA McpChangeKeeps == ASSUME McpInv, McpChange PROVE McpInv'
  BY DEF McpChange, McpInv, Shapes, Planned, OneByOne, Admitted, HoldsLease, OneLease, Compared,
         InHand, Begun

LEMMA McpStepKeeps == McpInv /\ [McpNext]_mcpVars => McpInv'
  <1> SUFFICES ASSUME McpInv, [McpNext]_mcpVars PROVE McpInv'
    OBVIOUS
  <1>1. CASE McpChange
    BY <1>1, McpChangeKeeps
  <1>2. ASSUME NEW k \in Planned, Submit(k) PROVE McpInv'
    BY <1>2, SubmitKeeps
  <1>3. ASSUME NEW k \in Planned, McpStep(k) PROVE McpInv'
    BY <1>3, BeginKeeps, TakeLeaseKeeps, ReleaseKeeps, EnsureInputKeeps, EnsureListKeeps, EnsureConnectKeeps,
       EnsureRelistKeeps, ToolInputKeeps, RunToolKeeps, FindTargetKeeps, ActKeeps, CompareBaseKeeps DEF McpStep
  <1>4. CASE UNCHANGED mcpVars
    BY <1>4 DEF mcpVars, McpInv, Shapes, Planned, OneByOne, Admitted, HoldsLease, OneLease, Compared,
       InHand, Begun
  <1> QED BY <1>1, <1>2, <1>3, <1>4 DEF McpNext

\* The invariant holds whatever agents ask for, of whatever devices (createAdbReadyMcpServer).
THEOREM McpInvariant == McpSpec => []McpInv
  <1> QED BY McpInitially, McpStepKeeps, PTL DEF McpSpec

-----------------------------------------------------------------------------
(* What an identity says of the device it was read from *)

\* A hardware serial is that of the device the transport led to.
Tied(r) == r.identity[1] = "hardware" => r.identity[2] = r.led

EntryFields == {"digest", "identity", "device", "led", "old"}
Entry(e) == DOMAIN e = EntryFields /\ Tied(e)
Entries(list) == {list[i] : i \in DOMAIN list}

BoundTied ==
  \A c \in Connection : Tied(bound[c]) /\ bound[c].identity = <<bound[c].identity[1], bound[c].identity[2]>>
SnapshotsTied ==
  /\ snapshots = [c \in Connection |-> snapshots[c]]
  /\ \A c \in Connection : snapshots[c] \in Seq(Entries(snapshots[c])) /\ \A e \in Entries(snapshots[c]) : Entry(e)
DiffsTied == \A k \in Planned : \A e \in Entries(calls[k].diff) : Tied(e)
TiedInv == BoundTied /\ SnapshotsTied /\ DiffsTied

\* A list of entries is known by a set its entries are in.
LEMMA ListOfEntries ==
  ASSUME NEW S, \A e \in S : Entry(e), NEW list \in Seq(S)
  PROVE  list \in Seq(Entries(list)) /\ \A e \in Entries(list) : Entry(e)
  BY DEF Entries

LEMMA TiedInitially == McpInit => TiedInv
  <1> SUFFICES ASSUME McpInit PROVE TiedInv
    OBVIOUS
  <1>1. ASSUME NEW k \in Planned PROVE calls[k].diff = <<>>
    <2>1. k \in Nat /\ DOMAIN plan[k] = Arguments
      BY PlansAssumption DEF McpInit, Planned
    <2> QED BY <2>1 DEF McpInit, Planned, NotSubmitted, NoDiff, Arguments, Amended
  <1>2. BoundTied
    BY DEF BoundTied, Tied, McpInit, Unbound, Unasked
  <1>3. SnapshotsTied
    BY DEF SnapshotsTied, McpInit, Entries
  <1>4. DiffsTied
    BY <1>1 DEF DiffsTied, Entries
  <1> QED BY <1>2, <1>3, <1>4 DEF TiedInv

\* A step of one call that hands it nothing to compare, or what is tied.
LEMMA DiffKept ==
  ASSUME McpInv, DiffsTied, NEW k \in Planned, UNCHANGED plan, NEW fields, Update(k, fields),
         DOMAIN fields \subseteq Fields \ Arguments,
         "diff" \in DOMAIN fields => \A e \in Entries(fields.diff) : Tied(e)
  PROVE  DiffsTied'
  <1>1. calls' = [calls EXCEPT ![k] = Amended(calls[k], fields)]
    BY DEF Update, McpInv, Shapes
  <1>2. /\ \A m \in Planned \ {k} : calls'[m] = calls[m]
        /\ \A x \in {"at", "seen", "diff"} : calls'[k][x] = IF x \in DOMAIN fields THEN fields[x] ELSE calls[k][x]
    BY <1>1, Updates DEF McpInv
  <1>3. calls'[k].diff = IF "diff" \in DOMAIN fields THEN fields.diff ELSE calls[k].diff
    BY <1>2
  <1> QED BY <1>2, <1>3 DEF DiffsTied, Planned, Entries

LEMMA DiffKeptByGoing ==
  ASSUME McpInv, DiffsTied, NEW k \in Planned, UNCHANGED plan,
         \/ \E ok : Answer(k, ok)
         \/ \E step : McpGo(k, step)
         \/ \E via, step : Update(k, [at |-> step, via |-> via])
         \/ \E seen, step : Update(k, [seen |-> seen, at |-> step])
  PROVE  DiffsTied'
  <1>1. ASSUME NEW ok, Answer(k, ok) PROVE DiffsTied'
    <2> DEFINE fields == AsEnded(ok)
    <2>1. Update(k, fields) /\ DOMAIN fields = {"at", "ok", "seen", "via"}
      BY <1>1 DEF Answer, AsEnded
    <2> HIDE DEF fields
    <2> QED BY <2>1, DiffKept DEF Fields, Arguments
  <1>2. ASSUME NEW step, McpGo(k, step) PROVE DiffsTied'
    <2> DEFINE fields == [at |-> step]
    <2>1. Update(k, fields) /\ DOMAIN fields = {"at"}
      BY <1>2 DEF McpGo
    <2> HIDE DEF fields
    <2> QED BY <2>1, DiffKept DEF Fields, Arguments
  <1>3. ASSUME NEW via, NEW step, Update(k, [at |-> step, via |-> via]) PROVE DiffsTied'
    <2> DEFINE fields == [at |-> step, via |-> via]
    <2>1. Update(k, fields) /\ DOMAIN fields = {"at", "via"}
      BY <1>3
    <2> HIDE DEF fields
    <2> QED BY <2>1, DiffKept DEF Fields, Arguments
  <1>4. ASSUME NEW seen, NEW step, Update(k, [seen |-> seen, at |-> step]) PROVE DiffsTied'
    <2> DEFINE fields == [seen |-> seen, at |-> step]
    <2>1. Update(k, fields) /\ DOMAIN fields = {"at", "seen"}
      BY <1>4
    <2> HIDE DEF fields
    <2> QED BY <2>1, DiffKept DEF Fields, Arguments
  <1> QED BY <1>1, <1>2, <1>3, <1>4

\* The return of a handler, likewise.
LEMMA DiffKeptByReturn ==
  ASSUME McpInv, DiffsTied, NEW k \in Planned, UNCHANGED plan, NEW ok, NEW handed, AnswerCall(k, ok, handed),
         DOMAIN handed \subseteq {"diff"},
         "diff" \in DOMAIN handed => \A e \in Entries(handed.diff) : Tied(e)
  PROVE  DiffsTied'
  <1> DEFINE base == IF ShouldLease(calls[k].tool) THEN [ok |-> ok, at |-> "release"] ELSE AsEnded(ok)
             fields == Amended(base, handed)
  <1>1. DOMAIN base \subseteq {"ok", "at", "seen", "via"}
    BY DEF AsEnded
  <1>2. Update(k, fields)
    BY DEF AnswerCall
  <1> HIDE DEF base
  <1>3. DOMAIN fields \subseteq {"ok", "at", "seen", "via", "diff"} /\ ("diff" \in DOMAIN fields => fields.diff = handed.diff /\ "diff" \in DOMAIN handed)
    BY <1>1 DEF Amended
  <1> HIDE DEF fields
  <1> QED BY <1>2, <1>3, DiffKept DEF Fields, Arguments

\* What inspect_ui and compare_ui remember is tied, as the binding is.
LEMMA TakenIsTied == ASSUME McpInv, BoundTied, NEW k \in Planned, NEW d PROVE Entry(Taken(k, d))
  BY DEF Entry, EntryFields, Taken, Tied, BoundTied, McpInv, Shapes

LEMMA RememberKeeps ==
  ASSUME SnapshotsTied, NEW c \in Connection, NEW s, Entry(s), Remember(c, s)
  PROVE  SnapshotsTied'
  <1> DEFINE old == snapshots[c]
             S == Entries(old) \cup {s}
             same == {i \in DOMAIN old : old[i].digest = s.digest}
             at == CHOOSE i \in same : TRUE
             kept == IF same = {} THEN old ELSE RemoveAt(old, at)
             all == Append(kept, s)
             new == IF Len(all) > MaxSnapshots THEN Tail(all) ELSE all
  <1>1. old \in Seq(S) /\ \A e \in S : Entry(e)
    BY DEF SnapshotsTied
  <1>2. same # {} => at \in DOMAIN old
    OBVIOUS
  <1>3. snapshots' = [snapshots EXCEPT ![c] = new]
    BY DEF Remember
  <1> HIDE DEF at, same, old
  <1>4. kept \in Seq(S)
    BY <1>1, <1>2 DEF RemoveAt
  <1> HIDE DEF kept
  <1>5. all \in Seq(S) /\ Len(all) > 0
    BY <1>4
  <1> HIDE DEF all
  <1>6. new \in Seq(S)
    BY <1>5
  <1> HIDE DEF new
  <1>7. new \in Seq(Entries(new)) /\ \A e \in Entries(new) : Entry(e)
    BY <1>1, <1>6, ListOfEntries
  <1> QED BY <1>3, <1>7 DEF SnapshotsTied

LEMMA ActTies == ASSUME McpInv, TiedInv, NEW k \in Planned, Act(k) PROVE TiedInv'
  <1>1. UNCHANGED <<plan, bound>> /\ calls[k].conn \in Connection
    BY DEF Act, McpInv, Shapes
  <1>2. BoundTied'
    BY <1>1 DEF TiedInv, BoundTied
  <1>3. ASSUME NEW d, Remember(calls[k].conn, Taken(k, d)) PROVE SnapshotsTied'
    BY <1>1, <1>3, TakenIsTied, RememberKeeps DEF TiedInv
  <1>4. SnapshotsTied'
    BY <1>3 DEF Act, TiedInv, SnapshotsTied
  <1>5. ASSUME NEW ok, AnswerCall(k, ok, <<>>) PROVE DiffsTied'
    <2> DEFINE handed == <<>>
    <2>1. AnswerCall(k, ok, handed) /\ DOMAIN handed = {}
      BY <1>5
    <2> HIDE DEF handed
    <2> QED BY <1>1, <2>1, DiffKeptByReturn DEF TiedInv
  <1>6. ASSUME AnswerCall(k, FALSE, [diff |-> NoDiff]) PROVE DiffsTied'
    <2> DEFINE handed == [diff |-> NoDiff]
    <2>1. AnswerCall(k, FALSE, handed)
      BY <1>6
    <2>2. DOMAIN handed = {"diff"} /\ Entries(handed.diff) = {}
      BY DEF NoDiff, Entries
    <2> HIDE DEF handed
    <2> QED BY <1>1, <2>1, <2>2, DiffKeptByReturn DEF TiedInv
  <1>7. ASSUME NEW d, AnswerCall(k, TRUE, [diff |-> Append(calls[k].diff, Taken(k, d))]) PROVE DiffsTied'
    <2> DEFINE taken == Taken(k, d)
               both == Append(calls[k].diff, taken)
               handed == [diff |-> both]
    <2>1. AnswerCall(k, TRUE, handed) /\ DOMAIN handed = {"diff"} /\ handed.diff = both
      BY <1>7
    <2>2. Tied(taken)
      BY TakenIsTied DEF TiedInv, Entry
    <2> HIDE DEF handed, taken
    <2>3. \A e \in Entries(both) : Tied(e)
      <3>1. InHand(k) /\ \A e \in Entries(calls[k].diff) : Tied(e)
        BY DEF McpInv, Compared, TiedInv, DiffsTied
      <3>2. calls[k].diff \in Seq(Entries(calls[k].diff))
        <4>1. CASE calls[k].diff = <<>>
          BY <4>1
        <4>2. CASE calls[k].diff = <<calls[k].diff[1]>>
          BY <4>2 DEF Entries
        <4>3. CASE calls[k].diff = <<calls[k].diff[1], calls[k].diff[2]>>
          BY <4>3 DEF Entries
        <4> QED BY <3>1, <4>1, <4>2, <4>3 DEF InHand, NoDiff
      <3> QED BY <2>2, <3>1, <3>2 DEF Entries
    <2> HIDE DEF both
    <2> QED BY <1>1, <2>1, <2>3, DiffKeptByReturn DEF TiedInv
  <1>8. DiffsTied'
    <2>1. CASE AnswerCall(k, FALSE, [diff |-> NoDiff])
      BY <1>6, <2>1
    <2>2. ASSUME NEW d \in DeviceOf(k), AnswerCall(k, TRUE, <<>>) \/ AnswerCall(k, TRUE, [diff |-> Append(calls[k].diff, Taken(k, d))])
          PROVE  DiffsTied'
      BY <1>5, <1>7, <2>2
    <2> QED BY <2>1, <2>2 DEF Act
  <1> QED BY <1>2, <1>4, <1>8 DEF TiedInv

LEMMA CompareBaseTies == ASSUME McpInv, TiedInv, NEW k \in Planned, CompareBase(k) PROVE TiedInv'
  <1> DEFINE c == calls[k].conn
             old == snapshots[c]
  <1>1. UNCHANGED <<plan, bound>> /\ c \in Connection
    BY DEF CompareBase, World, McpInv, Shapes
  <1>2. BoundTied'
    BY <1>1 DEF TiedInv, BoundTied
  <1>3. old \in Seq(Entries(old)) /\ \A e \in Entries(old) : Entry(e)
    BY <1>1 DEF TiedInv, SnapshotsTied
  <1>4. ASSUME NEW i \in DOMAIN old, snapshots' = [snapshots EXCEPT ![c] = RemoveAt(@, i)] PROVE SnapshotsTied'
    <2> DEFINE new == RemoveAt(old, i)
    <2>1. snapshots' = [snapshots EXCEPT ![c] = new]
      BY <1>4
    <2> HIDE DEF old
    <2>2. new \in Seq(Entries(old))
      BY <1>3, <1>4 DEF RemoveAt
    <2> HIDE DEF new
    <2>3. new \in Seq(Entries(new)) /\ \A e \in Entries(new) : Entry(e)
      BY <1>3, <2>2, ListOfEntries
    <2> QED BY <1>1, <2>1, <2>3 DEF TiedInv, SnapshotsTied
  <1>5. SnapshotsTied'
    BY <1>4 DEF CompareBase, TiedInv, SnapshotsTied
  <1>6. ASSUME NEW i \in DOMAIN old, Update(k, [at |-> "target", diff |-> <<old[i]>>]) PROVE DiffsTied'
    <2> DEFINE fields == [at |-> "target", diff |-> <<old[i]>>]
    <2>1. Update(k, fields) /\ DOMAIN fields = {"at", "diff"} /\ fields.diff = <<old[i]>>
      BY <1>6
    <2>2. \A e \in Entries(fields.diff) : Tied(e)
      BY <1>3, <2>1 DEF Entries, Entry
    <2> HIDE DEF fields
    <2> QED BY <1>1, <2>1, <2>2, DiffKept DEF TiedInv, Fields, Arguments
  <1>7. ASSUME Answer(k, FALSE) PROVE DiffsTied'
    BY <1>1, <1>7, DiffKeptByGoing DEF TiedInv
  <1>8. DiffsTied'
    BY <1>6, <1>7 DEF CompareBase
  <1> QED BY <1>2, <1>5, <1>8 DEF TiedInv

\* A binding is of a target by its transport, which says what its identity was read from.
LEMMA BindTies ==
  ASSUME McpInv, TiedInv, NEW k \in Planned, NEW t, NEW ok, Bind(k, t), Answer(k, ok), UNCHANGED <<plan, snapshots>>
  PROVE  TiedInv'
  <1>1. Tied(TargetAt(t)) /\ TargetAt(t).identity = <<TargetAt(t).identity[1], TargetAt(t).identity[2]>>
    BY DEF Tied, TargetAt, Identity
  <1>2. BoundTied'
    BY <1>1 DEF Bind, TiedInv, BoundTied, McpInv, Shapes
  <1>3. DiffsTied'
    BY DiffKeptByGoing DEF TiedInv
  <1> QED BY <1>2, <1>3 DEF TiedInv, SnapshotsTied

\* A step that leaves bindings and snapshots alone.
LEMMA PlainTies ==
  ASSUME McpInv, TiedInv, NEW k \in Planned, UNCHANGED <<plan, bound, snapshots>>,
         \/ \E ok : Answer(k, ok)
         \/ \E step : McpGo(k, step)
         \/ \E via, step : Update(k, [at |-> step, via |-> via])
         \/ \E seen, step : Update(k, [seen |-> seen, at |-> step])
         \/ \E ok : AnswerCall(k, ok, <<>>)
  PROVE  TiedInv'
  <1>1. ASSUME NEW ok, AnswerCall(k, ok, <<>>) PROVE DiffsTied'
    <2> DEFINE handed == <<>>
    <2>1. AnswerCall(k, ok, handed) /\ DOMAIN handed = {}
      BY <1>1
    <2> HIDE DEF handed
    <2> QED BY <2>1, DiffKeptByReturn DEF TiedInv
  <1>2. DiffsTied'
    BY <1>1, DiffKeptByGoing DEF TiedInv
  <1> QED BY <1>2 DEF TiedInv, BoundTied, SnapshotsTied

LEMMA McpStepTies == ASSUME McpInv, TiedInv, NEW k \in Planned, Submit(k) \/ McpStep(k) PROVE TiedInv'
  <1>1. CASE Submit(k)
    BY <1>1, PlainTies DEF Submit, World
  <1>2. CASE Begin(k)
    BY <1>2, PlainTies DEF Begin, World
  <1>3. CASE TakeLease(k)
    BY <1>3, PlainTies DEF TakeLease, World
  <1>4. CASE Release(k)
    BY <1>4, PlainTies DEF Release, World
  <1>5. CASE EnsureInput(k)
    BY <1>5, PlainTies DEF EnsureInput, World
  <1>6. CASE EnsureList(k)
    BY <1>6, PlainTies, BindTies DEF EnsureList, World, Choose
  <1>7. CASE EnsureConnect(k)
    BY <1>7, PlainTies DEF EnsureConnect
  <1>8. CASE EnsureRelist(k)
    BY <1>8, PlainTies, BindTies DEF EnsureRelist, World, Choose
  <1>9. CASE ToolInput(k)
    BY <1>9, PlainTies DEF ToolInput, World
  <1>10. CASE RunTool(k)
    BY <1>10, PlainTies DEF RunTool, World
  <1>11. CASE FindTarget(k)
    BY <1>11, PlainTies DEF FindTarget, World
  <1> QED BY <1>1, <1>2, <1>3, <1>4, <1>5, <1>6, <1>7, <1>8, <1>9, <1>10, <1>11, ActTies, CompareBaseTies DEF McpStep

\* A snapshot that is past its time is the snapshot it was.
LEMMA McpChangeTies == ASSUME McpInv, TiedInv, McpChange PROVE TiedInv'
  <1>1. BoundTied' /\ DiffsTied'
    BY DEF McpChange, TiedInv, BoundTied, DiffsTied, Planned
  <1>2. ASSUME NEW c \in Connection, NEW i \in DOMAIN snapshots[c], snapshots' = [snapshots EXCEPT ![c][i].old = TRUE]
        PROVE  SnapshotsTied'
    <2> DEFINE old == snapshots[c]
               aged == [old[i] EXCEPT !.old = TRUE]
               new == [old EXCEPT ![i] = aged]
               S == Entries(old) \cup {aged}
    <2>1. old \in Seq(Entries(old)) /\ \A e \in Entries(old) : Entry(e)
      BY DEF TiedInv, SnapshotsTied
    <2>2. Entry(aged)
      BY <1>2, <2>1 DEF Entry, EntryFields, Tied, Entries
    <2>3. snapshots' = [snapshots EXCEPT ![c] = new] /\ i \in DOMAIN old
      BY <1>2
    <2> HIDE DEF old, aged
    <2>4. new \in Seq(S)
      <3>1. old \in Seq(S) /\ aged \in S
        BY <2>1
      <3> HIDE DEF S
      <3> QED BY <2>3, <3>1
    <2> HIDE DEF new
    <2>5. new \in Seq(Entries(new)) /\ \A e \in Entries(new) : Entry(e)
      BY <2>1, <2>2, <2>4, ListOfEntries
    <2> QED BY <2>3, <2>5 DEF TiedInv, SnapshotsTied
  <1>3. SnapshotsTied'
    BY <1>2 DEF McpChange, TiedInv, SnapshotsTied
  <1> QED BY <1>1, <1>3 DEF TiedInv

\* An identity that is a hardware serial stays that of the device it was read from, in
\* bindings, in snapshots and in what is compared (targetIdentity, rememberUiSnapshot).
THEOREM IdentitiesAreTied == McpSpec => []TiedInv
  <1>1. McpInv /\ TiedInv /\ [McpNext]_mcpVars => TiedInv'
    <2> SUFFICES ASSUME McpInv, TiedInv, [McpNext]_mcpVars PROVE TiedInv'
      OBVIOUS
    <2>1. CASE UNCHANGED mcpVars
      BY <2>1 DEF mcpVars, TiedInv, BoundTied, SnapshotsTied, DiffsTied, Planned
    <2> QED BY <2>1, McpChangeTies, McpStepTies DEF McpNext
  <1> QED BY <1>1, McpInvariant, TiedInitially, PTL DEF McpSpec

-----------------------------------------------------------------------------
(* What follows *)

\* A call works with the binding it was admitted with.  Two calls that change one device
\* at a time have a transport that has moved between them, or go by two identities, one
\* of them bound while the hardware serial could not be read: two calls of one identity
\* would hold two leases of it, and two hardware serials that both still lead to one
\* device are one identity (register, acquireTargetLease).
THEOREM MutationsExclude == McpSpec => []MutationsAreExclusive
  <1>1. McpInv /\ TiedInv => MutationsAreExclusive
    <2> SUFFICES ASSUME McpInv, TiedInv PROVE MutationsAreExclusive
      OBVIOUS
    <2>1. \A k \in Planned : Submitted(k) /\ Begun(k) /\ calls[k].tool \in TargetBound => calls[k].seen = bound[calls[k].conn]
      BY DEF McpInv, Admitted
    <2>2. ASSUME NEW k \in Planned, NEW m \in Planned, k # m, calls[k].at = "act", calls[m].at = "act",
                 calls[k].tool \in Changing, calls[m].tool \in Changing,
                 ~HasMoved(k), ~HasMoved(m), DeviceOf(k) = DeviceOf(m)
          PROVE  (BoundUnread(k) \/ BoundUnread(m)) /\ bound[calls[k].conn].identity # bound[calls[m].conn].identity
      <3> DEFINE one == bound[calls[k].conn]
                 other == bound[calls[m].conn]
      <3>1. <<one.identity, k>> \in leases /\ <<other.identity, m>> \in leases
        BY <2>2 DEF McpInv, HoldsLease, Begun
      <3>2. one.identity # other.identity
        BY <2>2, <3>1 DEF McpInv, OneLease
      <3>3. one.led = other.led
        BY <2>2 DEF HasMoved
      <3>4. Tied(one) /\ Tied(other)
        BY DEF TiedInv, BoundTied, McpInv, Shapes
      <3>5. one.identity = <<one.identity[1], one.identity[2]>> /\ other.identity = <<other.identity[1], other.identity[2]>>
        BY DEF TiedInv, BoundTied, McpInv, Shapes
      <3> QED BY <3>2, <3>3, <3>4, <3>5 DEF Tied, BoundUnread
    <2> QED BY <2>1, <2>2 DEF MutationsAreExclusive
  <1> QED BY <1>1, McpInvariant, IdentitiesAreTied, PTL

\* What compare_ui compares was taken under one identity, so of one device where that is
\* a hardware serial and both transports led to the device they were bound for
\* (compare_ui, rememberUiSnapshot).
THEOREM ComparisonsMatch == McpSpec => []ComparesLikeWithLike
  <1>1. McpInv /\ TiedInv => ComparesLikeWithLike
    <2> SUFFICES ASSUME McpInv, TiedInv, NEW k \in Planned, Len(calls[k].diff) = 2
                 PROVE  LET base == calls[k].diff[1]
                            current == calls[k].diff[2]
                        IN  /\ base.identity = current.identity
                            /\ base.device = base.led /\ current.device = current.led /\ base.identity[1] = "hardware"
                                 => base.device = current.device
      BY DEF ComparesLikeWithLike
    <2>1. InHand(k) /\ \A e \in Entries(calls[k].diff) : Tied(e)
      BY DEF McpInv, Compared, TiedInv, DiffsTied
    <2>2. Len(<<>>) = 0 /\ Len(<<calls[k].diff[1]>>) = 1
      OBVIOUS
    <2>3. /\ calls[k].diff = <<calls[k].diff[1], calls[k].diff[2]>>
          /\ calls[k].diff[1].identity = calls[k].diff[2].identity
      BY <2>1, <2>2 DEF InHand, NoDiff
    <2>4. Tied(calls[k].diff[1]) /\ Tied(calls[k].diff[2])
      BY <2>1, <2>3 DEF Entries
    <2> QED BY <2>3, <2>4 DEF Tied
  <1> QED BY <1>1, McpInvariant, IdentitiesAreTied, PTL
=============================================================================
