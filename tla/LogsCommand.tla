---------------------------- MODULE LogsCommand ----------------------------
(***************************************************************************)
(* runLogs of src/app/commands.ts: the selection of a target and of the    *)
(* process whose lines are wanted, and the window of lines that is shown.  *)
(* A tail that is followed is put together from two runs of logcat: a      *)
(* snapshot, of which the last lines are kept, and a stream from a moment  *)
(* taken before the snapshot, of which the lines already shown are left    *)
(* out.  The device goes on logging all the time.                          *)
(*                                                                         *)
(* facts has <<"logged", n>>: the device has logged the lines 1 to n.      *)
(***************************************************************************)
EXTENDS TargetCommands, SequencesExt

CONSTANTS MaxLines   \* bound: the device logs no more lines than these

LogsMemory == Amended(TargetMemory, [next |-> 1, boundary |-> 0, recent |-> {}, lines |-> <<>>])

Logged == (CHOOSE f \in facts : f[1] = "logged")[2]

\* The device writes another line.
DeviceLogs ==
  /\ exit = Running /\ Logged < MaxLines
  /\ facts' = {<<"logged", Logged + 1>>} /\ UNCHANGED <<cmd, command, signal>>

\* resolvePackageLogSelector: the user id of the package where logcat can filter by
\* it, else its process.  No end of these calls is told from "not running".
Selector ==
  /\ UNCHANGED <<cmd, signal, facts, mem>>
  /\ \E r \in Ends, found \in BOOLEAN : Settles(r) /\
       \/ Awaiting("uid") /\ GoTo(IF r = "ok" /\ found THEN "help" ELSE "pid")
       \/ Awaiting("help") /\ GoTo(IF r = "ok" /\ found THEN "window" ELSE "pid")
       \/ Awaiting("pid") /\ IF r = "ok" /\ found THEN GoTo("window") ELSE Finish({"adb"})

\* The window that was asked for, and which line logcat begins with.
LogWindow ==
  Decide("window",
    IF ~cmd.validWindow THEN Finish({"input"}) /\ UNCHANGED mem
    ELSE IF cmd.tail # None THEN GoTo(IF cmd.dump THEN "snapshot" ELSE "boundary") /\ Keep([next |-> Logged])
    ELSE GoTo("stream") /\ \E n \in (IF cmd.since THEN 1 .. Logged + 1
                                     ELSE IF cmd.dump \/ Logged = 0 THEN {1} ELSE {Logged}) : Keep([next |-> n]))

\* The device's clock, in whole seconds: the lines after the boundary are those of
\* that second and of the later ones.
Boundary ==
  /\ Awaiting("boundary") /\ UNCHANGED <<cmd, signal, facts>>
  /\ \E r \in Ends : Settles(r) /\ IF r = "ok" THEN GoTo("snapshot") /\ \E b \in 0 .. Logged : Keep([boundary |-> b, next |-> Logged])
                                   ELSE Finish({"adb"}) /\ UNCHANGED mem

\* What is wrong with a logcat that has ended.
LogcatProblems(r) == IF r = "ok" THEN {} ELSE {ProblemOf(r, "adb")}

\* Mutant: the stream begins with what is logged from now on.
FromNow == Logged + 1

FromBoundary == mem.boundary + 1

\* The lines a tail keeps of the first n.
LastLines(n) == LET left == IF cmd.tail < n THEN n - cmd.tail ELSE 0 IN [i \in 1 .. n - left |-> left + i]

\* logcat -d: the last lines of what it delivers are shown.  It delivers all that
\* was logged when it began, and some of what was logged since.
Snapshot ==
  /\ Awaiting("snapshot") /\ UNCHANGED <<cmd, signal, facts>>
  /\ \E r \in Ends : Settles(r) /\ \E n \in (IF r = "ok" THEN mem.next .. Logged ELSE 0 .. Logged) :
       IF cmd.dump \/ r # "ok"
       THEN Finish(LogcatProblems(r)) /\ Keep([lines |-> LastLines(n)])
       ELSE GoTo("stream") /\ Keep([lines |-> LastLines(n), recent |-> ToSet(LastLines(n)), next |-> FromBoundary])

\* recordLine of a line of the stream; a line of the snapshot is left out once.
Shown(line) ==
  IF line \in mem.recent THEN Keep([next |-> line + 1, recent |-> mem.recent \ {line}])
  ELSE Keep([next |-> line + 1, lines |-> Append(mem.lines, line)])

Line ==
  Awaiting("stream") /\ mem.next =< Logged /\ Shown(mem.next)
    /\ UNCHANGED <<cmd, signal, facts, at, problems, exit, cut>>

\* logcat ends: by the signal, by itself, or, a dump, with the last line.
StreamEnds ==
  /\ Awaiting("stream") /\ UNCHANGED <<cmd, signal, facts, mem>>
  /\ \E r \in Ends : /\ Settles(r) /\ (cmd.dump /\ r = "ok" => mem.next > Logged)
                     /\ Finish(LogcatProblems(r))

Logs ==
  /\ cmd.name = "logs"
  /\ \/ DeviceLogs
     \/ Decide("input", UNCHANGED mem /\ IF cmd.tagConflict THEN Finish({"input"}) ELSE GoTo("adb"))
     \/ ResolveAdb(GoTo("devices") /\ UNCHANGED mem)
     \/ Read("devices", "adb", StartInspect("features"))
     \/ MdnsStep("inspect") \/ HardwareStep
     \/ Inspected(Select(LAMBDA choice :
          GoTo(IF cmd.package /\ ~cmd.pid THEN "uid" ELSE "window") /\ Keep([target |-> choice])))
     \/ Selector \/ LogWindow \/ Boundary \/ Snapshot \/ Line \/ StreamEnds

\* runLogs by itself, of a device that goes on logging without end.
LogsInit ==
  /\ cmd.name = "logs" /\ cmd.tail \in {None} \cup Nat
  /\ \E n \in Nat : facts = {<<"logged", n>>}
  /\ CommandInit("input", LogsMemory)

LogsSpec == LogsInit /\ [][Logs \/ Signal]_vars

\* Of a tail that is followed, nothing is shown twice, and nothing that logcat has
\* come past is left out: the last lines of the snapshot, and all lines since.
NoLogGap ==
  cmd.name = "logs" /\ at = "stream" /\ cmd.tail # None =>
    LET shown == ToSet(mem.lines)
    IN  /\ Len(mem.lines) = Cardinality(shown)
        /\ mem.recent \subseteq shown
        /\ \A i \in 1 .. mem.next - 1 : (\E j \in shown : j < i) => i \in shown
=============================================================================
