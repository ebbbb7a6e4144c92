--------------------------- MODULE CommandsProofs ---------------------------
(***************************************************************************)
(* Commands of src/app and src/evidence, for every option, inventory and   *)
(* device: a tail of the log that is followed is shown without a gap, a    *)
(* capture or a UI action leaves nothing temporary behind unreported, no   *)
(* command that was interrupted reports success, one that reports success  *)
(* has reached and kept what it promises, and a change is of what was      *)
(* asked for, on a target that is safely chosen. And the commands config,  *)
(* init and test: what they tell is what the sources say, with what they   *)
(* wrote and what the service found. The rules of a configuration are in   *)
(* OperatorTheorems.                                                       *)
(***************************************************************************)
EXTENDS TestCommands, OperatorTheorems, FiniteSetTheorems, SequenceTheorems, TLAPS

-----------------------------------------------------------------------------
(* logs *)

LogFields == {"next", "boundary", "recent", "lines", "target"}
LogPlaces == {"boundary", "snapshot", "stream"}

\* The options stay, the device has logged some lines, the memory has its fields.
LogShape ==
  /\ cmd.name = "logs" /\ cmd.tail \in {None} \cup Nat
  /\ \E n \in Nat : facts = {<<"logged", n>>}
  /\ LogFields \subseteq DOMAIN mem

\* The stream begins no later than behind what was logged when the snapshot began.
Windowed ==
  /\ at \in {"boundary", "snapshot"} => cmd.tail \in Nat
  /\ at = "snapshot" => mem.next \in Nat /\ (~cmd.dump => mem.boundary \in Nat /\ mem.boundary =< mem.next)

\* The lines shown are distinct; those that the stream is still to leave out are the
\* ones of them it has not come past; and from the first one on none is missing.
Merged ==
  at = "stream" /\ cmd.tail # None =>
    /\ mem.next \in Nat /\ mem.lines \in Seq(Nat)
    /\ \A i, j \in DOMAIN mem.lines : mem.lines[i] = mem.lines[j] => i = j
    /\ mem.recent \subseteq ToSet(mem.lines)
    /\ \A x \in ToSet(mem.lines) \ mem.recent : x < mem.next
    /\ \A i \in Nat, j \in ToSet(mem.lines) : j < i /\ i < mem.next => i \in ToSet(mem.lines)

LogInv == LogShape /\ Windowed /\ Merged

LEMMA LogsInitially == LogsInit => LogInv
  BY DEF LogsInit, LogInv, LogShape, Windowed, Merged, CommandInit, LogsMemory, Amended,
         TargetMemory, LogFields

\* The number of lines the device has logged.
LEMMA LoggedLines == ASSUME LogShape PROVE Logged \in Nat /\ facts = {<<"logged", Logged>>}
  <1>1. PICK n \in Nat : facts = {<<"logged", n>>}
    BY DEF LogShape
  <1>2. (CHOOSE f \in facts : f[1] = "logged") = <<"logged", n>>
    BY <1>1
  <1> QED BY <1>1, <1>2 DEF Logged

\* A step that neither enters nor leaves a place where lines are read.
Aside ==
  /\ UNCHANGED <<cmd, facts>> /\ DOMAIN mem' = DOMAIN mem
  /\ at' \notin LogPlaces

LEMMA AsideKeeps == LogInv /\ Aside => LogInv'
  BY DEF LogInv, Aside, LogShape, Windowed, Merged, LogPlaces

LEMMA SharedStepsAreAside ==
  /\ ResolveAdb(GoTo("devices") /\ UNCHANGED mem) => Aside
  /\ Read("devices", "adb", StartInspect("features")) => Aside
  /\ MdnsStep("inspect") => Aside
  /\ HardwareStep => Aside
  <1>1. ResolveAdb(GoTo("devices") /\ UNCHANGED mem) => Aside
    BY DEF ResolveAdb, Decide, Aside, GoTo, Finish, LogPlaces, Awaiting
  <1>2. Read("devices", "adb", StartInspect("features")) => Aside
    BY DEF Read, StartInspect, Aside, GoTo, Finish, LogPlaces, Awaiting, Keep
  <1>3. MdnsStep("inspect") => Aside
    BY DEF MdnsStep, Aside, LogPlaces, Awaiting, Keep
  <1>4. HardwareStep => Aside
    BY DEF HardwareStep, Aside, LogPlaces, Awaiting, Keep
  <1> QED BY <1>1, <1>2, <1>3, <1>4

LEMMA ChoosingIsAside ==
  Inspected(Select(LAMBDA choice :
          GoTo(IF cmd.package /\ ~cmd.pid THEN "uid" ELSE "window") /\ Keep([target |-> choice]))) => Aside
  BY DEF Inspected, Select, Decide, Aside, GoTo, Finish, LogPlaces, Awaiting, Keep

LEMMA OwnStepsAside ==
  /\ Decide("input", UNCHANGED mem /\ IF cmd.tagConflict THEN Finish({"input"}) ELSE GoTo("adb")) => Aside
  /\ Selector => Aside
  /\ StreamEnds => Aside
  <1>1. Decide("input", UNCHANGED mem /\ IF cmd.tagConflict THEN Finish({"input"}) ELSE GoTo("adb")) => Aside
    BY DEF Decide, Aside, GoTo, Finish, LogPlaces, Awaiting
  <1>2. Selector => Aside
    BY DEF Selector, Aside, GoTo, Finish, LogPlaces, Awaiting
  <1>3. StreamEnds => Aside
    BY DEF StreamEnds, Aside, Finish, LogPlaces, Awaiting
  <1> QED BY <1>1, <1>2, <1>3

\* The lines of the snapshot: the last ones up to n, in order.
LEMMA LastLinesAre ==
  ASSUME cmd.tail \in Nat, NEW n \in Nat
  PROVE  LET lines == LastLines(n)
         IN  /\ lines \in Seq(Nat)
             /\ \A i, j \in DOMAIN lines : lines[i] = lines[j] => i = j
             /\ \A x \in ToSet(lines) : x =< n
             /\ \A i \in Nat, j \in ToSet(lines) : j < i /\ i =< n => i \in ToSet(lines)
  <1> DEFINE left == IF cmd.tail < n THEN n - cmd.tail ELSE 0
             lines == [i \in 1 .. n - left |-> left + i]
  <1>1. left \in Nat /\ n - left \in Nat
    OBVIOUS
  <1> HIDE DEF left
  <1>2. lines \in Seq(Nat) /\ DOMAIN lines = 1 .. n - left
    BY <1>1
  <1>3. ASSUME NEW x PROVE x \in ToSet(lines) <=> x \in Nat /\ left < x /\ x =< n
    <2>1. x \in ToSet(lines) <=> \E i \in 1 .. n - left : x = left + i
      BY <1>2 DEF ToSet
    <2>2. x \in Nat /\ left < x /\ x =< n => x - left \in 1 .. n - left /\ x = left + (x - left)
      BY <1>1
    <2>3. ASSUME x \in ToSet(lines) PROVE x \in Nat /\ left < x /\ x =< n
      <3>1. PICK i \in 1 .. n - left : x = left + i
        BY <2>1, <2>3
      <3> QED BY <1>1, <3>1
    <2> QED BY <2>1, <2>2, <2>3
  <1>4. \A i, j \in DOMAIN lines : lines[i] = lines[j] => i = j
    BY <1>1, <1>2
  <1>5. lines = LastLines(n)
    BY DEF LastLines, left
  <1> HIDE DEF lines
  <1> QED BY <1>1, <1>2, <1>3, <1>4, <1>5

LEMMA WindowKeeps == LogInv /\ LogWindow => LogInv'
  <1> SUFFICES ASSUME LogInv, LogWindow PROVE LogInv'
    OBVIOUS
  <1>1. Logged \in Nat
    BY LoggedLines DEF LogInv
  <1>2. LogShape'
    BY DEF LogWindow, LogInv, LogShape, Decide, GoTo, Finish, Keep
  <1>3. at' \notin {"stream", "snapshot", "boundary"} \/ (cmd.tail = None /\ at' = "stream")
        \/ (cmd.tail \in Nat /\ (at' = "boundary" \/ (at' = "snapshot" /\ cmd.dump /\ mem'.next = Logged)))
    BY DEF LogWindow, Decide, GoTo, Finish, Keep, LogInv, LogShape, LogFields
  <1>4. cmd' = cmd
    BY DEF LogWindow, Decide
  <1> QED BY <1>1, <1>2, <1>3, <1>4 DEF LogInv, Windowed, Merged

LEMMA BoundaryKeeps == LogInv /\ Boundary => LogInv'
  <1> SUFFICES ASSUME LogInv, Boundary PROVE LogInv'
    OBVIOUS
  <1>1. Logged \in Nat
    BY LoggedLines DEF LogInv
  <1>2. LogShape'
    BY DEF Boundary, LogInv, LogShape, GoTo, Finish, Keep
  <1>3. \/ at' = "ended"
        \/ at' = "snapshot" /\ \E b \in 0 .. Logged : mem'.boundary = b /\ mem'.next = Logged
    BY DEF Boundary, GoTo, Finish, Keep, LogInv, LogShape, LogFields
  <1>4. cmd' = cmd /\ cmd.tail \in Nat
    BY DEF Boundary, Awaiting, LogInv, Windowed
  <1> QED BY <1>1, <1>2, <1>3, <1>4 DEF LogInv, Windowed, Merged

LEMMA SnapshotKeeps == LogInv /\ Snapshot => LogInv'
  <1> SUFFICES ASSUME LogInv, Snapshot PROVE LogInv'
    OBVIOUS
  <1>1. Logged \in Nat /\ cmd.tail \in Nat /\ mem.next \in Nat /\ cmd' = cmd /\ facts' = facts
    BY LoggedLines DEF LogInv, Snapshot, Awaiting, Windowed
  <1>2. LogShape'
    BY <1>1 DEF Snapshot, LogInv, LogShape, GoTo, Finish, Keep
  <1>3. \/ at' = "ended"
        \/ /\ at' = "stream" /\ ~cmd.dump
           /\ \E n \in mem.next .. Logged :
                /\ mem'.next = mem.boundary + 1 /\ mem'.lines = LastLines(n) /\ mem'.recent = ToSet(LastLines(n))
    BY DEF Snapshot, GoTo, Finish, Keep, LogInv, LogShape, LogFields, FromBoundary
  <1>4. CASE at' = "ended"
    BY <1>2, <1>4 DEF LogInv, Windowed, Merged
  <1>5. CASE at' = "stream" /\ ~cmd.dump
    <2>1. PICK n \in mem.next .. Logged :
             mem'.next = mem.boundary + 1 /\ mem'.lines = LastLines(n) /\ mem'.recent = ToSet(LastLines(n))
      BY <1>3, <1>5
    <2>2. n \in Nat /\ mem.boundary \in Nat /\ mem.boundary =< n
      BY <1>1, <1>5 DEF LogInv, Windowed, Snapshot, Awaiting
    <2>3. mem'.next \in Nat /\ mem'.next =< n + 1
      BY <2>1, <2>2
    <2>4. Merged'
      <3> DEFINE lines == LastLines(n)
      <3>1. /\ lines \in Seq(Nat) /\ \A i, j \in DOMAIN lines : lines[i] = lines[j] => i = j
            /\ \A i \in Nat, j \in ToSet(lines) : j < i /\ i =< n => i \in ToSet(lines)
        BY <1>1, <2>2, LastLinesAre
      <3>2. \A i \in Nat : i < mem'.next => i =< n
        BY <2>2, <2>3
      <3> HIDE DEF lines
      <3>3. mem'.lines = lines /\ mem'.recent = ToSet(lines)
        BY <2>1 DEF lines
      <3> QED BY <2>3, <3>1, <3>2, <3>3 DEF Merged
    <2> QED BY <1>2, <1>5, <2>4 DEF LogInv, Windowed
  <1> QED BY <1>3, <1>4, <1>5

\* What Append does to the set of the elements.
LEMMA SetOfAppend ==
  ASSUME NEW s \in Seq(Nat), NEW x \in Nat
  PROVE  ToSet(Append(s, x)) = ToSet(s) \cup {x}
  <1>1. Len(Append(s, x)) = Len(s) + 1 /\ \A i \in 1 .. Len(s) : Append(s, x)[i] = s[i]
    OBVIOUS
  <1>2. Append(s, x)[Len(s) + 1] = x /\ DOMAIN Append(s, x) = 1 .. Len(s) + 1 /\ DOMAIN s = 1 .. Len(s)
    OBVIOUS
  <1> QED BY <1>1, <1>2 DEF ToSet

LEMMA LineKeeps == LogInv /\ Line => LogInv'
  <1> SUFFICES ASSUME LogInv, Line PROVE LogInv'
    OBVIOUS
  <1>1. cmd' = cmd /\ facts' = facts /\ at = "stream" /\ at' = "stream"
    BY DEF Line, Awaiting
  <1>2. LogShape'
    BY <1>1 DEF Line, Shown, LogInv, LogShape, Keep
  <1>3. CASE cmd.tail = None
    BY <1>1, <1>2, <1>3 DEF LogInv, Windowed, Merged
  <1>4. CASE cmd.tail # None
    <2> DEFINE next == mem.next  lines == mem.lines
    <2>1. /\ next \in Nat /\ lines \in Seq(Nat)
          /\ \A i, j \in DOMAIN lines : lines[i] = lines[j] => i = j
          /\ mem.recent \subseteq ToSet(lines)
          /\ \A x \in ToSet(lines) \ mem.recent : x < next
          /\ \A i \in Nat, j \in ToSet(lines) : j < i /\ i < next => i \in ToSet(lines)
      BY <1>1, <1>4 DEF LogInv, Merged
    <2>2. ToSet(lines) \subseteq Nat
      BY <2>1 DEF ToSet
    <2>3. CASE next \in mem.recent
      <3>1. mem'.next = next + 1 /\ mem'.lines = lines /\ mem'.recent = mem.recent \ {next}
        BY <2>3 DEF Line, Shown, Keep, LogInv, LogShape, LogFields
      <3>2. \A i \in Nat : i < next + 1 => i < next \/ i = next
        BY <2>1
      <3> HIDE DEF next, lines
      <3>3. Merged'
        BY <2>1, <2>2, <2>3, <3>1, <3>2 DEF Merged
      <3> QED BY <1>1, <1>2, <3>3 DEF LogInv, Windowed
    <2>4. CASE next \notin mem.recent
      <3>1. mem'.next = next + 1 /\ mem'.lines = Append(lines, next) /\ mem'.recent = mem.recent
        BY <2>4 DEF Line, Shown, Keep, LogInv, LogShape, LogFields
      <3>2. \A i \in Nat : i < next + 1 => i < next \/ i = next
        BY <2>1
      <3>3. next \notin ToSet(lines)
        BY <2>1, <2>4
      <3>4. ToSet(Append(lines, next)) = ToSet(lines) \cup {next}
        BY <2>1, SetOfAppend
      <3> HIDE DEF next, lines
      <3>5. \A i, j \in DOMAIN Append(lines, next) : Append(lines, next)[i] = Append(lines, next)[j] => i = j
        <4>1. DOMAIN Append(lines, next) = 1 .. Len(lines) + 1 /\ DOMAIN lines = 1 .. Len(lines) /\ Len(lines) \in Nat
          BY <2>1
        <4>2. \A i \in 1 .. Len(lines) : Append(lines, next)[i] = lines[i] /\ lines[i] \in ToSet(lines)
          BY <2>1, <4>1 DEF ToSet
        <4>3. Append(lines, next)[Len(lines) + 1] = next
          BY <2>1
        <4> QED BY <2>1, <3>3, <4>1, <4>2, <4>3
      <3>6. Append(lines, next) \in Seq(Nat)
        BY <2>1
      <3>7. Merged'
        <4>1. mem'.next \in Nat /\ mem'.lines \in Seq(Nat) /\ mem'.recent \subseteq ToSet(mem'.lines)
          BY <2>1, <3>1, <3>4, <3>6
        <4>2. \A x \in ToSet(mem'.lines) \ mem'.recent : x < mem'.next
          BY <2>1, <2>2, <3>1, <3>4
        <4>3. \A i \in Nat, j \in ToSet(mem'.lines) : j < i /\ i < mem'.next => i \in ToSet(mem'.lines)
          BY <2>1, <2>2, <3>1, <3>2, <3>4
        <4>4. \A i, j \in DOMAIN mem'.lines : mem'.lines[i] = mem'.lines[j] => i = j
          BY <3>1, <3>5
        <4> QED BY <4>1, <4>2, <4>3, <4>4 DEF Merged
      <3> QED BY <1>1, <1>2, <3>7 DEF LogInv, Windowed
    <2> QED BY <2>3, <2>4
  <1> QED BY <1>3, <1>4

LEMMA LoggingKeeps == LogInv /\ DeviceLogs => LogInv'
  <1> SUFFICES ASSUME LogInv, DeviceLogs PROVE LogInv'
    OBVIOUS
  <1>1. Logged + 1 \in Nat
    BY LoggedLines DEF LogInv
  <1>2. UNCHANGED <<cmd, at, mem>> /\ facts' = {<<"logged", Logged + 1>>}
    BY DEF DeviceLogs, command
  <1>3. LogShape'
    BY <1>1, <1>2 DEF LogInv, LogShape
  <1> QED BY <1>2, <1>3 DEF LogInv, Windowed, Merged

LEMMA LogSteps == LogInv /\ [Logs \/ Signal]_vars => LogInv'
  <1> SUFFICES ASSUME LogInv, [Logs \/ Signal]_vars PROVE LogInv'
    OBVIOUS
  <1>1. CASE Logs
    BY <1>1, LoggingKeeps, AsideKeeps, OwnStepsAside, SharedStepsAreAside, ChoosingIsAside, WindowKeeps,
       BoundaryKeeps, SnapshotKeeps, LineKeeps DEF Logs
  <1>2. CASE Signal \/ UNCHANGED vars
    <2>1. UNCHANGED <<cmd, at, mem, facts>>
      BY <1>2 DEF Signal, vars, command
    <2> QED BY <2>1 DEF LogInv, LogShape, Windowed, Merged
  <1> QED BY <1>1, <1>2

\* A sequence without repetitions is as long as the set of its elements is large.
LEMMA DistinctLines ==
  ASSUME NEW s \in Seq(Nat), \A i, j \in DOMAIN s : s[i] = s[j] => i = j
  PROVE  Len(s) = Cardinality(ToSet(s))
  <1>1. DOMAIN s = 1 .. Len(s) /\ Len(s) \in Nat /\ s = [i \in 1 .. Len(s) |-> s[i]]
    OBVIOUS
  <1>2. s \in Bijection(1 .. Len(s), ToSet(s))
    BY <1>1 DEF ToSet, Bijection, Injection, Surjection, IsInjective
  <1>3. IsFiniteSet(1 .. Len(s)) /\ Cardinality(1 .. Len(s)) = Len(s)
    <2>1. 1 \in Int /\ Len(s) \in Int /\ Len(s) - 1 + 1 = Len(s) /\ (1 > Len(s) => Len(s) = 0)
      BY <1>1
    <2>2. Cardinality(1 .. Len(s)) = IF 1 > Len(s) THEN 0 ELSE Len(s) - 1 + 1
      BY <2>1, FS_Interval
    <2> QED BY <2>1, <2>2, FS_Interval
  <1> QED BY <1>1, <1>2, <1>3, FS_Bijection DEF ExistsBijection

\* NoLogGap (runLogs of src/app/commands.ts): a tail that is followed shows nothing
\* twice and leaves out nothing logcat has come past, however many lines the device
\* writes at any moment and whatever tail is asked for.
THEOREM LogsHaveNoGap == LogsSpec => []NoLogGap
  <1>1. LogInv => NoLogGap
    <2> SUFFICES ASSUME LogInv, at = "stream", cmd.tail # None
                 PROVE  /\ Len(mem.lines) = Cardinality(ToSet(mem.lines))
                        /\ mem.recent \subseteq ToSet(mem.lines)
                        /\ \A i \in 1 .. mem.next - 1 :
                             (\E j \in ToSet(mem.lines) : j < i) => i \in ToSet(mem.lines)
      BY DEF NoLogGap
    <2>1. mem.next \in Nat /\ mem.lines \in Seq(Nat) /\ \A i, j \in DOMAIN mem.lines : mem.lines[i] = mem.lines[j] => i = j
      BY DEF LogInv, Merged
    <2>2. \A i \in 1 .. mem.next - 1 : i \in Nat /\ i < mem.next
      BY <2>1
    <2>3. Len(mem.lines) = Cardinality(ToSet(mem.lines))
      BY <2>1, DistinctLines
    <2> QED BY <2>2, <2>3 DEF LogInv, Merged
  <1> QED BY <1>1, LogsInitially, LogSteps, PTL DEF LogsSpec

-----------------------------------------------------------------------------
(* Exit codes *)

\* A command ends with zero only without a problem.
LEMMA ZeroIsNoProblem ==
  ASSUME NEW ps
  PROVE  /\ ExitOf(ps) # Running /\ (ExitOf(ps) = "0" <=> ps = {})
         /\ AppExitOf(ps) # Running /\ (AppExitOf(ps) = "0" <=> ps = {})
  <1> DEFINE first(hits) == CHOOSE i \in hits : \A j \in hits : i =< j
  <1>1. ASSUME NEW hits \in SUBSET (1 .. 5), hits # {} PROVE first(hits) \in hits
    <2>1. \E i \in hits : \A j \in hits : i =< j
      <3>1. CASE 1 \in hits
        BY <3>1
      <3>2. CASE 1 \notin hits /\ 2 \in hits
        BY <3>2
      <3>3. CASE 1 \notin hits /\ 2 \notin hits /\ 3 \in hits
        BY <3>3
      <3>4. CASE 1 \notin hits /\ 2 \notin hits /\ 3 \notin hits /\ 4 \in hits
        BY <3>4
      <3>5. CASE 1 \notin hits /\ 2 \notin hits /\ 3 \notin hits /\ 4 \notin hits
        <4>1. \A x \in hits : x \in 1 .. 5
          OBVIOUS
        <4>2. \A x \in hits : x = 5
          BY <3>5, <4>1
        <4>3. PICK i \in hits : TRUE
          BY <1>1
        <4> QED BY <4>2, <4>3
      <3> QED BY <3>1, <3>2, <3>3, <3>4, <3>5
    <2> QED BY <2>1
  <1> HIDE DEF first
  <1>2. ASSUME NEW kinds, DOMAIN kinds \in SUBSET (1 .. 5), \A i \in DOMAIN kinds : kinds[i] \notin {"0", Running}
        PROVE  FirstKind(kinds, ps) # Running /\ (FirstKind(kinds, ps) = "0" <=> ps = {})
    <2> DEFINE hits == {i \in DOMAIN kinds : kinds[i] \in ps}
    <2>1. FirstKind(kinds, ps) = IF ps = {} THEN "0" ELSE IF hits = {} THEN "adb" ELSE kinds[first(hits)]
      BY DEF FirstKind, first
    <2>2. hits # {} => first(hits) \in DOMAIN kinds
      BY <1>1, <1>2
    <2> HIDE DEF hits
    <2> QED BY <1>2, <2>1, <2>2 DEF Running
  <1>3. ExitOf(ps) # Running /\ (ExitOf(ps) = "0" <=> ps = {})
    <2> DEFINE kinds == <<"interrupted", "input", "environment", "target", "child">>
    <2>1. DOMAIN kinds \in SUBSET (1 .. 5) /\ \A i \in DOMAIN kinds : kinds[i] \notin {"0", Running}
      BY DEF Running
    <2> HIDE DEF kinds
    <2>2. FirstKind(kinds, ps) # Running /\ (FirstKind(kinds, ps) = "0" <=> ps = {})
      BY <1>2, <2>1
    <2> QED BY <2>2 DEF ExitOf, kinds
  <1>4. AppExitOf(ps) # Running /\ (AppExitOf(ps) = "0" <=> ps = {})
    <2> DEFINE kinds == <<"input", "environment", "target">>
    <2>1. DOMAIN kinds \in SUBSET (1 .. 5) /\ \A i \in DOMAIN kinds : kinds[i] \notin {"0", Running}
      BY DEF Running
    <2> HIDE DEF kinds
    <2>2. FirstKind(kinds, ps) # Running /\ (FirstKind(kinds, ps) = "0" <=> ps = {})
      BY <1>2, <2>1
    <2> QED BY <2>2 DEF AppExitOf, kinds
  <1> QED BY <1>3, <1>4

\* How a command that ends does so.
EndsAs == at' = "ended" /\ exit' # Running /\ (exit' = "0" <=> problems' = {})

LEMMA FinishIsOver == ASSUME NEW ps PROVE Finish(ps) => EndsAs /\ problems' = problems \cup ps
  BY ZeroIsNoProblem DEF Finish, EndsAs

-----------------------------------------------------------------------------
(* What is held on the host and on the device *)

TempPlaces == {"transform", "commit", "unlink", "invalid", "caught", "discard-pull", "thrown", "write", "rename", "undo"}
RemotePlaces == {"pull", "discard-pull", "commit", "unlink", "sha256", "thrown", "cleanup"}
HeldPlaces == TempPlaces \cup RemotePlaces \cup {"ui-dump", "send", "restore"}

EndsRight == exit # Running => at = "ended" /\ (exit = "0" <=> problems = {})
LockHeld == <<"ui-lock", "mine">> \in facts => at = "ui-dump"
TempHeld ==
  Temp \in facts =>
    \/ at \in TempPlaces
    \/ at = "cleanup" /\ mem.thrown
    \/ exit # Running /\ (exit = "internal" \/ (cmd.name = "bundle" /\ mem.thrown))
RemoteHeld == Remote \in facts => cmd.action # "screenshot" /\ (at \in RemotePlaces \/ problems # {})
ImeHeld ==
  cmd.name = "ui" =>
    /\ \E value : {f \in facts : f[1] = "ime"} = {<<"ime", value>>}
    /\ mem.ime = "own" => <<"ime", "own">> \in facts \/ at \in {"send", "restore"} \/ problems # {}
Remembered == "ime" \in DOMAIN mem /\ (cmd.name # "ui" => "thrown" \in DOMAIN mem)

HeldInv == EndsRight /\ LockHeld /\ TempHeld /\ RemoteHeld /\ ImeHeld /\ Remembered

LEMMA HeldInitially == EvidenceInit => HeldInv
  <1> SUFFICES ASSUME EvidenceInit PROVE HeldInv
    OBVIOUS
  <1>1. exit = Running /\ {Temp, Remote, <<"ui-lock", "mine">>} \cap facts = {}
    BY DEF EvidenceInit, CommandInit
  <1>2. EndsRight /\ LockHeld /\ TempHeld /\ RemoteHeld
    BY <1>1 DEF EndsRight, LockHeld, TempHeld, RemoteHeld
  <1>3. CASE cmd.name = "ui"
    <2>1. mem = UiMemory /\ \E value : {f \in facts : f[1] = "ime"} = {<<"ime", value>>}
      BY <1>3 DEF EvidenceInit, CommandInit
    <2>2. "ime" \in DOMAIN mem /\ mem.ime = None
      BY <2>1 DEF UiMemory, Amended
    <2> QED BY <1>2, <1>3, <2>1, <2>2, NoneAssumption DEF HeldInv, ImeHeld, Remembered
  <1>4. CASE cmd.name # "ui"
    <2>1. mem = EvidenceMemory
      BY <1>4 DEF EvidenceInit, CommandInit
    <2>2. "thrown" \in DOMAIN mem /\ "ime" \in DOMAIN mem
      BY <2>1 DEF EvidenceMemory, UiMemory, Amended
    <2> QED BY <1>2, <1>4, <2>2 DEF HeldInv, ImeHeld, Remembered
  <1> QED BY <1>3, <1>4

\* The facts change, but none of those that are held.
SameHeld ==
  /\ {f \in facts' : f[1] = "ime"} = {f \in facts : f[1] = "ime"}
  /\ <<"ime", "own">> \in facts' <=> <<"ime", "own">> \in facts
  /\ Temp \in facts' <=> Temp \in facts
  /\ Remote \in facts' <=> Remote \in facts
  /\ <<"ui-lock", "mine">> \in facts' <=> <<"ui-lock", "mine">> \in facts

LEMMA UnchangedIsSame == facts' = facts => SameHeld
  BY DEF SameHeld

\* Another value for one of the facts of a device of which there is one.
LEMMA WithIsSame ==
  ASSUME NEW kind \in {"screen", "text", "keyboard"}, NEW value, facts' = With(kind, value) PROVE SameHeld
  BY DEF SameHeld, With, Temp, Remote

\* What the device and other programs do beside a command.
Beside == UNCHANGED <<cmd, at, mem, problems, exit>> /\ SameHeld

LEMMA BesideKeeps == HeldInv /\ Beside => HeldInv'
  BY DEF HeldInv, Beside, SameHeld, EndsRight, LockHeld, TempHeld, RemoteHeld, ImeHeld,
         Remembered, Temp, Remote

\* A step from a place where nothing is held that changes neither such facts nor what
\* is remembered of the input method.
Plain ==
  /\ UNCHANGED cmd /\ (facts' = facts \/ SameHeld) /\ DOMAIN mem' = DOMAIN mem /\ mem'.ime = mem.ime
  /\ at \notin HeldPlaces /\ problems \subseteq problems'
  /\ exit = Running /\ (exit' = Running \/ EndsAs)

LEMMA PlainKeeps == HeldInv /\ Plain => HeldInv'
  <1> SUFFICES ASSUME HeldInv, Plain PROVE HeldInv'
    OBVIOUS
  <1>1. cmd' = cmd /\ SameHeld /\ (problems # {} => problems' # {})
    BY UnchangedIsSame DEF Plain
  <1>2. <<"ui-lock", "mine">> \notin facts /\ Temp \notin facts
    BY DEF Plain, HeldInv, LockHeld, TempHeld, HeldPlaces, RemotePlaces
  <1>3. EndsRight'
    BY DEF Plain, EndsAs, EndsRight
  <1>4. LockHeld' /\ TempHeld'
    BY <1>1, <1>2 DEF LockHeld, TempHeld, Temp, SameHeld
  <1>5. RemoteHeld'
    BY <1>1 DEF RemoteHeld, Remote, Plain, HeldPlaces, HeldInv, SameHeld
  <1>6. ImeHeld' /\ Remembered'
    BY <1>1 DEF ImeHeld, Plain, HeldPlaces, HeldInv, Remembered, SameHeld
  <1> QED BY <1>3, <1>4, <1>5, <1>6 DEF HeldInv

-----------------------------------------------------------------------------
(* The steps the commands share *)

\* readyTarget, up to the place a command goes on from.
LEMMA ReadyTargetIsPlain ==
  ASSUME NEW first, Remembered, ReadyTarget(first) PROVE Plain
  <1>0. "ime" \in DOMAIN mem
    BY DEF Remembered
  <1>1. ASSUME NEW ps, Unready(ps)
        PROVE  mem' = mem /\ problems \subseteq problems' /\ EndsAs
    BY <1>1, FinishIsOver DEF Unready
  <1>2. CASE Decide("adb", IF cmd.adb THEN GoTo("devices") /\ UNCHANGED mem ELSE Unready({"environment"}))
    BY <1>1, <1>2 DEF Decide, Awaiting, GoTo, Plain, HeldPlaces, TempPlaces, RemotePlaces
  <1>3. CASE /\ Awaiting("devices") /\ UNCHANGED <<cmd, signal, facts>>
             /\ \E r \in Ends : Settles(r) /\ IF r = "ok" THEN StartInspect("features") ELSE Unready({ProblemOf(r, "adb")})
    <2>1. StartInspect("features") => UNCHANGED <<problems, exit>> /\ DOMAIN mem' = DOMAIN mem /\ mem'.ime = mem.ime
      BY <1>0 DEF StartInspect, GoTo, Keep
    <2> QED BY <1>1, <1>3, <2>1 DEF Awaiting, Plain, HeldPlaces, TempPlaces, RemotePlaces
  <1>4. CASE MdnsStep("inspect")
    <2>1. \A next : Keep([mdns |-> next]) => DOMAIN mem' = DOMAIN mem /\ mem'.ime = mem.ime
      BY <1>0 DEF Keep
    <2> QED BY <1>4, <2>1 DEF MdnsStep, Awaiting, Plain, HeldPlaces, TempPlaces, RemotePlaces
  <1>5. CASE HardwareStep
    <2>1. DOMAIN mem' = DOMAIN mem /\ mem'.ime = mem.ime
      BY <1>0, <1>5 DEF HardwareStep, Keep
    <2>2. UNCHANGED <<cmd, signal, facts, at, problems, exit>> /\ Awaiting("inspect")
      BY <1>5 DEF HardwareStep
    <2> QED BY <2>1, <2>2 DEF Awaiting, Plain, HeldPlaces, TempPlaces, RemotePlaces
  <1>6. CASE Decide("inspect",
       /\ mem.mdns \in Ends /\ mem.hardware \in Ends
       /\ LET choice == SelectTarget(cmd.devices, SeenIdentity, cmd.select)
          IN  IF "aborted" \in {mem.mdns, mem.hardware} THEN Unready({"interrupted"})
              ELSE IF choice.kind # "selected" THEN Unready({"target"})
              ELSE GoTo(first) /\ Keep([target |-> choice]))
    <2>1. \A choice : Keep([target |-> choice]) => DOMAIN mem' = DOMAIN mem /\ mem'.ime = mem.ime
      BY <1>0 DEF Keep
    <2> QED BY <1>1, <1>6, <2>1 DEF Decide, Awaiting, GoTo, Plain, HeldPlaces, TempPlaces,
               RemotePlaces
  <1> QED BY <1>2, <1>3, <1>4, <1>5, <1>6 DEF ReadyTarget

\* RequireApp, up to the place a command goes on from.
LEMMA RequireAppIsPlain ==
  ASSUME NEW next, Remembered, RequireApp(next) PROVE Plain
  <1>0. "ime" \in DOMAIN mem
    BY DEF Remembered
  <1>1. ASSUME NEW names, Identified(names, next)
        PROVE  DOMAIN mem' = DOMAIN mem /\ mem'.ime = mem.ime /\ problems \subseteq problems' /\ (exit' = exit \/ EndsAs)
    BY <1>0, <1>1, FinishIsOver DEF Identified, GoTo, Keep
  <1>2. CASE Decide("identify", IF cmd.local = "none" THEN GoTo("packages") /\ UNCHANGED mem ELSE Identified({}, next))
    BY <1>1, <1>2 DEF Decide, Awaiting, GoTo, Plain, HeldPlaces, TempPlaces, RemotePlaces
  <1>3. CASE Read("packages", "adb", Identified(InstalledNames, next))
    BY <1>1, <1>3, FinishIsOver DEF Read, Awaiting, Plain, HeldPlaces, TempPlaces, RemotePlaces
  <1> QED BY <1>2, <1>3 DEF RequireApp

-----------------------------------------------------------------------------
(* The UI commands *)

LEMMA UiDecisionsArePlain ==
  ASSUME Remembered
  PROVE  /\ UiQuery => Plain
         /\ UiWait => Plain
         /\ UiBefore => Plain
         /\ ScreenSize => Plain
         /\ KeyCombination => Plain
         /\ UiPlan => Plain
         /\ UiAfter => Plain
  <1>0. "ime" \in DOMAIN mem
    BY DEF Remembered
  <1>1. UiQuery => Plain
    BY FinishIsOver DEF UiQuery, Decide, Awaiting, Plain, HeldPlaces, TempPlaces, RemotePlaces
  <1>2. UiWait => Plain
    BY <1>0, FinishIsOver DEF UiWait, Decide, Awaiting, GoTo, Keep, Plain, HeldPlaces,
       TempPlaces, RemotePlaces
  <1>3. UiBefore => Plain
    BY <1>0, FinishIsOver DEF UiBefore, Decide, Awaiting, GoTo, Keep, Plain, HeldPlaces,
       TempPlaces, RemotePlaces
  <1>4. ScreenSize => Plain
    BY FinishIsOver DEF ScreenSize, Read, Awaiting, GoTo, Plain, HeldPlaces, TempPlaces,
       RemotePlaces
  <1>5. KeyCombination => Plain
    BY FinishIsOver DEF KeyCombination, Read, Awaiting, GoTo, Plain, HeldPlaces, TempPlaces,
       RemotePlaces
  <1>6. UiPlan => Plain
    BY <1>0, FinishIsOver DEF UiPlan, Decide, Awaiting, GoTo, Keep, Plain, HeldPlaces,
       TempPlaces, RemotePlaces
  <1>7. UiAfter => Plain
    BY <1>0, FinishIsOver DEF UiAfter, Observe, Decide, Awaiting, GoTo, Keep, Plain, HeldPlaces,
       TempPlaces, RemotePlaces
  <1> QED BY <1>1, <1>2, <1>3, <1>4, <1>5, <1>6, <1>7

\* The beginning of a UI command, and what is decided of the keyboard and of dialogs.
UiBegins ==
  \/ Decide("input", UNCHANGED mem /\ IF cmd.action = "inspect" /\ ~cmd.validSelector THEN Finish({"input"}) ELSE GoTo("adb"))
  \/ ReadyTarget("selector")
  \/ Decide("selector",
          CASE cmd.action = "keyboard" -> ReadKeyboard("key-before")
            [] cmd.action = "permission" -> Observe("dialog")
            [] cmd.action = "inspect" -> Observe("query")
            [] OTHER -> IF ~cmd.validSelector THEN Finish({"input"}) /\ UNCHANGED mem
                        ELSE Observe(CASE cmd.action = "query" -> "query" [] cmd.action = "wait" -> "waited" [] OTHER -> "before"))

LEMMA UiBeginningIsPlain == ASSUME Remembered, UiBegins PROVE Plain
  <1>0. "ime" \in DOMAIN mem
    BY DEF Remembered
  <1>1. ASSUME NEW next, Observe(next) \/ ReadKeyboard(next)
        PROVE  DOMAIN mem' = DOMAIN mem /\ mem'.ime = mem.ime /\ problems' = problems /\ exit' = exit
    BY <1>0, <1>1 DEF Observe, ReadKeyboard, GoTo, Keep
  <1>2. CASE Decide("input", UNCHANGED mem /\ IF cmd.action = "inspect" /\ ~cmd.validSelector THEN Finish({"input"}) ELSE GoTo("adb"))
    BY <1>2, FinishIsOver DEF Decide, Awaiting, GoTo, Plain, HeldPlaces, TempPlaces,
       RemotePlaces
  <1>3. CASE ReadyTarget("selector")
    BY <1>3, ReadyTargetIsPlain
  <1>4. CASE Decide("selector",
          CASE cmd.action = "keyboard" -> ReadKeyboard("key-before")
            [] cmd.action = "permission" -> Observe("dialog")
            [] cmd.action = "inspect" -> Observe("query")
            [] OTHER -> IF ~cmd.validSelector THEN Finish({"input"}) /\ UNCHANGED mem
                        ELSE Observe(CASE cmd.action = "query" -> "query" [] cmd.action = "wait" -> "waited" [] OTHER -> "before"))
    <2>1. UNCHANGED <<cmd, facts>> /\ exit = Running /\ at = "selector"
      BY <1>4 DEF Decide, Awaiting
    <2>2. \/ \E next : Observe(next) \/ ReadKeyboard(next)
          \/ Finish({"input"}) /\ UNCHANGED mem
      BY <1>4 DEF Decide
    <2> QED BY <1>1, <2>1, <2>2, FinishIsOver DEF Plain, HeldPlaces, TempPlaces, RemotePlaces
  <1> QED BY <1>2, <1>3, <1>4 DEF UiBegins

LEMMA EffectIsOneOf == ASSUME NEW r, NEW new PROVE Effect(r, new) \/ HonestEffect(r, new) => facts' \in {facts, new}
  BY DEF Effect, HonestEffect

\* A call that changes the screen or the keyboard.
LEMMA ChangeIsPlain ==
  ASSUME NEW step \in {"dismiss", "respond"}, NEW new, NEW next, Remembered,
         Change(step, new, ReadKeyboard(next)) \/ Change(step, new, Observe(next)), facts' = new => SameHeld
  PROVE  Plain
  <1>0. "ime" \in DOMAIN mem
    BY DEF Remembered
  <1>1. Observe(next) \/ ReadKeyboard(next) => DOMAIN mem' = DOMAIN mem /\ mem'.ime = mem.ime /\ UNCHANGED <<problems, exit>>
    BY <1>0 DEF Observe, ReadKeyboard, GoTo, Keep
  <1>2. exit = Running /\ at = step /\ cmd' = cmd /\ facts' \in {facts, new}
    BY EffectIsOneOf DEF Change, Awaiting
  <1>3. Observe(next) \/ ReadKeyboard(next) \/ (UNCHANGED mem /\ EndsAs /\ problems \subseteq problems')
    BY FinishIsOver DEF Change
  <1> QED BY <1>1, <1>2, <1>3 DEF Plain, HeldPlaces, TempPlaces, RemotePlaces

LEMMA KeyboardIsPlain == ASSUME Remembered, Keyboard PROVE Plain
  <1>0. "ime" \in DOMAIN mem
    BY DEF Remembered
  <1>1. CASE KeyboardReads
    <2>1. ASSUME NEW which \in {"method", "window"}, NEW value, Keep([x \in {which} |-> value])
          PROVE  DOMAIN mem' = DOMAIN mem /\ mem'.ime = mem.ime
      BY <1>0, <2>1 DEF Keep
    <2> QED BY <1>1, <2>1, FinishIsOver DEF KeyboardReads, Decide, Awaiting, GoTo, Plain,
               HeldPlaces, TempPlaces, RemotePlaces
  <1>2. CASE Decide("key-before", UNCHANGED mem /\
       IF ~cmd.supported \/ mem.method # mem.window THEN Finish({"adb"})
       ELSE IF cmd.query = "status" \/ Agreed("hidden") \/ cmd.dryRun THEN Finish({}) ELSE GoTo("dismiss"))
    BY <1>2, FinishIsOver DEF Decide, Awaiting, GoTo, Plain, HeldPlaces, TempPlaces,
       RemotePlaces
  <1>3. CASE \E s \in Screens :
       Change("dismiss", IF Of("keyboard") = "visible" THEN With("keyboard", "hidden") ELSE With("screen", s),
              ReadKeyboard("key-after"))
    <2>1. PICK s \in Screens :
       Change("dismiss", IF Of("keyboard") = "visible" THEN With("keyboard", "hidden") ELSE With("screen", s),
              ReadKeyboard("key-after"))
      BY <1>3
    <2> DEFINE new == IF Of("keyboard") = "visible" THEN With("keyboard", "hidden") ELSE With("screen", s)
    <2>2. facts' = new => SameHeld
      BY WithIsSame
    <2> QED BY <2>1, <2>2, ChangeIsPlain
  <1>4. CASE Decide("key-after", UNCHANGED mem /\ Finish(IF Agreed("hidden") THEN {} ELSE {"adb"}))
    BY <1>4, FinishIsOver DEF Decide, Awaiting, Plain, HeldPlaces, TempPlaces, RemotePlaces
  <1> QED BY <1>1, <1>2, <1>3, <1>4 DEF Keyboard

LEMMA PermissionIsPlain == ASSUME Remembered, Permission PROVE Plain
  <1>0. "ime" \in DOMAIN mem
    BY DEF Remembered
  <1>1. CASE Decide("dialog",
       /\ Keep([before |-> mem.seen])
       /\ IF cmd.query = "inspect" THEN Finish(IF Dialog(mem.seen) = "unsupported" THEN {"adb"} ELSE {})
          ELSE IF Dialog(mem.seen) \in {"absent", "unsupported"} THEN Finish({"adb"})
          ELSE IF ~cmd.usable THEN Finish({"input"}) ELSE IF cmd.dryRun THEN Finish({}) ELSE GoTo("respond"))
    BY <1>0, <1>1, FinishIsOver DEF Decide, Awaiting, GoTo, Keep, Plain, HeldPlaces, TempPlaces,
       RemotePlaces
  <1>2. CASE \E s \in Screens : Change("respond", With("screen", s), Observe("responded"))
    BY <1>2, WithIsSame, ChangeIsPlain
  <1>3. CASE Decide("responded", UNCHANGED mem /\
       Finish(IF mem.seen # mem.before /\ Dialog(mem.seen) # Dialog(mem.before) THEN {} ELSE {"adb"}))
    BY <1>3, FinishIsOver DEF Decide, Awaiting, Plain, HeldPlaces, TempPlaces, RemotePlaces
  <1> QED BY <1>1, <1>2, <1>3 DEF Permission

LEMMA UiMovesKeep == HeldInv /\ UiMoves => HeldInv'
  <1> SUFFICES ASSUME HeldInv, UiMoves PROVE Beside
    BY BesideKeeps
  <1>1. CASE \E kind \in {"screen", "keyboard"} : \E value : facts' = With(kind, value)
    BY <1>1, WithIsSame DEF UiMoves, Beside, command
  <1>2. CASE facts' \in {facts \ {<<"ui-lock", "other">>}, facts \cup {<<"ui-lock", "other">>}}
    BY <1>2 DEF UiMoves, Beside, command, SameHeld, Temp, Remote
  <1> QED BY <1>1, <1>2 DEF UiMoves

\* The one fact of a kind is what Of finds.
LEMMA OfTheOne ==
  ASSUME NEW kind, NEW value, {f \in facts : f[1] = kind} = {<<kind, value>>}
  PROVE  Of(kind) = value /\ <<kind, value>> \in facts
  <1>1. (CHOOSE f \in facts : f[1] = kind) = <<kind, value>>
    OBVIOUS
  <1> QED BY <1>1 DEF Of

LEMMA UnicodeKeeps == HeldInv /\ cmd.name = "ui" /\ UnicodeInput => HeldInv'
  <1> SUFFICES ASSUME HeldInv, cmd.name = "ui", UnicodeInput PROVE HeldInv'
    OBVIOUS
  <1>0. "ime" \in DOMAIN mem
    BY DEF HeldInv, Remembered
  <1>1. CASE Decide("unicode", UNCHANGED mem /\ GoTo(IF cmd.action \in {"fill", "type"} /\ cmd.unicode THEN "ime-list" ELSE "plan"))
    <2>1. Plain
      BY <1>1 DEF Decide, Awaiting, GoTo, Plain, HeldPlaces, TempPlaces, RemotePlaces
    <2> QED BY <2>1, PlainKeeps
  <1>2. CASE Read("ime-list", "adb", UNCHANGED mem /\ IF cmd.imeEnabled THEN GoTo("ime-current") ELSE Finish({"adb"}))
    <2>1. Plain
      BY <1>2, FinishIsOver DEF Read, Awaiting, GoTo, Plain, HeldPlaces, TempPlaces,
         RemotePlaces
    <2> QED BY <2>1, PlainKeeps
  <1>3. CASE /\ Awaiting("ime-current") /\ UNCHANGED <<cmd, signal, facts>>
             /\ \E r \in Ends, known \in BOOLEAN : Settles(r) /\
                  IF r = "ok" /\ known THEN GoTo("plan") /\ Keep([ime |-> Of("ime")]) ELSE Finish({"adb"}) /\ UNCHANGED mem
    <2>1. CASE Finish({"adb"}) /\ UNCHANGED mem
      <3>1. Plain
        BY <1>3, <2>1, FinishIsOver DEF Awaiting, Plain, HeldPlaces, TempPlaces, RemotePlaces
      <3> QED BY <3>1, PlainKeeps
    <2>2. CASE GoTo("plan") /\ Keep([ime |-> Of("ime")])
      <3>1. DOMAIN mem' = DOMAIN mem /\ mem'.ime = Of("ime")
        BY <1>0, <2>2 DEF Keep
      <3>2. UNCHANGED <<cmd, facts, problems, exit>> /\ at = "ime-current" /\ at' = "plan" /\ exit = Running
        BY <1>3, <2>2 DEF Awaiting, GoTo
      <3>3. <<"ime", Of("ime")>> \in facts
        BY OfTheOne DEF HeldInv, ImeHeld
      <3>4. LockHeld' /\ TempHeld' /\ EndsRight'
        BY <3>2 DEF HeldInv, LockHeld, TempHeld, EndsRight, TempPlaces, Temp
      <3>5. RemoteHeld' /\ ImeHeld' /\ Remembered'
        BY <3>1, <3>2, <3>3 DEF HeldInv, RemoteHeld, ImeHeld, Remembered, RemotePlaces, Remote
      <3> QED BY <3>4, <3>5 DEF HeldInv
    <2> QED BY <1>3, <2>1, <2>2
  <1> QED BY <1>1, <1>2, <1>3 DEF UnicodeInput

\* The lease of the UI automation is held by a dump only.
LEMMA LockAndDumpKeep == HeldInv /\ (UiLock \/ UiDump) => HeldInv'
  <1> SUFFICES ASSUME HeldInv, UiLock \/ UiDump PROVE HeldInv'
    OBVIOUS
  <1>0. "ime" \in DOMAIN mem
    BY DEF HeldInv, Remembered
  <1>1. CASE UiLock
    <2>1. CASE UNCHANGED facts
      <3>1. Plain
        BY <1>1, <2>1, FinishIsOver DEF UiLock, Awaiting, GoTo, Plain, HeldPlaces, TempPlaces,
           RemotePlaces
      <3> QED BY <3>1, PlainKeeps
    <2>2. CASE GoTo("ui-dump") /\ facts' = facts \cup {<<"ui-lock", "mine">>}
      <3>1. UNCHANGED <<cmd, mem, problems, exit>> /\ at = "ui-lock" /\ at' = "ui-dump" /\ exit = Running
        BY <1>1, <2>2 DEF UiLock, Awaiting, GoTo
      <3>2. {f \in facts' : f[1] = "ime"} = {f \in facts : f[1] = "ime"}
        BY <2>2
      <3>3. LockHeld' /\ TempHeld' /\ EndsRight'
        BY <2>2, <3>1 DEF HeldInv, LockHeld, TempHeld, EndsRight, TempPlaces, Temp
      <3>4. RemoteHeld' /\ Remembered'
        BY <2>2, <3>1 DEF HeldInv, RemoteHeld, Remembered, RemotePlaces, Remote
      <3>5. ImeHeld'
        BY <2>2, <3>1, <3>2 DEF HeldInv, ImeHeld
      <3> QED BY <3>3, <3>4, <3>5 DEF HeldInv
    <2> QED BY <1>1, <2>1, <2>2 DEF UiLock
  <1>2. CASE UiDump
    <2>1. /\ cmd' = cmd /\ at = "ui-dump" /\ exit = Running /\ facts' = facts \ {<<"ui-lock", "mine">>}
          /\ DOMAIN mem' = DOMAIN mem /\ mem'.ime = mem.ime
      BY <1>0, <1>2 DEF UiDump, Awaiting, Keep
    <2>2. problems \subseteq problems' /\ (exit' = exit \/ EndsAs)
      BY <1>2, FinishIsOver DEF UiDump, GoTo
    <2>3. {f \in facts' : f[1] = "ime"} = {f \in facts : f[1] = "ime"}
      BY <2>1
    <2>4. EndsRight' /\ LockHeld' /\ TempHeld'
      BY <2>1, <2>2 DEF HeldInv, EndsRight, EndsAs, LockHeld, TempHeld, TempPlaces, Temp
    <2>5. RemoteHeld' /\ Remembered'
      BY <2>1, <2>2 DEF HeldInv, RemoteHeld, Remembered, RemotePlaces, Remote
    <2>6. ImeHeld'
      BY <2>1, <2>2, <2>3 DEF HeldInv, ImeHeld
    <2> QED BY <2>4, <2>5, <2>6 DEF HeldInv
  <1> QED BY <1>1, <1>2

\* Text is sent between the selection of the input method and its restoration.
Sending ==
  /\ UNCHANGED cmd /\ exit = Running /\ exit' = exit /\ problems \subseteq problems'
  /\ at \notin TempPlaces \cup RemotePlaces \cup {"ui-dump"}
  /\ DOMAIN mem' = DOMAIN mem /\ mem'.ime = mem.ime

LEMMA SendingKeeps ==
  ASSUME HeldInv, Sending,
         SameHeld \/ \E value : facts' = With("ime", value),
         cmd.name = "ui" /\ mem.ime = "own" => <<"ime", "own">> \in facts' \/ at' \in {"send", "restore"} \/ problems' # {}
  PROVE  HeldInv'
  <1>1. /\ <<"ui-lock", "mine">> \notin facts' /\ Temp \notin facts'
        /\ Remote \in facts' => Remote \in facts
    BY DEF HeldInv, Sending, LockHeld, TempHeld, SameHeld, With, Temp, Remote, RemotePlaces
  <1>2. cmd.name = "ui" => \E value : {f \in facts' : f[1] = "ime"} = {<<"ime", value>>}
    <2>1. CASE SameHeld
      BY <2>1 DEF HeldInv, ImeHeld, SameHeld
    <2>2. ASSUME NEW value, facts' = With("ime", value) PROVE {f \in facts' : f[1] = "ime"} = {<<"ime", value>>}
      BY <2>2 DEF With
    <2> QED BY <2>1, <2>2
  <1>3. EndsRight' /\ LockHeld' /\ TempHeld'
    BY <1>1 DEF Sending, EndsRight, LockHeld, TempHeld
  <1>4. RemoteHeld' /\ ImeHeld' /\ Remembered'
    BY <1>1, <1>2 DEF HeldInv, Sending, RemoteHeld, ImeHeld, Remembered
  <1> QED BY <1>3, <1>4 DEF HeldInv

LEMMA InputKeeps == HeldInv /\ (ImeSet \/ Send \/ Restore) => HeldInv'
  <1> SUFFICES ASSUME HeldInv, ImeSet \/ Send \/ Restore PROVE HeldInv'
    OBVIOUS
  <1>0. "ime" \in DOMAIN mem
    BY DEF HeldInv, Remembered
  <1>1. CASE ImeSet
    <2>1. Sending /\ at' \in {"send", "restore"} /\ facts' \in {facts, With("ime", "adb")}
      BY <1>1, EffectIsOneOf DEF ImeSet, Sending, Awaiting, GoTo, Note, TempPlaces, RemotePlaces
    <2> QED BY <2>1, SendingKeeps, UnchangedIsSame
  <1>2. CASE Send
    <2>1. /\ UNCHANGED cmd /\ exit = Running /\ exit' = exit /\ at = "send" /\ problems \subseteq problems'
          /\ at' \in {"send", AfterInput}
      BY <1>2 DEF Send, Awaiting, GoTo, Note
    <2>2. DOMAIN mem' = DOMAIN mem /\ mem'.ime = mem.ime
      BY <1>0, <1>2 DEF Send, Keep
    <2>3. ASSUME NEW call, NEW new \in Sent(call), facts' = new PROVE SameHeld
      <3>1. \/ \E kind \in {"screen", "text"} : \E value : new = With(kind, value)
            \/ new = facts
        BY DEF Sent
      <3> QED BY <2>3, <3>1, WithIsSame, UnchangedIsSame
    <2>4. SameHeld
      <3>1. facts' = facts \/ \E new \in Sent(Head(mem.todo)) : facts' = new
        BY <1>2, EffectIsOneOf DEF Send
      <3> QED BY <2>3, <3>1, UnchangedIsSame
    <2>5. Sending
      BY <2>1, <2>2 DEF Sending, TempPlaces, RemotePlaces
    <2>6. mem.ime = "own" => at' \in {"send", "restore"}
      BY <2>1 DEF AfterInput
    <2> QED BY <2>4, <2>5, <2>6, SendingKeeps
  <1>3. CASE Restore
    <2>1. Sending
      BY <1>3 DEF Restore, Sending, Awaiting, Note, TempPlaces, RemotePlaces
    <2>2. \/ facts' = With("ime", mem.ime)
          \/ facts' = facts /\ problems' # {}
      BY <1>3 DEF Restore, HonestEffect, Note
    <2>3. SameHeld \/ \E value : facts' = With("ime", value)
      BY <2>2, UnchangedIsSame
    <2>4. mem.ime = "own" => <<"ime", "own">> \in facts' \/ problems' # {}
      BY <2>2 DEF With
    <2> QED BY <2>1, <2>3, <2>4, SendingKeeps
  <1> QED BY <1>1, <1>2, <1>3

LEMMA UiKeeps == HeldInv /\ Ui => HeldInv'
  <1> SUFFICES ASSUME HeldInv, Ui PROVE HeldInv'
    OBVIOUS
  <1>1. cmd.name = "ui"
    BY DEF Ui
  <1>2. \/ UiBegins \/ UiMoves \/ UiLock \/ UiDump \/ UiQuery \/ UiWait
        \/ UiBefore \/ ScreenSize \/ KeyCombination \/ UnicodeInput \/ UiPlan
        \/ ImeSet \/ Send \/ Restore \/ UiAfter \/ Keyboard \/ Permission
    BY DEF Ui, UiBegins
  <1>3. UiQuery \/ UiWait \/ UiBefore \/ ScreenSize \/ KeyCombination \/ UiPlan \/ UiAfter => Plain
    BY UiDecisionsArePlain DEF HeldInv
  <1>4. UiBegins \/ Keyboard \/ Permission => Plain
    BY UiBeginningIsPlain, KeyboardIsPlain, PermissionIsPlain DEF HeldInv
  <1> QED BY <1>1, <1>2, <1>3, <1>4, PlainKeeps, UiMovesKeep, LockAndDumpKeep, UnicodeKeeps, InputKeeps

-----------------------------------------------------------------------------
(* The commands that keep evidence *)

\* A step of a capture, an inspection or a bundle after which what there is of a file
\* or of a recording is where a clean-up is still to come, or is reported.
Worked ==
  /\ UNCHANGED cmd /\ exit = Running /\ (exit' = Running \/ EndsAs) /\ DOMAIN mem' = DOMAIN mem
  /\ <<"ui-lock", "mine">> \notin facts'
  /\ Temp \in facts' =>
       \/ at' \in TempPlaces
       \/ at' = "cleanup" /\ mem'.thrown
       \/ exit' # Running /\ (exit' = "internal" \/ (cmd.name = "bundle" /\ mem'.thrown))
  /\ Remote \in facts' => cmd.action # "screenshot" /\ (at' \in RemotePlaces \/ problems' # {})

LEMMA WorkedKeeps == HeldInv /\ cmd.name # "ui" /\ Worked => HeldInv'
  BY DEF HeldInv, Worked, EndsRight, EndsAs, LockHeld, TempHeld, RemoteHeld, ImeHeld,
         Remembered, Temp, Remote

\* Without the lease of the UI automation a place tells what there is.
LEMMA WhatIsThere ==
  ASSUME HeldInv, at # "ui-dump", exit = Running
  PROVE  /\ <<"ui-lock", "mine">> \notin facts
         /\ Temp \in facts => at \in TempPlaces \/ (at = "cleanup" /\ mem.thrown)
         /\ Remote \in facts => cmd.action # "screenshot" /\ (at \in RemotePlaces \/ problems # {})
  BY DEF HeldInv, LockHeld, TempHeld, RemoteHeld

\* The file that was built gets its name, or is left where the clean-up finds it.
LEMMA CommitWorks ==
  ASSUME HeldInv, cmd.name # "ui",
         NEW next, NEW thrown, Commit(next, thrown),
         \/ cmd.action = "screenshot" /\ next = "kept" /\ thrown = "caught"
         \/ cmd.action # "screenshot" /\ next = "cleanup" /\ thrown = "thrown"
  PROVE  Worked
  <1>1. CASE /\ Awaiting("commit") /\ UNCHANGED <<cmd, signal, cut, mem>>
             /\ \/ facts' \in MoveToName /\ GoTo(IF cmd.force THEN "sha256" ELSE "unlink")
                \/ ("fail" \in Faults \/ MoveToName = {}) /\ UNCHANGED facts /\ GoTo(thrown)
    <2>1. exit = Running /\ exit' = exit /\ at = "commit" /\ UNCHANGED <<cmd, mem, problems>>
      BY <1>1 DEF Awaiting, GoTo
    <2>2. \/ /\ at' = "sha256" /\ Temp \notin facts' /\ (Remote \in facts' => Remote \in facts)
             /\ (<<"ui-lock", "mine">> \in facts' => <<"ui-lock", "mine">> \in facts)
          \/ /\ at' \in {"unlink", thrown} /\ (Remote \in facts' => Remote \in facts)
             /\ (<<"ui-lock", "mine">> \in facts' => <<"ui-lock", "mine">> \in facts)
      BY <1>1 DEF GoTo, MoveToName, Temp, Remote
    <2> QED BY <2>1, <2>2, WhatIsThere DEF Worked, TempPlaces, RemotePlaces
  <1>2. CASE /\ Awaiting("unlink") /\ UNCHANGED <<cmd, signal, cut, mem>>
             /\ \/ facts' = facts \ {Temp} /\ GoTo("sha256")
                \/ "fail" \in Faults /\ UNCHANGED facts /\ GoTo(thrown)
    BY <1>2, WhatIsThere DEF Awaiting, GoTo, Worked, TempPlaces, RemotePlaces
  <1>3. CASE Decide("sha256", UNCHANGED mem /\ (GoTo(next) \/ ("fail" \in Faults /\ GoTo(thrown))))
    BY <1>3, WhatIsThere DEF Decide, Awaiting, GoTo, Worked, TempPlaces, RemotePlaces
  <1> QED BY <1>1, <1>2, <1>3 DEF Commit

\* A removal of the file that was built, at one of its places.
DiscardInvalid == (Discard("invalid") /\ Finish({})) \/ (DiscardFails("invalid") /\ GoTo("caught"))
DiscardPulled == (Discard("discard-pull") /\ GoTo("cleanup")) \/ (DiscardFails("discard-pull") /\ GoTo("thrown"))
DiscardCaught == (Discard("caught") /\ Finish({"input"})) \/ (DiscardFails("caught") /\ Escapes)

LEMMA DiscardIs ==
  ASSUME DiscardInvalid \/ DiscardCaught
  PROVE  /\ exit = Running /\ at \in {"invalid", "caught"} /\ UNCHANGED <<cmd, signal, cut, mem>>
         /\ \/ facts' = facts \ {Temp} /\ EndsAs
            \/ facts' = facts /\ at' = "caught" /\ exit' = exit
            \/ facts' = facts /\ EndsAs /\ exit' = "internal"
         /\ problems \subseteq problems'
  BY FinishIsOver DEF DiscardInvalid, DiscardCaught, Discard, DiscardFails, Awaiting, Escapes, GoTo, EndsAs, Running

LEMMA DiscardWorks ==
  ASSUME HeldInv, cmd.name # "ui", DiscardInvalid \/ DiscardCaught PROVE Worked
  BY DiscardIs, WhatIsThere DEF Worked, TempPlaces, RemotePlaces, Temp, EndsAs

LEMMA ScreenshotWorks == ASSUME HeldInv, cmd.name # "ui", cmd.action = "screenshot", Screenshot PROVE Worked
  <1>1. CASE /\ Awaiting("screenshot") /\ UNCHANGED <<cmd, signal>>
             /\ facts' = facts \cup {Temp}
             /\ \E r \in Ends, valid \in BOOLEAN : Settles(r) /\ UNCHANGED mem /\
                  IF r = "ok" /\ valid THEN GoTo("transform") ELSE Note({ProblemOf(r, "adb")}, "invalid")
    BY <1>1, WhatIsThere DEF Awaiting, GoTo, Note, Worked, TempPlaces, RemotePlaces, Temp,
       Remote
  <1>2. CASE Decide("transform", UNCHANGED mem /\
               \/ GoTo("commit") \/ Note({"input"}, "invalid") \/ Note({"adb"}, "invalid"))
    BY <1>2, WhatIsThere DEF Decide, Awaiting, GoTo, Note, Worked, TempPlaces, RemotePlaces
  <1>3. CASE DiscardInvalid
    BY <1>3, DiscardWorks
  <1> QED BY <1>1, <1>2, <1>3 DEF Screenshot, DiscardInvalid

LEMMA ScreenRecordWorks == ASSUME HeldInv, cmd.name # "ui", cmd.action # "screenshot", ScreenRecord PROVE Worked
  <1>0. "thrown" \in DOMAIN mem
    BY DEF HeldInv, Remembered
  <1>1. CASE /\ Awaiting("record") /\ UNCHANGED <<cmd, signal>>
             /\ IF ~cmd.validDuration THEN Finish({"input"}) /\ UNCHANGED <<facts, mem, cut>>
                ELSE \E r \in Ends : Settles(r) /\ Effect(r, facts \cup {Remote}) /\ UNCHANGED mem /\
                       IF r = "ok" THEN GoTo("pull") ELSE Note({ProblemOf(r, "adb")}, "cleanup")
    <2>1. CASE Finish({"input"}) /\ UNCHANGED <<facts, mem, cut>>
      BY <1>1, <2>1, FinishIsOver, WhatIsThere DEF Awaiting, Worked, TempPlaces, RemotePlaces
    <2>2. CASE \E r \in Ends : Settles(r) /\ Effect(r, facts \cup {Remote}) /\ UNCHANGED mem /\
                       IF r = "ok" THEN GoTo("pull") ELSE Note({ProblemOf(r, "adb")}, "cleanup")
      BY <1>1, <2>2, EffectIsOneOf, WhatIsThere DEF Awaiting, GoTo, Note, Worked, TempPlaces,
         RemotePlaces, Temp, Remote
    <2> QED BY <1>1, <2>1, <2>2
  <1>2. CASE /\ Awaiting("pull") /\ UNCHANGED <<cmd, signal, mem>>
             /\ \E r \in Ends, valid \in BOOLEAN :
                  /\ Settles(r) /\ Effect(r, facts \cup {Temp}) /\ (r = "ok" => Remote \in facts)
                  /\ IF r = "ok" /\ valid /\ Temp \in facts' THEN GoTo("commit") ELSE Note({"adb"}, "discard-pull")
    BY <1>2, EffectIsOneOf, WhatIsThere DEF Awaiting, GoTo, Note, Worked, TempPlaces,
       RemotePlaces, Temp, Remote
  <1>3. CASE DiscardPulled
    BY <1>3, WhatIsThere DEF DiscardPulled, Discard, DiscardFails, Awaiting, GoTo, Worked, TempPlaces, RemotePlaces
  <1>4. CASE Decide("thrown", GoTo("cleanup") /\ Keep([thrown |-> TRUE]))
    <2>1. DOMAIN mem' = DOMAIN mem /\ mem'.thrown
      BY <1>0, <1>4 DEF Decide, Keep
    <2> QED BY <1>4, <2>1, WhatIsThere DEF Decide, Awaiting, GoTo, Worked, RemotePlaces
  <1>5. CASE /\ Awaiting("cleanup") /\ UNCHANGED <<cmd, signal, mem>>
             /\ \E r \in Ends : /\ SettlesAlone(r) /\ HonestEffect(r, facts \ {Remote})
                                /\ Note(IF r = "ok" THEN {} ELSE {"adb"}, IF mem.thrown THEN "caught" ELSE "kept")
    <2>1. \/ facts' = facts \ {Remote}
          \/ facts' = facts /\ problems' # {}
      BY <1>5 DEF HonestEffect, Note
    <2>2. /\ UNCHANGED <<cmd, mem, exit>> /\ exit = Running /\ at = "cleanup" /\ problems \subseteq problems'
          /\ at' = IF mem.thrown THEN "caught" ELSE "kept"
      BY <1>5 DEF Awaiting, Note
    <2> QED BY <2>1, <2>2, WhatIsThere DEF Worked, TempPlaces, RemotePlaces, Temp, Remote
  <1> QED BY <1>1, <1>2, <1>3, <1>4, <1>5 DEF ScreenRecord, DiscardPulled

LEMMA CaptureKeeps == HeldInv /\ Capture => HeldInv'
  <1> SUFFICES ASSUME HeldInv, Capture PROVE HeldInv'
    OBVIOUS
  <1>0. cmd.name # "ui"
    BY DEF Capture
  <1>1. CASE ForeignFile
    <2>1. Beside
      BY <1>1 DEF ForeignFile, Beside, command, SameHeld, Foreign, Temp, Remote
    <2> QED BY <2>1, BesideKeeps
  <1>2. CASE \/ Decide("input", UNCHANGED mem /\ IF CaptureRefused THEN Finish({"input"}) ELSE GoTo("adb"))
             \/ Prepare(cmd.action)
             \/ Decide("kept", Finish({}) /\ UNCHANGED mem)
    <2>1. Plain
      BY <1>2, FinishIsOver DEF Prepare, Decide, Awaiting, GoTo, Plain, HeldPlaces, TempPlaces,
         RemotePlaces
    <2> QED BY <2>1, PlainKeeps
  <1>3. CASE ReadyTarget("prepare")
    BY <1>3, ReadyTargetIsPlain, PlainKeeps DEF HeldInv
  <1>4. CASE cmd.action = "screenshot" /\ (Screenshot \/ Commit("kept", "caught"))
    BY <1>0, <1>4, ScreenshotWorks, CommitWorks, WorkedKeeps
  <1>5. CASE cmd.action # "screenshot" /\ (ScreenRecord \/ Commit("cleanup", "thrown"))
    BY <1>0, <1>5, ScreenRecordWorks, CommitWorks, WorkedKeeps
  <1>6. CASE DiscardCaught
    BY <1>0, <1>6, DiscardWorks, WorkedKeeps
  <1> QED BY <1>1, <1>2, <1>3, <1>4, <1>5, <1>6 DEF Capture, DiscardCaught

LEMMA InspectionKeeps == HeldInv /\ (InspectApp \/ InspectFailures \/ FailureSources) => HeldInv'
  <1> SUFFICES ASSUME Remembered, InspectApp \/ InspectFailures \/ FailureSources PROVE Plain
    BY PlainKeeps DEF HeldInv
  <1>0. "ime" \in DOMAIN mem
    BY DEF Remembered
  <1>1. ASSUME NEW next \in {"logs", "clock"}, InspectedApp(GoTo(next)) PROVE Plain
    <2>1. CASE Decide("input", UNCHANGED mem /\ IF cmd.validOptions THEN GoTo("adb") ELSE Finish({"input"}))
      BY <2>1, FinishIsOver DEF Decide, Awaiting, GoTo, Plain, HeldPlaces, TempPlaces,
         RemotePlaces
    <2>2. CASE ReadyTarget("identify") \/ RequireApp("info-active")
      BY <2>2, ReadyTargetIsPlain, RequireAppIsPlain
    <2>3. CASE Look("info-active", GoTo("info-package"))
      BY <2>3 DEF Look, Awaiting, GoTo, Plain, HeldPlaces, TempPlaces, RemotePlaces
    <2>4. CASE /\ Awaiting("info-package") /\ UNCHANGED <<cmd, signal, facts, mem>>
               /\ \E r \in Ends : Settles(r) /\ IF r = "ok" /\ Installed(mem.app) THEN GoTo(next) ELSE Finish({"adb"})
      BY <2>4, FinishIsOver DEF Awaiting, GoTo, Plain, HeldPlaces, TempPlaces, RemotePlaces
    <2> QED BY <1>1, <2>1, <2>2, <2>3, <2>4 DEF InspectedApp
  <1>2. ASSUME NEW step \in {"logs", "exit-info", "failure-logs", "dropbox"}, NEW name, NEW next,
               Source(step, name, Finish({})) \/ Source(step, name, GoTo(next))
        PROVE  Plain
    <2>1. \A sources : Keep([sources |-> sources]) => DOMAIN mem' = DOMAIN mem /\ mem'.ime = mem.ime
      BY <1>0 DEF Keep
    <2> QED BY <1>2, <2>1, FinishIsOver DEF Source, Awaiting, GoTo, Plain, HeldPlaces,
               TempPlaces, RemotePlaces
  <1>3. CASE InspectApp
    BY <1>1, <1>2, <1>3 DEF InspectApp
  <1>4. CASE InspectFailures
    <2>1. CASE /\ Awaiting("clock") /\ UNCHANGED <<cmd, signal, facts, mem>>
               /\ \E r \in Ends, stable \in BOOLEAN : Settles(r) /\
                    IF r = "ok" /\ stable THEN GoTo("exit-info") ELSE Finish({"adb"})
      BY <2>1, FinishIsOver DEF Awaiting, GoTo, Plain, HeldPlaces, TempPlaces, RemotePlaces
    <2> QED BY <1>1, <1>4, <2>1 DEF InspectFailures
  <1>5. CASE FailureSources
    BY <1>2, <1>5 DEF FailureSources
  <1> QED BY <1>3, <1>4, <1>5

LEMMA BundleKeeps == HeldInv /\ (BundleBegins \/ BundleWritten) => HeldInv'
  <1> SUFFICES ASSUME HeldInv, BundleBegins \/ BundleWritten PROVE Worked
    BY WorkedKeeps DEF BundleBegins, BundleWritten
  <1>1. CASE Decide("input", UNCHANGED mem /\ (GoTo("directory") \/ ("fail" \in Faults /\ Finish({"adb"}))))
    BY <1>1, FinishIsOver, WhatIsThere DEF Decide, Awaiting, GoTo, Worked, TempPlaces,
       RemotePlaces
  <1>2. CASE /\ Awaiting("directory") /\ UNCHANGED <<cmd, signal, cut, mem>>
             /\ \/ facts' = facts \cup {Temp} /\ GoTo("write")
                \/ "fail" \in Faults /\ UNCHANGED facts /\ Finish({"adb"})
    BY <1>2, FinishIsOver, WhatIsThere DEF Awaiting, GoTo, Worked, TempPlaces, RemotePlaces,
       Temp, Remote
  <1>3. CASE Decide("write", UNCHANGED mem /\ (GoTo("rename") \/ ("fail" \in Faults /\ Note({"adb"}, "undo"))))
    BY <1>3, WhatIsThere DEF Decide, Awaiting, GoTo, Note, Worked, TempPlaces, RemotePlaces
  <1>4. CASE /\ Awaiting("rename") /\ UNCHANGED <<cmd, signal, cut, mem>>
             /\ \/ facts' = (facts \ {Temp}) \cup {<<"file", "evidence">>} /\ GoTo("undo")
                \/ "fail" \in Faults /\ UNCHANGED facts /\ Note({"adb"}, "undo")
    BY <1>4, WhatIsThere DEF Awaiting, GoTo, Note, Worked, TempPlaces, RemotePlaces, Temp,
       Remote
  <1>5. CASE /\ Awaiting("undo") /\ UNCHANGED <<cmd, signal, cut, mem>>
             /\ facts' = facts \ {Temp, <<"verifier", "host">>} /\ Finish({})
    BY <1>5, FinishIsOver, WhatIsThere DEF Awaiting, Worked, TempPlaces, RemotePlaces
  <1>6. CASE /\ Awaiting("undo") /\ "fail" \in Faults /\ UNCHANGED <<cmd, signal, cut>>
             /\ facts' \in {facts, facts \ {Temp}, facts \ {<<"verifier", "host">>}}
             /\ Finish({}) /\ Keep([thrown |-> TRUE])
    <2>1. DOMAIN mem' = DOMAIN mem /\ mem'.thrown
      BY <1>6 DEF Keep, HeldInv, Remembered, BundleBegins, BundleWritten
    <2>2. cmd.name = "bundle" /\ cmd' = cmd /\ exit = Running /\ EndsAs /\ problems \subseteq problems'
      BY <1>6, FinishIsOver DEF Awaiting, BundleBegins, BundleWritten
    <2>3. at = "undo" /\ (Remote \in facts' => Remote \in facts)
          /\ (<<"ui-lock", "mine">> \in facts' => <<"ui-lock", "mine">> \in facts)
      BY <1>6 DEF Awaiting
    <2> QED BY <2>1, <2>2, <2>3, WhatIsThere DEF Worked, EndsAs, RemotePlaces
  <1> QED BY <1>1, <1>2, <1>3, <1>4, <1>5, <1>6 DEF BundleBegins, BundleWritten

LEMMA HeldSteps == HeldInv /\ [Ui \/ Evidence \/ Signal]_vars => HeldInv'
  <1> SUFFICES ASSUME HeldInv, [Ui \/ Evidence \/ Signal]_vars PROVE HeldInv'
    OBVIOUS
  <1>1. CASE Signal \/ UNCHANGED vars
    <2>1. Beside
      BY <1>1, UnchangedIsSame DEF Signal, vars, command, Beside
    <2> QED BY <2>1, BesideKeeps
  <1>2. CASE Ui \/ Evidence
    BY <1>2, UiKeeps, CaptureKeeps, InspectionKeeps, BundleKeeps DEF Evidence
  <1> QED BY <1>1, <1>2

\* NothingTemporaryLeft (capture.ts, files.ts, ui-actions.ts, evidence-bundle.ts): when
\* a UI command, a capture, an inspection or a bundle has ended, whatever failed or was
\* interrupted, the file it was building is gone, unless removing it failed, and the lease
\* of the UI automation is released; with exit code zero no recording and no other input
\* method is left.
THEOREM NothingIsLeftTemporary == EvidenceSpec => []NothingTemporaryLeft
  <1>1. HeldInv => NothingTemporaryLeft
    BY DEF HeldInv, EndsRight, LockHeld, TempHeld, RemoteHeld, ImeHeld, TempPlaces,
           RemotePlaces, NothingTemporaryLeft
  <1> QED BY <1>1, HeldInitially, HeldSteps, PTL DEF EvidenceSpec

-----------------------------------------------------------------------------
(* Interruption *)

TargetNames == {"doctor", "devices", "ports", "discover", "connect", "pair"}
EvidenceNames == {"ui", "capture", "inspect-app", "inspect-failures", "bundle"}

\* The commands that go on after a look that was aborted.
Exempt ==
  \/ cmd.name = "app" /\ cmd.action = "uninstall"
  \/ cmd.name \in {"inspect-app", "inspect-failures"}

\* What the end of a command of which a call was aborted is to be,
Good == Exempt \/ exit = "interrupted" \/ (exit # "0" /\ cmd.name \in OwnExitCode \cup {"logs"})

\* and where such a command stands before it: what it has recorded or remembers of the
\* abort, or the next call, which is aborted as well, will lead to that end.
Doomed ==
  \/ Exempt
  \/ cmd.name \in OwnExitCode /\ problems # {}
  \/ at = "inspect" /\ "aborted" \in {mem.mdns, mem.hardware}
  \/ at = "discover" /\ mem.mdns = "aborted"
  \/ cmd.name = "logs" /\ at = "pid"
  \/ cmd.name = "app" /\ (at \in {"foreground", "lock", "install", "info", "info-package"} \/ (at = "cleared" /\ mem.done = "aborted"))
  \/ cmd.name = "ui" /\ at = "keyboard" /\ "aborted" \in {mem.method, mem.window}

Remembers ==
  /\ cmd.name \in TargetNames \cup EvidenceNames \cup {"logs", "app", "open"}
  /\ {"mdns", "hardware"} \subseteq DOMAIN mem
  /\ cmd.name = "app" => "done" \in DOMAIN mem
  /\ cmd.name = "ui" => {"method", "window"} \subseteq DOMAIN mem
  /\ cmd.name \in EvidenceNames => Remembered

CutInv == Remembers /\ (cut => signal /\ (IF exit = Running THEN Doomed ELSE Good))

\* A step of a command that keeps to it.
Careful ==
  /\ UNCHANGED <<cmd, signal>> /\ DOMAIN mem' = DOMAIN mem
  /\ exit = Running /\ (cut' => signal /\ (IF exit' = Running THEN Doomed' ELSE Good'))

LEMMA CarefulKeeps == CutInv /\ Careful => CutInv'
  BY DEF CutInv, Careful, Remembers, Remembered

LEMMA CutInitially == CommandsInit => CutInv
  <1> SUFFICES ASSUME CommandsInit PROVE CutInv
    OBVIOUS
  <1>1. ~cut
    BY DEF CommandsInit, TargetInit, LogsInit, AppInit, EvidenceInit, CommandInit
  <1>2. CASE TargetInit
    <2>1. mem = TargetMemory /\ cmd.name \in TargetNames
      BY <1>2 DEF TargetInit, CommandInit, TargetNames
    <2> QED BY <1>1, <2>1 DEF CutInv, Remembers, TargetMemory, TargetNames, EvidenceNames
  <1>3. CASE LogsInit
    <2>1. mem = LogsMemory /\ cmd.name = "logs"
      BY <1>3 DEF LogsInit, CommandInit
    <2> QED BY <1>1, <2>1 DEF CutInv, Remembers, TargetMemory, LogsMemory, Amended,
               EvidenceNames
  <1>4. CASE AppInit
    <2>1. mem = AppMemory /\ cmd.name \in {"app", "open"}
      BY <1>4 DEF AppInit, CommandInit
    <2> QED BY <1>1, <2>1 DEF CutInv, Remembers, TargetMemory, AppMemory, Amended, EvidenceNames
  <1>5. CASE EvidenceInit
    <2>1. mem = IF cmd.name = "ui" THEN UiMemory ELSE EvidenceMemory
      BY <1>5 DEF EvidenceInit, CommandInit
    <2>2. cmd.name \in EvidenceNames
      BY <1>5 DEF EvidenceInit, EvidenceNames
    <2>3. {"mdns", "hardware", "method", "window"} \subseteq DOMAIN mem
      BY <2>1 DEF UiMemory, EvidenceMemory, AppMemory, TargetMemory, Amended
    <2>4. Remembered
      BY <1>5, HeldInitially DEF HeldInv
    <2> QED BY <1>1, <2>2, <2>3, <2>4 DEF CutInv, Remembers, EvidenceNames
  <1> QED BY <1>2, <1>3, <1>4, <1>5 DEF CommandsInit

\* Once a call was aborted the signal is raised, and no later call ends well.
LEMMA CutByAbort == ASSUME CutInv, NEW r, Settles(r), cut' PROVE r = "aborted" /\ signal
  BY DEF CutInv, Settles

\* An exit code tells an interruption that was recorded.
LEMMA InterruptedComesFirst == ASSUME NEW ps, "interrupted" \in ps PROVE ExitOf(ps) = "interrupted"
  <1> DEFINE kinds == <<"interrupted", "input", "environment", "target", "child">>
             hits == {i \in DOMAIN kinds : kinds[i] \in ps}
  <1>1. 1 \in hits /\ hits \subseteq 1 .. 5
    OBVIOUS
  <1>2. (CHOOSE i \in hits : \A j \in hits : i =< j) = 1
    <2>1. \A j \in hits : 1 =< j
      BY <1>1
    <2>2. \A i \in hits : (\A j \in hits : i =< j) => i = 1
      BY <1>1
    <2> QED BY <1>1, <2>1, <2>2
  <1> QED BY <1>1, <1>2 DEF ExitOf, FirstKind

LEMMA FinishIsGood ==
  ASSUME NEW ps, Finish(ps), cmd' = cmd,
         "interrupted" \in ps \/ (cmd.name \in OwnExitCode \cup {"logs"} /\ problems \cup ps # {})
  PROVE  exit' # Running /\ Good'
  <1>1. exit' = IF cmd.name \in OwnExitCode THEN AppExitOf(problems \cup ps) ELSE ExitOf(problems \cup ps)
    BY DEF Finish
  <1> QED BY <1>1, ZeroIsNoProblem, InterruptedComesFirst DEF Good

\* A decision of a command of which no call was aborted.
LEMMA NotYetCut ==
  ASSUME CutInv, exit = Running, at \notin {"inspect", "discover"}, cmd.name \in TargetNames PROVE ~cut
  BY DEF CutInv, Doomed, Exempt, OwnExitCode, TargetNames

LEMMA InspectionIsCareful ==
  ASSUME CutInv, MdnsStep("inspect") \/ MdnsStep("discover") \/ HardwareStep PROVE Careful
  <1>0. {"mdns", "hardware"} \subseteq DOMAIN mem
    BY DEF CutInv, Remembers
  <1>1. ASSUME NEW step \in {"inspect", "discover"}, MdnsStep(step) PROVE Careful
    <2>1. UNCHANGED <<cmd, signal, at, problems, exit>> /\ exit = Running /\ at = step
      BY <1>1 DEF MdnsStep, Awaiting
    <2>2. PICK r \in Ends : Settles(r) /\ \E next :
             Keep([mdns |-> next]) /\ (r = "aborted" => next = "aborted")
      BY <1>1 DEF MdnsStep
    <2>3. DOMAIN mem' = DOMAIN mem /\ (r = "aborted" => mem'.mdns = "aborted")
      BY <1>0, <2>2 DEF Keep
    <2> QED BY <2>1, <2>2, <2>3, CutByAbort DEF Careful, Doomed
  <1>2. ASSUME HardwareStep PROVE Careful
    <2>1. UNCHANGED <<cmd, signal, at, problems, exit>> /\ exit = Running /\ at = "inspect"
      BY <1>2 DEF HardwareStep, Awaiting
    <2>2. CASE Keep([hardware |-> "ok"]) /\ UNCHANGED cut
      <3>1. DOMAIN mem' = DOMAIN mem /\ mem'.mdns = mem.mdns /\ mem.hardware = "asked"
        BY <1>0, <1>2, <2>2 DEF Keep, HardwareStep
      <3> QED BY <2>1, <2>2, <3>1 DEF Careful, CutInv, Doomed, Exempt
    <2>3. CASE \E r \in Ends : Settles(r) /\ \E answered :
                 Keep([hardware |-> IF r = "aborted" THEN "aborted" ELSE "ok", asked |-> answered])
      <3>1. PICK r \in Ends : Settles(r) /\ \E answered :
                 Keep([hardware |-> IF r = "aborted" THEN "aborted" ELSE "ok", asked |-> answered])
        BY <2>3
      <3>2. DOMAIN mem' = DOMAIN mem /\ (r = "aborted" => mem'.hardware = "aborted")
        BY <1>0, <3>1 DEF Keep
      <3> QED BY <2>1, <3>1, <3>2, CutByAbort DEF Careful, Doomed
    <2> QED BY <1>2, <2>2, <2>3 DEF HardwareStep
  <1> QED BY <1>1, <1>2

\* What a decision after an inspection starts from.
LEMMA InspectionWasCut ==
  ASSUME CutInv, exit = Running, at = "inspect", cut, ~Exempt, cmd.name \in OwnExitCode => problems = {}
  PROVE  signal /\ "aborted" \in {mem.mdns, mem.hardware}
  BY DEF CutInv, Doomed

LEMMA InspectedIsCareful ==
  ASSUME CutInv, cmd.name \in TargetNames \cup {"logs"},
         UNCHANGED <<cmd, signal, cut>>, exit = Running, at = "inspect", DOMAIN mem' = DOMAIN mem,
         "aborted" \in {mem.mdns, mem.hardware} => Finish({"interrupted"})
  PROVE  Careful
  <1>1. ~Exempt /\ cmd.name \notin OwnExitCode
    BY DEF Exempt, OwnExitCode, TargetNames
  <1> QED BY <1>1, InspectionWasCut, FinishIsGood DEF Careful

-----------------------------------------------------------------------------
(* Interruption of the commands that look at targets *)

LEMMA TargetsAreCareful == ASSUME CutInv, TargetNext PROVE Careful
  <1>0. {"mdns", "hardware"} \subseteq DOMAIN mem
    BY DEF CutInv, Remembers
  <1>1. ASSUME Doctor PROVE Careful
    <2>0. cmd.name = "doctor" /\ cmd.name \in TargetNames
      BY <1>1 DEF Doctor, TargetNames
    <2>1. CASE ResolveAdb(GoTo("version") /\ UNCHANGED mem)
      BY <2>0, <2>1, NotYetCut DEF ResolveAdb, Decide, Awaiting, Careful
    <2>2. CASE Read("version", "adb", GoTo("features") /\ UNCHANGED mem)
      BY <2>2, CutByAbort, FinishIsGood DEF Read, Awaiting, ProblemOf, Careful
    <2>3. CASE \/ OptionalProbe("features", \E next \in {"status", "devices"} : GoTo(next), GoTo("devices"))
               \/ OptionalProbe("status", GoTo("devices"), GoTo("devices"))
      BY <2>3, CutByAbort, FinishIsGood DEF OptionalProbe, Awaiting, ProblemOf, Careful
    <2>4. CASE \E mdns \in {"track", "list"} : Read("devices", "adb", StartInspect(mdns))
      BY <2>4, CutByAbort, FinishIsGood DEF Read, Awaiting, ProblemOf, Careful, StartInspect,
         Keep
    <2>5. CASE Inspected(Finish({}) /\ UNCHANGED mem)
      BY <2>0, <2>5, InspectedIsCareful DEF Inspected, Decide, Awaiting
    <2> QED BY <1>1, <2>1, <2>2, <2>3, <2>4, <2>5 DEF Doctor
  <1>2. ASSUME Devices PROVE Careful
    <2>0. cmd.name = "devices" /\ cmd.name \in TargetNames
      BY <1>2 DEF Devices, TargetNames
    <2>1. CASE ResolveAdb(GoTo("devices") /\ UNCHANGED mem)
      BY <2>0, <2>1, NotYetCut DEF ResolveAdb, Decide, Awaiting, Careful
    <2>2. CASE Read("devices", "adb", StartInspect("features"))
      BY <2>2, CutByAbort, FinishIsGood DEF Read, Awaiting, ProblemOf, Careful, StartInspect,
         Keep
    <2>3. CASE Inspected(IF cmd.select.selector # None \/ cmd.select.transportId # None \/ cmd.select.rememberedOnly
                  THEN Select(LAMBDA choice : Finish({}) /\ Keep([target |-> choice]))
                  ELSE Finish({}) /\ UNCHANGED mem)
      BY <2>0, <2>3, InspectedIsCareful DEF Inspected, Decide, Awaiting, Select, Keep
    <2> QED BY <1>2, <2>1, <2>2, <2>3 DEF Devices
  <1>3. ASSUME Ports PROVE Careful
    <2>0. cmd.name = "ports" /\ cmd.name \in TargetNames
      BY <1>3 DEF Ports, TargetNames
    <2>1. CASE PortsInput \/ ResolveAdb(GoTo("devices") /\ UNCHANGED mem)
      BY <2>0, <2>1, NotYetCut DEF PortsInput, ResolveAdb, Decide, Awaiting, Careful
    <2>2. CASE Read("devices", "adb", StartInspect("features"))
      BY <2>2, CutByAbort, FinishIsGood DEF Read, Awaiting, ProblemOf, Careful, StartInspect,
         Keep
    <2>3. CASE Inspected(Select(LAMBDA choice : GoTo("list") /\ Keep([target |-> choice])))
      BY <2>0, <2>3, InspectedIsCareful DEF Inspected, Decide, Awaiting, Select, Keep
    <2>4. CASE Read("list", "adb", PortsListed /\ UNCHANGED mem) \/ Read("verify", "adb", PortsVerified /\ UNCHANGED mem)
      BY <2>4, CutByAbort, FinishIsGood DEF Read, Awaiting, ProblemOf, Careful
    <2>5. CASE PortsMutate
      BY <2>5, CutByAbort, FinishIsGood DEF PortsMutate, Awaiting, ProblemOf, Careful
    <2> QED BY <1>3, <2>1, <2>2, <2>3, <2>4, <2>5 DEF Ports
  <1>4. ASSUME NEW candidates, Attempt(candidates) PROVE DOMAIN mem' = DOMAIN mem
    BY <1>4 DEF Attempt, Keep
  <1>5. StartDiscovery => DOMAIN mem' = DOMAIN mem
    BY DEF StartDiscovery, Keep
  <1>6. ASSUME cmd.name \in TargetNames, exit = Running, at = "discover", UNCHANGED <<cmd, signal, cut>>,
               DOMAIN mem' = DOMAIN mem, mem.mdns = "aborted" => Finish({ProblemOf(mem.mdns, "adb")})
        PROVE  Careful
    <2>1. cut => signal /\ mem.mdns = "aborted"
      BY <1>6 DEF CutInv, Doomed, Exempt, OwnExitCode, TargetNames
    <2>2. cut => Finish({"interrupted"})
      BY <1>6, <2>1 DEF ProblemOf
    <2> QED BY <1>6, <2>1, <2>2, FinishIsGood DEF Careful
  <1>7. ASSUME Discover PROVE Careful
    <2>0. cmd.name \in TargetNames
      BY <1>7 DEF Discover, TargetNames
    <2>1. CASE ResolveAdb(StartDiscovery)
      BY <1>5, <2>0, <2>1, NotYetCut DEF ResolveAdb, Decide, Awaiting, Careful
    <2>2. CASE Discovered(Finish({}) /\ UNCHANGED mem)
      BY <1>6, <2>0, <2>2 DEF Discovered, Decide, Awaiting
    <2> QED BY <1>7, <2>1, <2>2 DEF Discover
  <1>8. ASSUME cmd.name \in TargetNames, WirelessInput \/ ResolveEndpoint PROVE Careful
    <2>1. CASE WirelessInput
      BY <1>8, <2>1, NotYetCut DEF WirelessInput, Decide, Awaiting, Careful
    <2>2. CASE ResolveAdb(IF cmd.given # <<>> THEN Attempt(cmd.given) ELSE StartDiscovery)
      BY <1>4, <1>5, <1>8, <2>2, NotYetCut DEF ResolveAdb, Decide, Awaiting, Careful
    <2>3. CASE Discovered(Attempt(TheGroup))
      BY <1>4, <1>6, <1>8, <2>3 DEF Discovered, Decide, Awaiting
    <2> QED BY <1>8, <2>1, <2>2, <2>3 DEF ResolveEndpoint
  <1>9. ASSUME ConnectAttempt \/ ConnectState \/ ConnectIdentity \/ PairAttempt PROVE Careful
    <2>1. CASE ConnectAttempt
      BY <2>1, CutByAbort, FinishIsGood DEF ConnectAttempt, Awaiting, ProblemOf, Careful, Keep
    <2>2. CASE ConnectState
      BY <2>2, CutByAbort, FinishIsGood DEF ConnectState, Read, Awaiting, ProblemOf, Careful
    <2>3. CASE ConnectIdentity
      BY <2>3, CutByAbort, FinishIsGood DEF ConnectIdentity, Awaiting, Careful
    <2>4. CASE PairAttempt
      BY <2>4, CutByAbort, FinishIsGood DEF PairAttempt, Awaiting, ProblemOf, Careful
    <2> QED BY <1>9, <2>1, <2>2, <2>3, <2>4
  <1>10. Connect \/ Pair => Careful
    BY <1>8, <1>9 DEF Connect, Pair, TargetNames
  <1> QED BY <1>1, <1>2, <1>3, <1>7, <1>10, InspectionIsCareful DEF TargetNext

-----------------------------------------------------------------------------
(* Interruption of logs *)

LEMMA LogsAreCareful == ASSUME CutInv, Logs PROVE Careful
  <1>0. cmd.name = "logs" /\ cmd.name \notin OwnExitCode /\ ~Exempt
    BY DEF Logs, OwnExitCode, Exempt
  <1>1. exit = Running /\ at \notin {"inspect", "discover", "pid"} => ~cut
    BY <1>0 DEF CutInv, Doomed
  <1>2. CASE DeviceLogs
    BY <1>2 DEF DeviceLogs, command, CutInv, Careful, Doomed, Exempt
  <1>3. CASE Decide("input", UNCHANGED mem /\ IF cmd.tagConflict THEN Finish({"input"}) ELSE GoTo("adb"))
    BY <1>1, <1>3 DEF Decide, Awaiting, Careful
  <1>4. CASE ResolveAdb(GoTo("devices") /\ UNCHANGED mem)
    BY <1>1, <1>4 DEF ResolveAdb, Decide, Awaiting, Careful
  <1>5. CASE Read("devices", "adb", StartInspect("features"))
    BY <1>5, CutByAbort, FinishIsGood DEF Read, Awaiting, ProblemOf, Careful, StartInspect, Keep
  <1>6. CASE Inspected(Select(LAMBDA choice :
               GoTo(IF cmd.package /\ ~cmd.pid THEN "uid" ELSE "window") /\ Keep([target |-> choice])))
    BY <1>0, <1>6, InspectedIsCareful DEF Inspected, Decide, Awaiting, Select, Keep
  <1>7. CASE Selector
    BY <1>0, <1>7, CutByAbort, FinishIsGood DEF Selector, Awaiting, GoTo, Careful, Doomed
  <1>8. CASE LogWindow \/ Line
    <2>1. UNCHANGED <<cmd, signal, cut>> /\ exit = Running /\ at \in {"window", "stream"}
      BY <1>8 DEF LogWindow, Line, Decide, Awaiting
    <2>2. \A fields : Keep(fields) => DOMAIN mem' = DOMAIN mem
      BY DEF Keep
    <2>3. DOMAIN mem' = DOMAIN mem
      BY <1>8, <2>2 DEF LogWindow, Line, Shown, Decide
    <2> QED BY <1>1, <2>1, <2>3 DEF Careful
  <1>9. CASE Boundary
    BY <1>0, <1>9, CutByAbort, FinishIsGood DEF Boundary, Awaiting, Careful, Keep
  <1>10. CASE Snapshot
    BY <1>0, <1>10, CutByAbort, FinishIsGood DEF Snapshot, LogcatProblems, ProblemOf, Awaiting,
       Careful, Keep
  <1>11. CASE StreamEnds
    BY <1>0, <1>11, CutByAbort, FinishIsGood DEF StreamEnds, LogcatProblems, ProblemOf,
       Awaiting, Careful
  <1> QED
    BY <1>2, <1>3, <1>4, <1>5, <1>6, <1>7, <1>8, <1>9, <1>10, <1>11, InspectionIsCareful
       DEF Logs

-----------------------------------------------------------------------------
(* Interruption of the commands with an exit code of their own *)

\* A step of such a command.
OwnStep ==
  /\ cmd.name \in OwnExitCode /\ UNCHANGED <<cmd, signal>> /\ DOMAIN mem' = DOMAIN mem
  /\ exit = Running /\ (exit' = Running \/ EndsAs) /\ problems \subseteq problems'

\* A decision starts from an abort that is recorded, but for the places where it is only
\* remembered or is yet to be recorded;
DecisionPlaces == {"inspect", "discover", "keyboard", "foreground", "lock", "install", "info", "info-package", "cleared"}

LEMMA DecisionIsCareful ==
  ASSUME CutInv, OwnStep, UNCHANGED cut, at \notin DecisionPlaces \/ problems' # {} PROVE Careful
  <1>1. cut => signal /\ (Exempt \/ problems' # {})
    BY DEF CutInv, OwnStep, Doomed, OwnExitCode, DecisionPlaces
  <1>2. cmd' = cmd /\ (Exempt => Exempt')
    BY DEF OwnStep, Exempt
  <1> QED BY <1>1, <1>2 DEF OwnStep, Careful, Doomed, Good, EndsAs

\* and a call records its own.
LEMMA CallIsCareful ==
  ASSUME CutInv, OwnStep, NEW r, Settles(r),
         r = "aborted" => problems' # {} \/ Exempt \/ (exit' = Running /\ Doomed')
  PROVE  Careful
  <1>1. cut' => r = "aborted" /\ signal
    BY CutByAbort
  <1>2. cmd' = cmd /\ (Exempt => Exempt')
    BY DEF OwnStep, Exempt
  <1> QED BY <1>1, <1>2 DEF OwnStep, Careful, Doomed, Good, EndsAs

LEMMA ReadyTargetIsCareful ==
  ASSUME CutInv, NEW first, cmd.name \in OwnExitCode, ReadyTarget(first) PROVE Careful
  <1>1. ASSUME NEW ps, Unready(ps)
        PROVE  mem' = mem /\ problems \cup ps \subseteq problems' /\ EndsAs
    BY <1>1, FinishIsOver DEF Unready
  <1>2. CASE Decide("adb", IF cmd.adb THEN GoTo("devices") /\ UNCHANGED mem ELSE Unready({"environment"}))
    BY <1>1, <1>2, DecisionIsCareful DEF Decide, Awaiting, GoTo, OwnStep, DecisionPlaces
  <1>3. CASE /\ Awaiting("devices") /\ UNCHANGED <<cmd, signal, facts>>
             /\ \E r \in Ends : Settles(r) /\ IF r = "ok" THEN StartInspect("features") ELSE Unready({ProblemOf(r, "adb")})
    <2>1. StartInspect("features") => UNCHANGED <<problems, exit>> /\ DOMAIN mem' = DOMAIN mem
      BY DEF StartInspect, GoTo, Keep
    <2>2. PICK r \in Ends : Settles(r) /\ IF r = "ok" THEN StartInspect("features") ELSE Unready({ProblemOf(r, "adb")})
      BY <1>3
    <2>3. OwnStep /\ (r = "aborted" => problems' # {})
      BY <1>1, <1>3, <2>1, <2>2 DEF Awaiting, OwnStep
    <2> QED BY <2>2, <2>3, CallIsCareful
  <1>4. CASE MdnsStep("inspect") \/ HardwareStep
    BY <1>4, InspectionIsCareful
  <1>5. CASE Decide("inspect",
       /\ mem.mdns \in Ends /\ mem.hardware \in Ends
       /\ LET choice == SelectTarget(cmd.devices, SeenIdentity, cmd.select)
          IN  IF "aborted" \in {mem.mdns, mem.hardware} THEN Unready({"interrupted"})
              ELSE IF choice.kind # "selected" THEN Unready({"target"})
              ELSE GoTo(first) /\ Keep([target |-> choice]))
    <2>1. UNCHANGED <<cmd, signal, cut>> /\ exit = Running /\ at = "inspect"
      BY <1>5 DEF Decide, Awaiting
    <2>2. OwnStep /\ ("aborted" \in {mem.mdns, mem.hardware} => problems' # {})
      <3>1. \A choice : GoTo(first) /\ Keep([target |-> choice]) => UNCHANGED <<problems, exit>> /\ DOMAIN mem' = DOMAIN mem
        BY DEF GoTo, Keep
      <3> QED BY <1>1, <1>5, <2>1, <3>1 DEF Decide, OwnStep
    <2>3. CASE "aborted" \in {mem.mdns, mem.hardware}
      BY <2>1, <2>2, <2>3, DecisionIsCareful
    <2>4. CASE "aborted" \notin {mem.mdns, mem.hardware}
      <3>1. cut => signal /\ (Exempt \/ problems' # {})
        BY <2>1, <2>2, <2>4 DEF CutInv, Doomed, OwnStep, OwnExitCode
      <3>2. Exempt => Exempt'
        BY <2>1 DEF Exempt
      <3> QED BY <2>1, <2>2, <3>1, <3>2 DEF OwnStep, Careful, Doomed, Good, EndsAs
    <2> QED BY <2>3, <2>4
  <1> QED BY <1>2, <1>3, <1>4, <1>5 DEF ReadyTarget

LEMMA RequireAppIsCareful ==
  ASSUME CutInv, NEW next, cmd.name \in OwnExitCode, RequireApp(next) PROVE Careful
  <1>1. ASSUME NEW names, Identified(names, next)
        PROVE  DOMAIN mem' = DOMAIN mem /\ problems \subseteq problems' /\ (exit' = exit \/ EndsAs)
    BY <1>1, FinishIsOver DEF Identified, GoTo, Keep
  <1>2. CASE Decide("identify", IF cmd.local = "none" THEN GoTo("packages") /\ UNCHANGED mem ELSE Identified({}, next))
    BY <1>1, <1>2, DecisionIsCareful DEF Decide, Awaiting, GoTo, OwnStep, DecisionPlaces
  <1>3. CASE Read("packages", "adb", Identified(InstalledNames, next))
    <2>1. PICK r \in Ends : Settles(r) /\ IF r = "ok" THEN Identified(InstalledNames, next)
                                          ELSE Finish({ProblemOf(r, "adb")}) /\ UNCHANGED mem
      BY <1>3 DEF Read
    <2>2. OwnStep /\ (r = "aborted" => problems' # {})
      BY <1>1, <1>3, <2>1, FinishIsOver DEF Read, Awaiting, OwnStep
    <2> QED BY <2>1, <2>2, CallIsCareful
  <1> QED BY <1>2, <1>3 DEF RequireApp

-----------------------------------------------------------------------------
(* Interruption of the commands of app-commands.ts *)

\* A removal alone goes on from a look that was aborted to success.
RemovalPlaces == cmd.name = "app" /\ at \in {"uninstall", "removed"} => cmd.action = "uninstall"

LEMMA FirstStepsStay ==
  ASSUME NEW first, NEW next, {first, next} \cap {"uninstall", "removed"} = {}, cmd.name = "app",
         ReadyTarget(first) \/ RequireApp(next)
  PROVE  RemovalPlaces'
  <1>1. at' \in {"devices", "inspect", first, "ended", "packages", next}
    BY DEF ReadyTarget, RequireApp, Decide, Read, Awaiting, StartInspect, MdnsStep,
           HardwareStep, Identified, Unready, GoTo, Finish
  <1> QED BY <1>1 DEF RemovalPlaces

\* A call that changes the device records its abort.
LEMMA ChangeIsCareful ==
  ASSUME CutInv, cmd.name \in OwnExitCode, NEW step, NEW new, NEW next,
         \/ Change(step, new, GoTo(next) /\ UNCHANGED mem)
         \/ Change(step, new, UNCHANGED mem /\ IF cmd.named THEN GoTo(next) ELSE Finish({}))
         \/ Change(step, new, ReadKeyboard(next))
         \/ Change(step, new, Observe(next))
  PROVE  Careful /\ at' \in {next, "ended", "keyboard", "ui-lock"}
  <1>1. Observe(next) \/ ReadKeyboard(next) => DOMAIN mem' = DOMAIN mem /\ UNCHANGED <<problems, exit>> /\ at' \in {"keyboard", "ui-lock"}
    BY DEF Observe, ReadKeyboard, GoTo, Keep
  <1>2. PICK r \in Ends, refused \in BOOLEAN :
          /\ Settles(r)
          /\ IF r = "ok" /\ ~refused
             THEN \/ GoTo(next) /\ UNCHANGED mem
                  \/ UNCHANGED mem /\ IF cmd.named THEN GoTo(next) ELSE Finish({})
                  \/ ReadKeyboard(next) \/ Observe(next)
             ELSE Finish({ProblemOf(r, "adb")}) /\ UNCHANGED mem
    BY DEF Change
  <1>3. exit = Running /\ UNCHANGED <<cmd, signal>>
    BY DEF Change, Awaiting
  <1>4. OwnStep /\ at' \in {next, "ended", "keyboard", "ui-lock"} /\ (r = "aborted" => problems' # {})
    <2>1. \A ps : Finish(ps) => EndsAs /\ problems' = problems \cup ps /\ at' = "ended"
      BY FinishIsOver DEF EndsAs
    <2>2. GoTo(next) => UNCHANGED <<problems, exit>> /\ at' = next
      BY DEF GoTo
    <2>3. CASE r = "ok" /\ ~refused
      BY <1>1, <1>2, <1>3, <2>1, <2>2, <2>3 DEF OwnStep
    <2>4. CASE ~(r = "ok" /\ ~refused)
      BY <1>2, <1>3, <2>1, <2>4 DEF OwnStep
    <2> QED BY <2>3, <2>4
  <1> QED BY <1>2, <1>4, CallIsCareful

LEMMA StopAndLaunchAreCareful ==
  ASSUME CutInv, cmd.name = "app",
         \/ StopApp((IF cmd.action = "stop" THEN Finish({}) ELSE GoTo("activity?")) /\ UNCHANGED mem)
         \/ LaunchApp
  PROVE  Careful /\ at' \notin {"uninstall", "removed"}
  <1>0. cmd.name \in OwnExitCode /\ \A ps : Finish(ps) => EndsAs /\ problems' = problems \cup ps /\ at' = "ended"
    BY FinishIsOver DEF EndsAs, OwnExitCode
  <1>1. CASE Change("stop", Stopped(mem.app), GoTo("stopped") /\ UNCHANGED mem)
    <2>1. Careful /\ at' \in {"stopped", "ended", "keyboard", "ui-lock"}
      BY <1>0, <1>1, ChangeIsCareful
    <2> QED BY <2>1
  <1>2. CASE /\ Awaiting("stopped") /\ UNCHANGED <<cmd, signal, facts>>
             /\ \E r \in Ends : Settles(r) /\
                  IF r = "ok" /\ <<"running", mem.app>> \notin facts
                  THEN (IF cmd.action = "stop" THEN Finish({}) ELSE GoTo("activity?")) /\ UNCHANGED mem
                  ELSE Finish({"adb"}) /\ UNCHANGED mem
    <2>1. PICK r \in Ends : Settles(r) /\
                  IF r = "ok" /\ <<"running", mem.app>> \notin facts
                  THEN (IF cmd.action = "stop" THEN Finish({}) ELSE GoTo("activity?")) /\ UNCHANGED mem
                  ELSE Finish({"adb"}) /\ UNCHANGED mem
      BY <1>2
    <2>2. OwnStep /\ (r = "aborted" => problems' # {}) /\ at' \in {"ended", "activity?"}
      BY <1>0, <1>2, <2>1 DEF Awaiting, GoTo, OwnStep
    <2> QED BY <2>1, <2>2, CallIsCareful
  <1>3. CASE Decide("activity?", GoTo(IF cmd.activity THEN "launch" ELSE "activity") /\ UNCHANGED mem)
    <2>1. OwnStep /\ UNCHANGED cut /\ at = "activity?" /\ at' \in {"launch", "activity"}
      BY <1>0, <1>3 DEF Decide, Awaiting, GoTo, OwnStep
    <2> QED BY <2>1, DecisionIsCareful DEF DecisionPlaces
  <1>4. CASE /\ Awaiting("activity") /\ UNCHANGED <<cmd, signal, facts, mem>>
             /\ \E r \in Ends, found \in BOOLEAN : Settles(r) /\
                  IF r = "ok" /\ found THEN IF cmd.dryRun THEN Finish({}) ELSE GoTo("launch") ELSE Finish({"adb"})
    <2>1. PICK r \in Ends, found \in BOOLEAN : Settles(r) /\
                  IF r = "ok" /\ found THEN IF cmd.dryRun THEN Finish({}) ELSE GoTo("launch") ELSE Finish({"adb"})
      BY <1>4
    <2>2. OwnStep /\ (r = "aborted" => problems' # {}) /\ at' \in {"ended", "launch"}
      BY <1>0, <1>4, <2>1 DEF Awaiting, GoTo, OwnStep
    <2> QED BY <2>1, <2>2, CallIsCareful
  <1>5. CASE Change("launch", Started(mem.app), GoTo("foreground") /\ UNCHANGED mem)
    <2>1. Careful /\ at' \in {"foreground", "ended", "keyboard", "ui-lock"}
      BY <1>0, <1>5, ChangeIsCareful
    <2> QED BY <2>1
  <1>6. CASE /\ Awaiting("foreground") /\ UNCHANGED <<cmd, signal, facts>>
             /\ \E r \in Ends : Settles(r) /\
                  IF r = "ok" /\ <<"foreground", mem.app>> \in facts THEN Finish({}) /\ UNCHANGED mem
                  ELSE GoTo(IF mem.tries < 4 THEN "foreground" ELSE "lock") /\ Keep([tries |-> mem.tries + 1])
    <2>1. PICK r \in Ends : Settles(r) /\
                  IF r = "ok" /\ <<"foreground", mem.app>> \in facts THEN Finish({}) /\ UNCHANGED mem
                  ELSE GoTo(IF mem.tries < 4 THEN "foreground" ELSE "lock") /\ Keep([tries |-> mem.tries + 1])
      BY <1>6
    <2>2. Keep([tries |-> mem.tries + 1]) => DOMAIN mem' = DOMAIN mem
      BY DEF Keep
    <2>3. OwnStep /\ at' \in {"ended", "foreground", "lock"}
      BY <1>0, <1>6, <2>1, <2>2 DEF Awaiting, GoTo, OwnStep
    <2>4. r = "aborted" => exit' = Running /\ Doomed'
      BY <1>6, <2>1 DEF Awaiting, GoTo, Doomed
    <2> QED BY <2>1, <2>3, <2>4, CallIsCareful
  <1>7. CASE /\ Awaiting("lock") /\ UNCHANGED <<cmd, signal, facts, mem>>
             /\ \E r \in Ends : Settles(r) /\ Finish({"adb"})
    <2>1. OwnStep /\ problems' # {} /\ at' = "ended" /\ \E r \in Ends : Settles(r)
      BY <1>0, <1>7 DEF Awaiting, OwnStep
    <2> QED BY <2>1, CallIsCareful
  <1> QED BY <1>1, <1>2, <1>3, <1>4, <1>5, <1>6, <1>7 DEF StopApp, LaunchApp

LEMMA InstallIsCareful ==
  ASSUME CutInv, cmd.name = "app", InstallApp PROVE Careful /\ at' \notin {"uninstall", "removed"}
  <1>0. cmd.name \in OwnExitCode /\ \A ps : Finish(ps) => EndsAs /\ problems' = problems \cup ps /\ at' = "ended"
    BY FinishIsOver DEF EndsAs, OwnExitCode
  <1>1. \A fields : Keep(fields) => DOMAIN mem' = DOMAIN mem
    BY DEF Keep
  <1>2. CASE Decide("artifact", UNCHANGED mem /\ IF cmd.validArtifacts THEN GoTo("before") ELSE Finish({"input"}))
    <2>1. OwnStep /\ UNCHANGED cut /\ at = "artifact" /\ at' \in {"before", "ended"}
      BY <1>0, <1>2 DEF Decide, Awaiting, GoTo, OwnStep
    <2> QED BY <2>1, DecisionIsCareful DEF DecisionPlaces
  <1>3. CASE Read("before", "adb",
       IF cmd.dryRun THEN Finish(IF cmd.local = "resolved" THEN {} ELSE {"input"}) /\ UNCHANGED mem
       ELSE GoTo(IF cmd.local = "resolved" THEN "prior" ELSE "install") /\ Keep([names |-> InstalledNames]))
    <2>1. PICK r \in Ends : Settles(r) /\ IF r = "ok"
               THEN IF cmd.dryRun THEN Finish(IF cmd.local = "resolved" THEN {} ELSE {"input"}) /\ UNCHANGED mem
                    ELSE GoTo(IF cmd.local = "resolved" THEN "prior" ELSE "install") /\ Keep([names |-> InstalledNames])
               ELSE Finish({ProblemOf(r, "adb")}) /\ UNCHANGED mem
      BY <1>3 DEF Read
    <2>2. OwnStep /\ (r = "aborted" => problems' # {}) /\ at' \in {"ended", "prior", "install"}
      BY <1>0, <1>1, <1>3, <2>1 DEF Read, Awaiting, GoTo, OwnStep
    <2> QED BY <2>1, <2>2, CallIsCareful
  <1>4. CASE /\ Awaiting("prior") /\ UNCHANGED <<cmd, signal, facts>>
             /\ \E r \in Ends : Settles(r) /\ GoTo("install") /\
                  Keep([prior |-> IF r # "ok" THEN "failed" ELSE IF Installed("want") THEN "installed" ELSE "absent"])
    <2>1. OwnStep /\ exit' = Running /\ at' = "install" /\ \E r \in Ends : Settles(r)
      BY <1>0, <1>1, <1>4 DEF Awaiting, GoTo, OwnStep
    <2>2. Doomed'
      BY <2>1 DEF OwnStep, Doomed
    <2> QED BY <2>1, <2>2, CallIsCareful
  <1>5. CASE Change("install", Without({"installed", "running", "foreground"}, cmd.artifact)
                                 \cup {<<"installed", cmd.artifact, "new">>}, GoTo("after") /\ UNCHANGED mem)
    <2>1. Careful /\ at' \in {"after", "ended", "keyboard", "ui-lock"}
      BY <1>0, <1>5, ChangeIsCareful
    <2> QED BY <2>1
  <1>6. CASE /\ Awaiting("after") /\ UNCHANGED <<cmd, signal, facts>>
             /\ \E r \in Ends : Settles(r) /\
                  LET fresh == (IF r = "ok" THEN InstalledNames ELSE {}) \ mem.names
                  IN  IF IdAmong(fresh) = "resolved" THEN GoTo("info") /\ Keep([app |-> TheApp(fresh)])
                      ELSE Finish({"adb"}) /\ UNCHANGED mem
    <2>1. PICK r \in Ends : Settles(r) /\
                  LET fresh == (IF r = "ok" THEN InstalledNames ELSE {}) \ mem.names
                  IN  IF IdAmong(fresh) = "resolved" THEN GoTo("info") /\ Keep([app |-> TheApp(fresh)])
                      ELSE Finish({"adb"}) /\ UNCHANGED mem
      BY <1>6
    <2>2. OwnStep /\ at' \in {"info", "ended"}
      BY <1>0, <1>1, <1>6, <2>1 DEF Awaiting, GoTo, OwnStep
    <2>3. problems' # {} \/ (exit' = Running /\ Doomed')
      BY <1>0, <1>6, <2>1 DEF Awaiting, GoTo, Doomed
    <2> QED BY <2>1, <2>2, <2>3, CallIsCareful
  <1>7. CASE /\ Awaiting("info") /\ UNCHANGED <<cmd, signal, facts, mem>>
             /\ \E r \in Ends : Settles(r) /\ Finish(IF r = "ok" /\ InstallationChanged THEN {} ELSE {"adb"})
    <2>1. PICK r \in Ends : Settles(r) /\ Finish(IF r = "ok" /\ InstallationChanged THEN {} ELSE {"adb"})
      BY <1>7
    <2>2. OwnStep /\ (r = "aborted" => problems' # {}) /\ at' = "ended"
      BY <1>0, <1>7, <2>1 DEF Awaiting, OwnStep
    <2> QED BY <2>1, <2>2, CallIsCareful
  <1> QED BY <1>2, <1>3, <1>4, <1>5, <1>6, <1>7 DEF InstallApp

LEMMA ClearDataIsCareful ==
  ASSUME CutInv, cmd.name = "app", ClearData PROVE Careful /\ at' \notin {"uninstall", "removed"}
  <1>0. cmd.name \in OwnExitCode /\ \A ps : Finish(ps) => EndsAs /\ problems' = problems \cup ps /\ at' = "ended"
    BY FinishIsOver DEF EndsAs, OwnExitCode
  <1>1. CASE \E r \in Ends, refused \in BOOLEAN : Ended("clear", r,
               /\ IF r = "ok" /\ refused THEN UNCHANGED facts
                  ELSE Effect(r, {f \in Stopped(mem.app) : f # <<"data", mem.app>>})
               /\ GoTo("cleared") /\ Keep([done |-> IF r = "ok" /\ refused THEN "failed" ELSE r]))
    <2>1. PICK r \in Ends, refused \in BOOLEAN :
            /\ Awaiting("clear") /\ Settles(r) /\ UNCHANGED <<cmd, signal>>
            /\ GoTo("cleared") /\ Keep([done |-> IF r = "ok" /\ refused THEN "failed" ELSE r])
      BY <1>1 DEF Ended
    <2>2. "done" \in DOMAIN mem
      BY DEF CutInv, Remembers
    <2>3. DOMAIN mem' = DOMAIN mem /\ (r = "aborted" => mem'.done = "aborted")
      BY <2>1, <2>2 DEF Keep
    <2>4. OwnStep /\ at' = "cleared" /\ exit' = Running
      BY <1>0, <2>1, <2>3 DEF Awaiting, GoTo, OwnStep
    <2>5. r = "aborted" => Doomed'
      BY <2>1, <2>3, <2>4 DEF Doomed
    <2> QED BY <2>1, <2>4, <2>5, CallIsCareful
  <1>2. CASE \E r \in Ends : Ended("cleared", r,
               /\ Finish(IF mem.done = "ok" /\ r = "ok" /\ Installed(mem.app) /\ <<"running", mem.app>> \notin facts
                         THEN {} ELSE {ProblemOf(mem.done, "adb")})
               /\ UNCHANGED <<mem, facts>>)
    <2>1. PICK r \in Ends : Ended("cleared", r,
               /\ Finish(IF mem.done = "ok" /\ r = "ok" /\ Installed(mem.app) /\ <<"running", mem.app>> \notin facts
                         THEN {} ELSE {ProblemOf(mem.done, "adb")})
               /\ UNCHANGED <<mem, facts>>)
      BY <1>2
    <2>2. OwnStep /\ (r = "aborted" => problems' # {}) /\ at' = "ended" /\ Settles(r)
      BY <1>0, <2>1 DEF Ended, Awaiting, OwnStep
    <2> QED BY <2>2, CallIsCareful
  <1> QED BY <1>1, <1>2 DEF ClearData

LEMMA UninstallIsCareful ==
  ASSUME CutInv, RemovalPlaces, cmd.name = "app", Uninstall PROVE Careful /\ RemovalPlaces'
  <1>0. \A ps : Finish(ps) => EndsAs /\ problems' = problems \cup ps
    BY FinishIsOver
  <1>1. \A fields : Keep(fields) => DOMAIN mem' = DOMAIN mem
    BY DEF Keep
  <1>2. PICK r \in Ends :
          /\ Settles(r) /\ exit = Running /\ at \in {"uninstall", "removed"} /\ UNCHANGED <<cmd, signal>>
          /\ (\E fields : Keep(fields)) /\ (GoTo("removed") \/ \E ps : Finish(ps))
    BY DEF Uninstall, Ended, Awaiting
  <1>3. Exempt /\ RemovalPlaces'
    BY <1>2 DEF RemovalPlaces, Exempt
  <1>4. OwnStep
    BY <1>0, <1>1, <1>2 DEF OwnStep, OwnExitCode, GoTo
  <1> QED BY <1>2, <1>3, <1>4, CallIsCareful

LEMMA AppInfoIsCareful ==
  ASSUME CutInv, cmd.name = "app", AppInfo PROVE Careful /\ at' \notin {"uninstall", "removed"}
  <1>0. cmd.name \in OwnExitCode /\ \A ps : Finish(ps) => EndsAs /\ problems' = problems \cup ps /\ at' = "ended"
    BY FinishIsOver DEF EndsAs, OwnExitCode
  <1>1. CASE Look("info-active", GoTo("info-package"))
    <2>1. OwnStep /\ exit' = Running /\ at' = "info-package" /\ \E r \in Ends : Settles(r)
      BY <1>0, <1>1 DEF Look, Awaiting, GoTo, OwnStep
    <2>2. Doomed'
      BY <2>1 DEF OwnStep, Doomed
    <2> QED BY <2>1, <2>2, CallIsCareful
  <1>2. CASE /\ Awaiting("info-package") /\ UNCHANGED <<cmd, signal, facts, mem>>
             /\ \E r \in Ends : Settles(r) /\ Finish(IF r = "ok" /\ Installed(mem.app) THEN {} ELSE {"adb"})
    <2>1. PICK r \in Ends : Settles(r) /\ Finish(IF r = "ok" /\ Installed(mem.app) THEN {} ELSE {"adb"})
      BY <1>2
    <2>2. OwnStep /\ (r = "aborted" => problems' # {}) /\ at' = "ended"
      BY <1>0, <1>2, <2>1 DEF Awaiting, OwnStep
    <2> QED BY <2>1, <2>2, CallIsCareful
  <1> QED BY <1>1, <1>2 DEF AppInfo

LEMMA AppIsCareful == ASSUME CutInv, RemovalPlaces, App PROVE CutInv' /\ RemovalPlaces'
  <1>0. cmd.name = "app" /\ cmd.name \in OwnExitCode /\ \A ps : Finish(ps) => EndsAs /\ problems' = problems \cup ps /\ at' = "ended"
    BY FinishIsOver DEF App, EndsAs, OwnExitCode
  <1>1. CASE Decide("input",
          /\ UNCHANGED mem
          /\ IF cmd.action = "resolve" /\ cmd.local # "none"
             THEN Finish(IF cmd.local = "resolved" THEN {} ELSE {"input"}) ELSE GoTo("adb"))
    <2>1. OwnStep /\ UNCHANGED cut /\ at = "input" /\ at' \in {"adb", "ended"}
      BY <1>0, <1>1 DEF Decide, Awaiting, GoTo, OwnStep
    <2> QED BY <2>1, DecisionIsCareful, CarefulKeeps DEF DecisionPlaces, RemovalPlaces
  <1>2. CASE ReadyTarget(CASE cmd.action = "install" -> "artifact" [] cmd.action = "list" -> "list" [] OTHER -> "identify")
    <2>1. PICK first \in {"artifact", "list", "identify"} : ReadyTarget(first)
      BY <1>2
    <2> QED BY <1>0, <2>1, ReadyTargetIsCareful, FirstStepsStay, CarefulKeeps
  <1>3. CASE Read("list", "adb", Finish({}) /\ UNCHANGED mem)
    <2>1. PICK r \in Ends : Settles(r) /\ (IF r = "ok" THEN Finish({}) ELSE Finish({ProblemOf(r, "adb")})) /\ UNCHANGED mem
      BY <1>3 DEF Read
    <2>2. OwnStep /\ (r = "aborted" => problems' # {}) /\ at' = "ended"
      BY <1>0, <1>3, <2>1 DEF Read, Awaiting, OwnStep
    <2> QED BY <2>1, <2>2, CallIsCareful, CarefulKeeps DEF RemovalPlaces
  <1>4. CASE RequireApp("resolved") \/ RequireApp("action")
    <2>1. PICK next \in {"resolved", "action"} : RequireApp(next)
      BY <1>4
    <2> QED BY <1>0, <2>1, RequireAppIsCareful, FirstStepsStay, CarefulKeeps
  <1>5. CASE Decide("resolved", Finish({}) /\ UNCHANGED mem)
    <2>1. OwnStep /\ UNCHANGED cut /\ at = "resolved" /\ at' = "ended"
      BY <1>0, <1>5 DEF Decide, Awaiting, OwnStep
    <2> QED BY <2>1, DecisionIsCareful, CarefulKeeps DEF DecisionPlaces, RemovalPlaces
  <1>6. CASE Decided
    <2>1. UNCHANGED <<cmd, signal, cut, mem>> /\ exit = Running /\ at = "action"
      BY <1>6 DEF Decided, Decide, Awaiting
    <2>2. \/ \E ps : Finish(ps)
          \/ \E next \in {"info-active", "activity", "stop", "activity?", "clear"} : GoTo(next)
          \/ cmd.action = "uninstall" /\ GoTo("uninstall")
      BY <1>6 DEF Decided, Decide
    <2>3. OwnStep /\ RemovalPlaces'
      BY <1>0, <2>1, <2>2 DEF OwnStep, GoTo, RemovalPlaces
    <2> QED BY <2>1, <2>3, DecisionIsCareful, CarefulKeeps DEF DecisionPlaces
  <1>7. CASE AppAppears
    BY <1>7 DEF AppAppears, command, CutInv, Remembers, Remembered, Doomed, Exempt, Good,
       RemovalPlaces
  <1>8. CASE InstallApp \/ ClearData \/ Uninstall \/ AppInfo
    BY <1>0, <1>8, InstallIsCareful, ClearDataIsCareful, UninstallIsCareful, AppInfoIsCareful, CarefulKeeps
       DEF RemovalPlaces
  <1>9. CASE \/ StopApp((IF cmd.action = "stop" THEN Finish({}) ELSE GoTo("activity?")) /\ UNCHANGED mem)
             \/ LaunchApp
    BY <1>0, <1>9, StopAndLaunchAreCareful, CarefulKeeps DEF RemovalPlaces
  <1> QED BY <1>1, <1>2, <1>3, <1>4, <1>5, <1>6, <1>7, <1>8, <1>9 DEF App

LEMMA OpenIsCareful == ASSUME CutInv, Open PROVE CutInv' /\ RemovalPlaces'
  <1>0. cmd.name = "open" /\ cmd.name \in OwnExitCode /\ \A ps : Finish(ps) => EndsAs /\ problems' = problems \cup ps
    BY FinishIsOver DEF Open, OwnExitCode
  <1>1. CASE Decide("input", UNCHANGED mem /\ IF cmd.validUrl THEN GoTo("adb") ELSE Finish({"input"}))
    <2>1. OwnStep /\ UNCHANGED cut /\ at = "input"
      BY <1>0, <1>1 DEF Decide, Awaiting, GoTo, OwnStep
    <2> QED BY <1>0, <2>1, DecisionIsCareful, CarefulKeeps DEF DecisionPlaces, RemovalPlaces,
               OwnStep
  <1>2. CASE ReadyTarget("open")
    BY <1>0, <1>2, ReadyTargetIsCareful, CarefulKeeps DEF RemovalPlaces, Careful
  <1>3. CASE Decide("open", Keep([app |-> "want"]) /\ IF cmd.dryRun THEN Finish({}) ELSE GoTo("start"))
    <2>1. OwnStep /\ UNCHANGED cut /\ at = "open"
      BY <1>0, <1>3 DEF Decide, Awaiting, GoTo, Keep, OwnStep
    <2> QED BY <1>0, <2>1, DecisionIsCareful, CarefulKeeps DEF DecisionPlaces, RemovalPlaces,
               OwnStep
  <1>4. CASE Change("start", Started("want"), UNCHANGED mem /\ IF cmd.named THEN GoTo("opened") ELSE Finish({}))
    BY <1>0, <1>4, ChangeIsCareful, CarefulKeeps DEF RemovalPlaces, Careful
  <1>5. CASE /\ Awaiting("opened") /\ UNCHANGED <<cmd, signal, facts, mem>>
             /\ \E r \in Ends : Settles(r) /\ Finish(IF r = "ok" /\ <<"foreground", "want">> \in facts THEN {} ELSE {"adb"})
    <2>1. PICK r \in Ends : Settles(r) /\ Finish(IF r = "ok" /\ <<"foreground", "want">> \in facts THEN {} ELSE {"adb"})
      BY <1>5
    <2>2. OwnStep /\ (r = "aborted" => problems' # {})
      BY <1>0, <1>5, <2>1 DEF Awaiting, OwnStep
    <2> QED BY <1>0, <2>1, <2>2, CallIsCareful, CarefulKeeps DEF RemovalPlaces, OwnStep
  <1>6. CASE AppAppears
    BY <1>0, <1>6 DEF AppAppears, command, CutInv, Remembers, Remembered, Doomed, Exempt, Good,
       RemovalPlaces
  <1> QED BY <1>1, <1>2, <1>3, <1>4, <1>5, <1>6 DEF Open

-----------------------------------------------------------------------------
(* Interruption of the UI commands *)

LEMMA UiDecisionsAreCareful ==
  ASSUME CutInv, cmd.name = "ui"
  PROVE  /\ UiQuery \/ UiWait \/ UiBefore \/ UiPlan \/ UiAfter => Careful
         /\ ScreenSize \/ KeyCombination => Careful
         /\ UiBegins => Careful
  <1>0. cmd.name \in OwnExitCode /\ \A ps : Finish(ps) => EndsAs /\ problems' = problems \cup ps
    BY FinishIsOver DEF OwnExitCode
  <1>1. \A fields : Keep(fields) => DOMAIN mem' = DOMAIN mem
    BY DEF Keep
  <1>2. ASSUME NEW next, Observe(next) \/ ReadKeyboard(next)
        PROVE  DOMAIN mem' = DOMAIN mem /\ UNCHANGED <<problems, exit>>
    BY <1>1, <1>2 DEF Observe, ReadKeyboard, GoTo
  <1>3. ASSUME UiQuery \/ UiWait \/ UiBefore \/ UiPlan \/ UiAfter PROVE Careful
    <2>1. UNCHANGED <<cmd, signal, cut>> /\ exit = Running /\ at \notin DecisionPlaces
      BY <1>3 DEF UiQuery, UiWait, UiBefore, UiPlan, UiAfter, Decide, Awaiting, DecisionPlaces
    <2>2. UiQuery => OwnStep
      BY <1>0, <2>1 DEF UiQuery, Decide, OwnStep
    <2>3. UiWait => OwnStep
      BY <1>0, <1>1, <2>1 DEF UiWait, Decide, GoTo, OwnStep
    <2>4. UiBefore => OwnStep
      BY <1>0, <1>1, <2>1 DEF UiBefore, Decide, GoTo, OwnStep
    <2>5. UiPlan => OwnStep
      BY <1>0, <1>1, <2>1 DEF UiPlan, Decide, GoTo, OwnStep
    <2>6. UiAfter => OwnStep
      BY <1>0, <1>1, <1>2, <2>1 DEF UiAfter, Decide, OwnStep
    <2> QED BY <1>3, <2>1, <2>2, <2>3, <2>4, <2>5, <2>6, DecisionIsCareful
  <1>4. ASSUME ScreenSize \/ KeyCombination PROVE Careful
    <2>1. PICK r \in Ends : Settles(r) /\ (r = "aborted" => \E kind : Finish({kind})) /\ (GoTo(at') \/ \E kind : Finish({kind}))
      BY <1>4 DEF ScreenSize, KeyCombination, Read, GoTo
    <2>2. OwnStep /\ (r = "aborted" => problems' # {})
      BY <1>0, <1>4, <2>1 DEF ScreenSize, KeyCombination, Read, Awaiting, GoTo, OwnStep
    <2> QED BY <2>1, <2>2, CallIsCareful
  <1>5. ASSUME UiBegins PROVE Careful
    <2>1. CASE Decide("input", UNCHANGED mem /\ IF cmd.action = "inspect" /\ ~cmd.validSelector THEN Finish({"input"}) ELSE GoTo("adb"))
      <3>1. OwnStep /\ UNCHANGED cut /\ at = "input"
        BY <1>0, <2>1 DEF Decide, Awaiting, GoTo, OwnStep
      <3> QED BY <3>1, DecisionIsCareful DEF DecisionPlaces
    <2>2. CASE ReadyTarget("selector")
      BY <1>0, <2>2, ReadyTargetIsCareful
    <2>3. CASE Decide("selector",
          CASE cmd.action = "keyboard" -> ReadKeyboard("key-before")
            [] cmd.action = "permission" -> Observe("dialog")
            [] cmd.action = "inspect" -> Observe("query")
            [] OTHER -> IF ~cmd.validSelector THEN Finish({"input"}) /\ UNCHANGED mem
                        ELSE Observe(CASE cmd.action = "query" -> "query" [] cmd.action = "wait" -> "waited" [] OTHER -> "before"))
      <3>1. UNCHANGED <<cmd, signal, cut>> /\ exit = Running /\ at = "selector"
        BY <2>3 DEF Decide, Awaiting
      <3>2. \/ \E next : Observe(next) \/ ReadKeyboard(next)
            \/ Finish({"input"}) /\ UNCHANGED mem
        BY <2>3 DEF Decide
      <3>3. OwnStep
        BY <1>0, <1>2, <3>1, <3>2 DEF OwnStep
      <3> QED BY <3>1, <3>3, DecisionIsCareful DEF DecisionPlaces
    <2> QED BY <1>5, <2>1, <2>2, <2>3 DEF UiBegins
  <1> QED BY <1>3, <1>4, <1>5

LEMMA KeyboardIsCareful == ASSUME CutInv, cmd.name = "ui", Keyboard PROVE Careful
  <1>0. cmd.name \in OwnExitCode /\ \A ps : Finish(ps) => EndsAs /\ problems' = problems \cup ps
    BY FinishIsOver DEF OwnExitCode
  <1>1. {"method", "window"} \subseteq DOMAIN mem
    BY DEF CutInv, Remembers
  <1>2. ASSUME NEW r \in Ends, NEW which \in {"method", "window"}, Settles(r), Awaiting("keyboard"),
               UNCHANGED <<cmd, signal, facts, at, problems, exit>>,
               Keep([x \in {which} |-> IF r = "ok" THEN Of("keyboard") ELSE r])
        PROVE  Careful
    <2>1. DOMAIN mem' = DOMAIN mem /\ (r # "ok" => mem'[which] = r)
      BY <1>1, <1>2 DEF Keep
    <2>2. OwnStep
      BY <1>0, <1>2, <2>1 DEF Awaiting, OwnStep
    <2>3. r = "aborted" => exit' = Running /\ Doomed'
      BY <1>2, <2>1 DEF Awaiting, Doomed
    <2> QED BY <1>2, <2>2, <2>3, CallIsCareful
  <1>3. CASE Decide("keyboard", mem.method # None /\ mem.window # None /\ UNCHANGED mem /\
               IF {mem.method, mem.window} \subseteq {"visible", "hidden"} THEN GoTo(mem.next) ELSE Finish({"adb"}))
    <2>1. OwnStep /\ UNCHANGED cut /\ at = "keyboard"
      BY <1>0, <1>3 DEF Decide, Awaiting, GoTo, OwnStep
    <2>2. CASE "aborted" \in {mem.method, mem.window}
      <3>1. problems' # {}
        BY <1>0, <1>3, <2>2 DEF Decide
      <3> QED BY <2>1, <3>1, DecisionIsCareful
    <2>3. CASE "aborted" \notin {mem.method, mem.window}
      <3>1. cut => problems' # {}
        BY <2>1, <2>3 DEF CutInv, OwnStep, Doomed, Exempt
      <3>2. CASE cut
        BY <2>1, <3>1, <3>2, DecisionIsCareful
      <3>3. CASE ~cut
        BY <2>1, <3>3 DEF OwnStep, Careful
      <3> QED BY <3>2, <3>3
    <2> QED BY <2>2, <2>3
  <1>4. CASE \/ Decide("key-before", UNCHANGED mem /\
                  IF ~cmd.supported \/ mem.method # mem.window THEN Finish({"adb"})
                  ELSE IF cmd.query = "status" \/ Agreed("hidden") \/ cmd.dryRun THEN Finish({}) ELSE GoTo("dismiss"))
             \/ Decide("key-after", UNCHANGED mem /\ Finish(IF Agreed("hidden") THEN {} ELSE {"adb"}))
    <2>1. OwnStep /\ UNCHANGED cut /\ at \in {"key-before", "key-after"}
      BY <1>0, <1>4 DEF Decide, Awaiting, GoTo, OwnStep
    <2> QED BY <2>1, DecisionIsCareful DEF DecisionPlaces
  <1>5. CASE \E s \in Screens :
       Change("dismiss", IF Of("keyboard") = "visible" THEN With("keyboard", "hidden") ELSE With("screen", s),
              ReadKeyboard("key-after"))
    BY <1>0, <1>5, ChangeIsCareful
  <1> QED BY <1>2, <1>3, <1>4, <1>5 DEF Keyboard, KeyboardReads

LEMMA PermissionIsCareful == ASSUME CutInv, cmd.name = "ui", Permission PROVE Careful
  <1>0. cmd.name \in OwnExitCode /\ \A ps : Finish(ps) => EndsAs /\ problems' = problems \cup ps
    BY FinishIsOver DEF OwnExitCode
  <1>1. CASE Decide("dialog",
       /\ Keep([before |-> mem.seen])
       /\ IF cmd.query = "inspect" THEN Finish(IF Dialog(mem.seen) = "unsupported" THEN {"adb"} ELSE {})
          ELSE IF Dialog(mem.seen) \in {"absent", "unsupported"} THEN Finish({"adb"})
          ELSE IF ~cmd.usable THEN Finish({"input"}) ELSE IF cmd.dryRun THEN Finish({}) ELSE GoTo("respond"))
    <2>1. OwnStep /\ UNCHANGED cut /\ at = "dialog"
      BY <1>0, <1>1 DEF Decide, Awaiting, GoTo, Keep, OwnStep
    <2> QED BY <2>1, DecisionIsCareful DEF DecisionPlaces
  <1>2. CASE \E s \in Screens : Change("respond", With("screen", s), Observe("responded"))
    BY <1>0, <1>2, ChangeIsCareful
  <1>3. CASE Decide("responded", UNCHANGED mem /\
       Finish(IF mem.seen # mem.before /\ Dialog(mem.seen) # Dialog(mem.before) THEN {} ELSE {"adb"}))
    <2>1. OwnStep /\ UNCHANGED cut /\ at = "responded"
      BY <1>0, <1>3 DEF Decide, Awaiting, OwnStep
    <2> QED BY <2>1, DecisionIsCareful DEF DecisionPlaces
  <1> QED BY <1>1, <1>2, <1>3 DEF Permission

LEMMA UnicodeIsCareful == ASSUME CutInv, cmd.name = "ui", UnicodeInput PROVE Careful
  <1>0. cmd.name \in OwnExitCode /\ \A ps : Finish(ps) => EndsAs /\ problems' = problems \cup ps
    BY FinishIsOver DEF OwnExitCode
  <1>1. CASE Decide("unicode", UNCHANGED mem /\ GoTo(IF cmd.action \in {"fill", "type"} /\ cmd.unicode THEN "ime-list" ELSE "plan"))
    <2>1. OwnStep /\ UNCHANGED cut /\ at = "unicode"
      BY <1>0, <1>1 DEF Decide, Awaiting, GoTo, OwnStep
    <2> QED BY <2>1, DecisionIsCareful DEF DecisionPlaces
  <1>2. CASE Read("ime-list", "adb", UNCHANGED mem /\ IF cmd.imeEnabled THEN GoTo("ime-current") ELSE Finish({"adb"}))
    <2>1. PICK r \in Ends : Settles(r) /\ UNCHANGED mem /\ IF r = "ok" THEN IF cmd.imeEnabled THEN GoTo("ime-current") ELSE Finish({"adb"})
                                                           ELSE Finish({ProblemOf(r, "adb")})
      BY <1>2 DEF Read
    <2>2. OwnStep /\ (r = "aborted" => problems' # {})
      BY <1>0, <1>2, <2>1 DEF Read, Awaiting, GoTo, OwnStep
    <2> QED BY <2>1, <2>2, CallIsCareful
  <1>3. CASE /\ Awaiting("ime-current") /\ UNCHANGED <<cmd, signal, facts>>
             /\ \E r \in Ends, known \in BOOLEAN : Settles(r) /\
                  IF r = "ok" /\ known THEN GoTo("plan") /\ Keep([ime |-> Of("ime")]) ELSE Finish({"adb"}) /\ UNCHANGED mem
    <2>1. PICK r \in Ends, known \in BOOLEAN : Settles(r) /\
                  IF r = "ok" /\ known THEN GoTo("plan") /\ Keep([ime |-> Of("ime")]) ELSE Finish({"adb"}) /\ UNCHANGED mem
      BY <1>3
    <2>2. Keep([ime |-> Of("ime")]) => DOMAIN mem' = DOMAIN mem
      BY DEF Keep
    <2>3. OwnStep /\ (r = "aborted" => problems' # {})
      BY <1>0, <1>3, <2>1, <2>2 DEF Awaiting, GoTo, OwnStep
    <2> QED BY <2>1, <2>3, CallIsCareful
  <1> QED BY <1>1, <1>2, <1>3 DEF UnicodeInput

LEMMA HierarchyIsCareful == ASSUME CutInv, cmd.name = "ui", UiLock \/ UiDump PROVE Careful
  <1>0. cmd.name \in OwnExitCode /\ \A ps : Finish(ps) => EndsAs /\ problems' = problems \cup ps
    BY FinishIsOver DEF OwnExitCode
  <1>1. CASE UiLock
    <2>1. OwnStep /\ cut' = (cut \/ signal) /\ (signal => problems' # {})
      BY <1>0, <1>1 DEF UiLock, Awaiting, GoTo, OwnStep
    <2>2. cut => signal
      BY DEF CutInv
    <2>3. CASE signal
      BY <2>1, <2>3 DEF OwnStep, Careful, Doomed, Good, EndsAs
    <2>4. CASE ~signal
      BY <2>1, <2>2, <2>4 DEF OwnStep, Careful
    <2> QED BY <2>3, <2>4
  <1>2. CASE UiDump
    <2>1. PICK r \in Ends, readable \in BOOLEAN : Settles(r) /\
       IF r # "ok" \/ ~readable THEN Finish({"adb"}) /\ UNCHANGED mem
       ELSE IF ~cmd.strict \/ mem.previous = Digest THEN GoTo(mem.next) /\ Keep([seen |-> Digest])
       ELSE IF mem.snaps < 2 THEN GoTo("ui-lock") /\ Keep([previous |-> Digest, snaps |-> mem.snaps + 1])
       ELSE Finish({"adb"}) /\ UNCHANGED mem
      BY <1>2 DEF UiDump
    <2>2. \A fields : Keep(fields) => DOMAIN mem' = DOMAIN mem
      BY DEF Keep
    <2>3. OwnStep /\ (r = "aborted" => problems' # {})
      BY <1>0, <1>2, <2>1, <2>2 DEF UiDump, Awaiting, GoTo, OwnStep
    <2> QED BY <2>1, <2>3, CallIsCareful
  <1> QED BY <1>1, <1>2

LEMMA InputIsCareful == ASSUME CutInv, cmd.name = "ui", ImeSet \/ Send \/ Restore PROVE Careful
  <1>0. cmd.name \in OwnExitCode
    BY DEF OwnExitCode
  <1>1. CASE ImeSet
    <2>1. PICK r \in Ends : Settles(r) /\ IF r = "ok" THEN GoTo("send") ELSE Note({ProblemOf(r, "adb")}, "restore")
      BY <1>1 DEF ImeSet
    <2>2. OwnStep /\ (r = "aborted" => problems' # {})
      BY <1>0, <1>1, <2>1 DEF ImeSet, Awaiting, GoTo, Note, OwnStep
    <2> QED BY <2>1, <2>2, CallIsCareful
  <1>2. CASE /\ Awaiting("send") /\ UNCHANGED <<cmd, signal>>
             /\ \E r \in Ends, new \in Sent(Head(mem.todo)) :
                  /\ Settles(r) /\ Effect(r, new)
                  /\ IF r # "ok" THEN Note({ProblemOf(r, "adb")}, AfterInput) /\ UNCHANGED mem
                     ELSE GoTo(IF Len(mem.todo) = 1 THEN AfterInput ELSE "send") /\ Keep([todo |-> Tail(mem.todo)])
    <2>1. PICK r \in Ends : Settles(r) /\
             IF r # "ok" THEN Note({ProblemOf(r, "adb")}, AfterInput) /\ UNCHANGED mem
             ELSE GoTo(IF Len(mem.todo) = 1 THEN AfterInput ELSE "send") /\ Keep([todo |-> Tail(mem.todo)])
      BY <1>2
    <2>2. Keep([todo |-> Tail(mem.todo)]) => DOMAIN mem' = DOMAIN mem
      BY DEF Keep
    <2>3. OwnStep /\ (r = "aborted" => problems' # {})
      BY <1>0, <1>2, <2>1, <2>2 DEF Awaiting, GoTo, Note, OwnStep
    <2> QED BY <2>1, <2>3, CallIsCareful
  <1>3. CASE /\ Awaiting("send") /\ UNCHANGED <<cmd, signal>>
             /\ signal /\ cmd.chunks > 1 /\ Of("text") = "part" /\ UNCHANGED <<facts, mem>>
             /\ Note({"adb"}, AfterInput) /\ cut' = TRUE
    BY <1>0, <1>3 DEF Awaiting, Note, Careful, Doomed
  <1>4. CASE Restore
    <2>1. PICK r \in Ends : Settles(r) /\ Note(IF r = "ok" THEN {} ELSE {ProblemOf(r, "adb")}, "sent")
      BY <1>4 DEF Restore
    <2>2. OwnStep /\ (r = "aborted" => problems' # {})
      BY <1>0, <1>4, <2>1 DEF Restore, Awaiting, Note, OwnStep
    <2> QED BY <2>1, <2>2, CallIsCareful
  <1> QED BY <1>1, <1>2, <1>3, <1>4 DEF Send

LEMMA UiIsCareful == ASSUME CutInv, Ui PROVE CutInv' /\ cmd' = cmd
  <1>1. cmd.name = "ui"
    BY DEF Ui
  <1>2. CASE UiMoves
    BY <1>1, <1>2 DEF UiMoves, command, CutInv, Remembers, Remembered, Doomed, Exempt, Good
  <1>3. UiMoves \/ Careful
    BY <1>1, UiDecisionsAreCareful, KeyboardIsCareful, PermissionIsCareful, UnicodeIsCareful, HierarchyIsCareful, InputIsCareful
    DEF Ui, UiBegins
  <1> QED BY <1>2, <1>3, CarefulKeeps DEF Careful, UiMoves

-----------------------------------------------------------------------------
(* Interruption of the commands that keep evidence *)

LEMMA NotingIsCareful ==
  ASSUME CutInv, cmd.name \in OwnExitCode, NEW next, NEW ps, NEW r, Note(ps, next), Settles(r),
         UNCHANGED <<cmd, signal, mem>>, exit = Running, r = "aborted" => ps # {}
  PROVE  Careful
  <1>1. OwnStep /\ (r = "aborted" => problems' # {})
    BY DEF Note, OwnStep
  <1> QED BY <1>1, CallIsCareful

LEMMA GoingIsCareful ==
  ASSUME CutInv, cmd.name \in OwnExitCode, NEW next, NEW r, GoTo(next), Settles(r),
         UNCHANGED <<cmd, signal, mem>>, exit = Running, r # "aborted"
  PROVE  Careful
  <1>1. OwnStep
    BY DEF GoTo, OwnStep
  <1> QED BY <1>1, CallIsCareful

LEMMA CommitIsCareful ==
  ASSUME CutInv, cmd.name = "capture", NEW next, NEW thrown,
         Commit(next, thrown) \/ DiscardInvalid \/ DiscardCaught \/ Prepare(next)
  PROVE  Careful
  <1>1. UNCHANGED <<cmd, signal, cut, mem>> /\ exit = Running /\ at \in {"commit", "unlink", "sha256", "invalid", "caught", "prepare"}
    BY DiscardIs DEF Commit, Prepare, Decide, Awaiting
  <1>2. OwnStep
    <2>1. CASE Commit(next, thrown)
      BY <1>1, <2>1 DEF Commit, Decide, GoTo, OwnStep, OwnExitCode
    <2>2. CASE DiscardInvalid \/ DiscardCaught
      BY <1>1, <2>2, DiscardIs DEF OwnStep, OwnExitCode
    <2>3. CASE Prepare(next)
      BY <1>1, <2>3, FinishIsOver DEF Prepare, Decide, GoTo, OwnStep, OwnExitCode
    <2> QED BY <2>1, <2>2, <2>3
  <1> QED BY <1>1, <1>2, DecisionIsCareful DEF DecisionPlaces

LEMMA ScreenshotIsCareful == ASSUME CutInv, cmd.name = "capture", Screenshot PROVE Careful
  <1>0. cmd.name \in OwnExitCode
    BY DEF OwnExitCode
  <1>1. CASE /\ Awaiting("screenshot") /\ UNCHANGED <<cmd, signal>>
             /\ facts' = facts \cup {Temp}
             /\ \E r \in Ends, valid \in BOOLEAN : Settles(r) /\ UNCHANGED mem /\
                  IF r = "ok" /\ valid THEN GoTo("transform") ELSE Note({ProblemOf(r, "adb")}, "invalid")
    BY <1>0, <1>1, NotingIsCareful, GoingIsCareful DEF Awaiting
  <1>2. CASE Decide("transform", UNCHANGED mem /\
       \/ GoTo("commit") \/ Note({"input"}, "invalid") \/ Note({"adb"}, "invalid"))
    <2>1. OwnStep /\ UNCHANGED cut /\ at = "transform"
      BY <1>0, <1>2 DEF Decide, Awaiting, GoTo, Note, OwnStep
    <2> QED BY <2>1, DecisionIsCareful DEF DecisionPlaces
  <1>3. CASE DiscardInvalid
    BY <1>3, CommitIsCareful
  <1> QED BY <1>1, <1>2, <1>3 DEF Screenshot, DiscardInvalid

LEMMA ScreenRecordIsCareful == ASSUME CutInv, cmd.name = "capture", ScreenRecord PROVE Careful
  <1>0. cmd.name \in OwnExitCode
    BY DEF OwnExitCode
  <1>1. CASE /\ Awaiting("record") /\ UNCHANGED <<cmd, signal>>
             /\ IF ~cmd.validDuration THEN Finish({"input"}) /\ UNCHANGED <<facts, mem, cut>>
                ELSE \E r \in Ends : Settles(r) /\ Effect(r, facts \cup {Remote}) /\ UNCHANGED mem /\
                       IF r = "ok" THEN GoTo("pull") ELSE Note({ProblemOf(r, "adb")}, "cleanup")
    <2>1. CASE Finish({"input"}) /\ UNCHANGED <<facts, mem, cut>>
      <3>1. OwnStep /\ UNCHANGED cut /\ at = "record"
        BY <1>0, <1>1, <2>1, FinishIsOver DEF Awaiting, OwnStep
      <3> QED BY <3>1, DecisionIsCareful DEF DecisionPlaces
    <2> QED BY <1>0, <1>1, <2>1, NotingIsCareful, GoingIsCareful DEF Awaiting
  <1>2. CASE /\ Awaiting("pull") /\ UNCHANGED <<cmd, signal, mem>>
             /\ \E r \in Ends, valid \in BOOLEAN :
                  /\ Settles(r) /\ Effect(r, facts \cup {Temp}) /\ (r = "ok" => Remote \in facts)
                  /\ IF r = "ok" /\ valid /\ Temp \in facts' THEN GoTo("commit") ELSE Note({"adb"}, "discard-pull")
    BY <1>0, <1>2, NotingIsCareful, GoingIsCareful DEF Awaiting
  <1>3. CASE \/ DiscardPulled
             \/ Decide("thrown", GoTo("cleanup") /\ Keep([thrown |-> TRUE]))
             \/ /\ Awaiting("cleanup") /\ UNCHANGED <<cmd, signal, mem>>
                /\ \E r \in Ends : /\ SettlesAlone(r) /\ HonestEffect(r, facts \ {Remote})
                                   /\ Note(IF r = "ok" THEN {} ELSE {"adb"}, IF mem.thrown THEN "caught" ELSE "kept")
    <2>1. OwnStep /\ UNCHANGED cut /\ at \in {"discard-pull", "thrown", "cleanup"}
      BY <1>0, <1>3 DEF DiscardPulled, Discard, DiscardFails, Decide, Awaiting, GoTo, Note, Keep, SettlesAlone, OwnStep
    <2> QED BY <2>1, DecisionIsCareful DEF DecisionPlaces
  <1> QED BY <1>1, <1>2, <1>3 DEF ScreenRecord, DiscardPulled

LEMMA CaptureIsCareful == ASSUME CutInv, Capture PROVE CutInv' /\ cmd' = cmd
  <1>0. cmd.name = "capture" /\ cmd.name \in OwnExitCode
    BY DEF Capture, OwnExitCode
  <1>1. CASE ForeignFile
    BY <1>1 DEF ForeignFile, command, CutInv, Remembers, Remembered, Doomed, Exempt, Good
  <1>2. CASE \/ Decide("input", UNCHANGED mem /\ IF CaptureRefused THEN Finish({"input"}) ELSE GoTo("adb"))
             \/ Decide("kept", Finish({}) /\ UNCHANGED mem)
    <2>1. OwnStep /\ UNCHANGED cut /\ at \in {"input", "kept"}
      BY <1>0, <1>2, FinishIsOver DEF Decide, Awaiting, GoTo, OwnStep
    <2> QED BY <2>1, DecisionIsCareful, CarefulKeeps DEF DecisionPlaces, Careful
  <1>3. CASE ReadyTarget("prepare")
    BY <1>0, <1>3, ReadyTargetIsCareful, CarefulKeeps DEF Careful
  <1>4. CASE Prepare(cmd.action) \/ DiscardCaught \/ Commit("kept", "caught") \/ Commit("cleanup", "thrown")
    BY <1>0, <1>4, CommitIsCareful, CarefulKeeps DEF Careful
  <1>5. CASE Screenshot \/ ScreenRecord
    BY <1>0, <1>5, ScreenshotIsCareful, ScreenRecordIsCareful, CarefulKeeps DEF Careful
  <1> QED BY <1>1, <1>2, <1>3, <1>4, <1>5 DEF Capture, DiscardCaught

LEMMA InspectionsAreCareful == ASSUME CutInv, InspectApp \/ InspectFailures \/ FailureSources PROVE Careful
  <1>0. cmd.name \in OwnExitCode /\ Exempt /\ \A ps : Finish(ps) => EndsAs /\ problems \subseteq problems'
    BY FinishIsOver DEF InspectApp, InspectFailures, FailureSources, OwnExitCode, Exempt
  <1>1. ASSUME NEW next, InspectedApp(GoTo(next)) PROVE Careful
    <2>1. CASE Decide("input", UNCHANGED mem /\ IF cmd.validOptions THEN GoTo("adb") ELSE Finish({"input"}))
      <3>1. OwnStep /\ UNCHANGED cut /\ at = "input"
        BY <1>0, <2>1 DEF Decide, Awaiting, GoTo, OwnStep
      <3> QED BY <3>1, DecisionIsCareful DEF DecisionPlaces
    <2>2. CASE ReadyTarget("identify") \/ RequireApp("info-active")
      BY <1>0, <2>2, ReadyTargetIsCareful, RequireAppIsCareful
    <2>3. CASE Look("info-active", GoTo("info-package"))
      <3>1. OwnStep /\ \E r \in Ends : Settles(r)
        BY <1>0, <2>3 DEF Look, Awaiting, GoTo, OwnStep
      <3> QED BY <1>0, <3>1, CallIsCareful
    <2>4. CASE /\ Awaiting("info-package") /\ UNCHANGED <<cmd, signal, facts, mem>>
               /\ \E r \in Ends : Settles(r) /\ IF r = "ok" /\ Installed(mem.app) THEN GoTo(next) ELSE Finish({"adb"})
      <3>1. OwnStep /\ \E r \in Ends : Settles(r)
        BY <1>0, <2>4 DEF Awaiting, GoTo, OwnStep
      <3> QED BY <1>0, <3>1, CallIsCareful
    <2> QED BY <1>1, <2>1, <2>2, <2>3, <2>4 DEF InspectedApp
  <1>2. ASSUME NEW step, NEW name, NEW next, Source(step, name, Finish({})) \/ Source(step, name, GoTo(next)) PROVE Careful
    <2>1. \A sources : Keep([sources |-> sources]) => DOMAIN mem' = DOMAIN mem
      BY DEF Keep
    <2>2. OwnStep /\ \E r \in Ends : Settles(r)
      BY <1>0, <1>2, <2>1 DEF Source, Awaiting, GoTo, OwnStep
    <2> QED BY <1>0, <2>2, CallIsCareful
  <1>3. CASE /\ Awaiting("clock") /\ UNCHANGED <<cmd, signal, facts, mem>>
             /\ \E r \in Ends, stable \in BOOLEAN : Settles(r) /\
                  IF r = "ok" /\ stable THEN GoTo("exit-info") ELSE Finish({"adb"})
    <2>1. OwnStep /\ \E r \in Ends : Settles(r)
      BY <1>0, <1>3 DEF Awaiting, GoTo, OwnStep
    <2> QED BY <1>0, <2>1, CallIsCareful
  <1> QED BY <1>1, <1>2, <1>3 DEF InspectApp, InspectFailures, FailureSources

\* The bundle is written by no call that could be aborted.
LEMMA BundleIsCareful == ASSUME CutInv, BundleBegins \/ BundleWritten PROVE Careful
  <1>1. cmd.name = "bundle" /\ at \notin {"inspect", "discover"}
    BY DEF BundleBegins, BundleWritten, Decide, Awaiting
  <1>2. UNCHANGED <<cmd, signal, cut>> /\ DOMAIN mem' = DOMAIN mem /\ exit = Running
    BY DEF BundleBegins, BundleWritten, Decide, Awaiting, Keep
  <1>3. ~cut
    BY <1>1, <1>2 DEF CutInv, Doomed, Exempt, OwnExitCode
  <1> QED BY <1>2, <1>3 DEF Careful

LEMMA CutSteps ==
  CutInv /\ RemovalPlaces /\ [TargetNext \/ Logs \/ App \/ Open \/ Ui \/ Evidence \/ Signal]_vars => CutInv' /\ RemovalPlaces'
  <1> SUFFICES ASSUME CutInv, RemovalPlaces, [TargetNext \/ Logs \/ App \/ Open \/ Ui \/ Evidence \/ Signal]_vars
               PROVE  CutInv' /\ RemovalPlaces'
    OBVIOUS
  <1>1. CASE App \/ Open
    BY <1>1, AppIsCareful, OpenIsCareful
  <1>2. CASE TargetNext \/ Logs \/ Ui \/ Evidence
    <2>1. CutInv'
      BY <1>2, TargetsAreCareful, LogsAreCareful, UiIsCareful, CaptureIsCareful, InspectionsAreCareful, BundleIsCareful, CarefulKeeps
      DEF Evidence
    <2>2. cmd.name # "app" /\ cmd' = cmd
      <3>1. cmd.name # "app"
        BY <1>2 DEF TargetNext, Doctor, Devices, Ports, Discover, Connect, Pair, Logs, Ui,
          Evidence, Capture, InspectApp, InspectFailures, FailureSources, BundleBegins, BundleWritten
      <3>2. cmd' = cmd
        BY <1>2, TargetsAreCareful, LogsAreCareful, UiIsCareful, CaptureIsCareful, InspectionsAreCareful, BundleIsCareful
        DEF Evidence, Careful
      <3> QED BY <3>1, <3>2
    <2> QED BY <2>1, <2>2 DEF RemovalPlaces
  <1>3. CASE Signal \/ UNCHANGED vars
    BY <1>3 DEF Signal, vars, command, CutInv, Remembers, Remembered, Doomed, Exempt, Good,
       RemovalPlaces
  <1> QED BY <1>1, <1>2, <1>3

\* InterruptionIsNotSuccess (exitCodeForProblems of commands.ts, the exit codes of
\* app-commands.ts, ui-actions.ts, capture.ts): whatever the options, the inventory and
\* the device, and wherever the caller interrupts, a command of which a call was aborted
\* does not end with zero, and one that can say so ends with 130; two kinds excepted.
THEOREM InterruptionsAreNotSuccess == CommandsSpec => []InterruptionIsNotSuccess
  <1>1. CommandsInit => RemovalPlaces
    BY DEF CommandsInit, TargetInit, LogsInit, AppInit, EvidenceInit, CommandInit, RemovalPlaces
  <1>2. CutInv => InterruptionIsNotSuccess
    BY DEF CutInv, Good, Exempt, InterruptionIsNotSuccess
  <1> QED BY <1>1, <1>2, CutInitially, CutSteps, PTL DEF CommandsSpec


-----------------------------------------------------------------------------
(* Success *)

\* Where the commands that look at targets stand on what they have seen.
TargetsKnow ==
  /\ cmd.name = "ports" /\ cmd.action = "add" =>
       /\ at = "mutate" => Mapping = {}
       /\ at = "verify" => Mapping \subseteq {"same"}
  /\ cmd.name = "connect" /\ at = "identity" => ConnectDone
  /\ exit = "0" =>
       /\ cmd.name = "ports" => cmd.dryRun \/ PortsDone
       /\ cmd.name = "connect" => cmd.dryRun \/ ConnectDone
       /\ cmd.name = "pair" => cmd.dryRun \/ PairDone

\* A step that leaves the device as it is and comes to none of those places.
TargetsGoOn ==
  UNCHANGED <<cmd, facts>> /\ exit = Running /\ exit' # "0" /\ at' \notin {"mutate", "verify", "identity"}

LEMMA TargetsGoOnKeeps == TargetsKnow /\ TargetsGoOn => TargetsKnow'
  BY DEF TargetsKnow, TargetsGoOn

LEMMA FinishFails == ASSUME NEW ps, Finish(ps), ps # {} PROVE exit' # "0" /\ at' = "ended"
  BY ZeroIsNoProblem DEF Finish

LEMMA InspectionGoesOn ==
  MdnsStep("inspect") \/ MdnsStep("discover") \/ HardwareStep => TargetsGoOn
  BY DEF MdnsStep, HardwareStep, Awaiting, TargetsGoOn, Running

LEMMA PortsKnow == ASSUME TargetsKnow, Ports PROVE TargetsKnow'
  <1>0. cmd.name = "ports" /\ \A ps : Finish(ps) => at' = "ended" /\ exit' # Running /\ (ps # {} => exit' # "0")
    BY FinishFails, FinishIsOver DEF Ports, EndsAs
  <1>1. CASE \/ PortsInput \/ ResolveAdb(GoTo("devices") /\ UNCHANGED mem)
             \/ Read("devices", "adb", StartInspect("features"))
             \/ Inspected(Select(LAMBDA choice : GoTo("list") /\ Keep([target |-> choice])))
    <2>1. TargetsGoOn
      BY <1>0, <1>1 DEF PortsInput, ResolveAdb, Read, StartInspect, Inspected, Select, Decide,
         Awaiting, GoTo, TargetsGoOn, Running
    <2> QED BY <2>1, TargetsGoOnKeeps
  <1>2. CASE Read("list", "adb", PortsListed /\ UNCHANGED mem)
    <2>1. UNCHANGED <<cmd, facts>> /\ exit = Running /\ Mapping' = Mapping
      BY <1>2 DEF Read, Awaiting, Mapping
    <2>2. CASE PortsListed
      BY <1>0, <2>1, <2>2 DEF PortsListed, PortsDone, GoTo, TargetsKnow, Running
    <2>3. CASE ~PortsListed
      BY <1>0, <1>2, <2>1, <2>3 DEF Read, TargetsKnow
    <2> QED BY <2>2, <2>3
  <1>3. CASE PortsMutate
    <2>1. PICK r \in Ends :
            /\ Effect(r, IF cmd.action = "add" THEN Unmapped \cup {<<"mapped", "same">>} ELSE Unmapped)
            /\ IF r = "ok" THEN GoTo("verify") ELSE Finish({ProblemOf(r, "adb")})
      BY <1>3 DEF PortsMutate
    <2>2. cmd' = cmd /\ exit = Running /\ at = "mutate" /\ exit' # "0" /\ at' \in {"verify", "ended"}
      BY <1>0, <1>3, <2>1 DEF PortsMutate, Awaiting, GoTo, Running
    <2>3. cmd.action = "add" => Mapping' \subseteq {"same"}
      <3>1. cmd.action = "add" => facts' \in {facts, Unmapped \cup {<<"mapped", "same">>}}
        BY <2>1 DEF Effect
      <3>2. cmd.action = "add" => Mapping = {}
        BY <1>0, <2>2 DEF TargetsKnow
      <3> QED BY <3>1, <3>2 DEF Mapping, Unmapped
    <2> QED BY <1>0, <2>2, <2>3 DEF TargetsKnow
  <1>4. CASE Read("verify", "adb", PortsVerified /\ UNCHANGED mem)
    <2>1. UNCHANGED <<cmd, facts>> /\ exit = Running /\ at = "verify" /\ Mapping' = Mapping
      BY <1>4 DEF Read, Awaiting, Mapping
    <2>2. CASE PortsVerified
      BY <1>0, <2>1, <2>2 DEF PortsVerified, PortsDone, TargetsKnow
    <2>3. CASE ~PortsVerified
      BY <1>0, <1>4, <2>1, <2>3 DEF Read, TargetsKnow
    <2> QED BY <2>2, <2>3
  <1> QED BY <1>1, <1>2, <1>3, <1>4 DEF Ports

LEMMA ConnectKnows == ASSUME TargetsKnow, Connect PROVE TargetsKnow'
  <1>0. cmd.name = "connect" /\ \A ps : Finish(ps) => at' = "ended" /\ exit' # Running /\ (ps # {} => exit' # "0")
    BY FinishFails, FinishIsOver DEF Connect, EndsAs
  <1>1. ASSUME NEW candidates, Attempt(candidates), UNCHANGED <<cmd, facts>>, exit = Running PROVE TargetsKnow'
    BY <1>0, <1>1 DEF Attempt, GoTo, TargetsKnow, Running
  <1>2. CASE WirelessInput
    <2>1. TargetsGoOn
      BY <1>0, <1>2 DEF WirelessInput, Decide, Awaiting, GoTo, TargetsGoOn, Running
    <2> QED BY <2>1, TargetsGoOnKeeps
  <1>3. CASE ResolveEndpoint
    <2>1. UNCHANGED <<cmd, facts>> /\ exit = Running
      BY <1>3 DEF ResolveEndpoint, ResolveAdb, Discovered, Decide, Awaiting
    <2>2. (\E candidates : Attempt(candidates)) \/ TargetsGoOn
      BY <1>0, <1>3, <2>1 DEF ResolveEndpoint, ResolveAdb, Discovered, StartDiscovery, Decide,
         GoTo, TargetsGoOn, Running
    <2> QED BY <1>1, <2>1, <2>2, TargetsGoOnKeeps
  <1>4. CASE ConnectAttempt
    <2>1. cmd' = cmd /\ exit = Running /\ exit' # "0" /\ at' \notin {"identity", "mutate", "verify"}
      BY <1>0, <1>4 DEF ConnectAttempt, Awaiting, GoTo, Running
    <2> QED BY <1>0, <2>1 DEF TargetsKnow
  <1>5. CASE ConnectState
    <2>1. UNCHANGED <<cmd, facts, mem>> /\ exit = Running
      BY <1>5 DEF ConnectState, Read, Awaiting
    <2>2. CASE {<<"connected", mem.endpoint>>, <<"online", mem.endpoint>>} \subseteq facts /\ GoTo("identity")
      BY <1>0, <2>1, <2>2 DEF ConnectDone, GoTo, TargetsKnow, Running
    <2>3. CASE \E ps : Finish(ps) /\ ps # {}
      BY <1>0, <2>1, <2>3 DEF TargetsKnow
    <2> QED BY <1>5, <2>2, <2>3 DEF ConnectState, Read
  <1>6. CASE ConnectIdentity
    <2>1. UNCHANGED <<cmd, facts, mem>> /\ exit = Running /\ at = "identity" /\ at' = "ended"
      BY <1>0, <1>6 DEF ConnectIdentity, Awaiting
    <2> QED BY <1>0, <2>1 DEF ConnectDone, TargetsKnow
  <1> QED BY <1>2, <1>3, <1>4, <1>5, <1>6 DEF Connect

LEMMA PairKnows == ASSUME TargetsKnow, Pair PROVE TargetsKnow'
  <1>0. cmd.name = "pair" /\ \A ps : Finish(ps) => at' = "ended" /\ exit' # Running /\ (ps # {} => exit' # "0")
    BY FinishFails, FinishIsOver DEF Pair, EndsAs
  <1>1. CASE WirelessInput
    <2>1. TargetsGoOn
      BY <1>0, <1>1 DEF WirelessInput, Decide, Awaiting, GoTo, TargetsGoOn, Running
    <2> QED BY <2>1, TargetsGoOnKeeps
  <1>2. CASE ResolveEndpoint
    <2>1. cmd' = cmd /\ exit = Running
      BY <1>2 DEF ResolveEndpoint, ResolveAdb, Discovered, Decide, Awaiting
    <2>2. (exit' = "0" => cmd.dryRun)
      BY <1>0, <1>2, <2>1 DEF ResolveEndpoint, ResolveAdb, Discovered, Attempt, StartDiscovery,
         Decide, GoTo, Running
    <2> QED BY <1>0, <2>1, <2>2 DEF TargetsKnow
  <1>3. CASE PairAttempt
    <2>1. PICK r \in Ends, refused \in BOOLEAN :
            /\ IF r = "ok" /\ refused THEN UNCHANGED facts
               ELSE HonestEffect(r, facts \cup {<<"paired", mem.endpoint>>})
            /\ Finish(IF r = "ok" /\ ~refused THEN {} ELSE {ProblemOf(r, "adb")})
      BY <1>3 DEF PairAttempt
    <2>2. UNCHANGED <<cmd, mem>> /\ exit = Running
      BY <1>3 DEF PairAttempt, Awaiting
    <2>3. exit' = "0" => facts' = facts \cup {<<"paired", mem.endpoint>>}
      BY <1>0, <2>1 DEF HonestEffect
    <2> QED BY <1>0, <2>2, <2>3 DEF PairDone, TargetsKnow
  <1> QED BY <1>1, <1>2, <1>3 DEF Pair

LEMMA TargetsKnowSteps == ASSUME TargetsKnow, TargetNext PROVE TargetsKnow'
  <1>1. CASE cmd.name \in {"doctor", "devices", "discover"}
    <2>1. cmd' = cmd
      BY <1>1 DEF TargetNext, Doctor, Devices, Ports, Discover, Connect, Pair, MdnsStep,
         HardwareStep, ResolveAdb, Read, OptionalProbe, Inspected, Discovered, Decide
    <2> QED BY <1>1, <2>1 DEF TargetsKnow
  <1>2. CASE Ports \/ Connect \/ Pair
    BY <1>2, PortsKnow, ConnectKnows, PairKnows
  <1>3. CASE MdnsStep("inspect") \/ MdnsStep("discover") \/ HardwareStep
    BY <1>3, InspectionGoesOn, TargetsGoOnKeeps
  <1> QED BY <1>1, <1>2, <1>3 DEF TargetNext, Doctor, Devices, Discover

-----------------------------------------------------------------------------
(* Success of the commands of app-commands.ts *)

\* The places that belong to one action,
AppPlaces ==
  cmd.name = "app" =>
    /\ at \in {"artifact", "before", "prior", "install", "after", "info"} => cmd.action = "install"
    /\ at \in {"clear", "cleared"} => cmd.action = "clear-data"
    /\ at \in {"uninstall", "removed"} => cmd.action = "uninstall"
    /\ at \in {"stop", "stopped"} => cmd.action \in {"stop", "restart"}
    /\ at \in {"activity?", "activity", "launch", "foreground", "lock"} => cmd.action \in {"launch", "restart"}
    /\ at = "list" => cmd.action = "list"
    /\ at = "resolved" => cmd.action = "resolve"
    /\ at \in {"info-active", "info-package"} => cmd.action = "info"

\* what an installation knows of what was there before it,
Old(app) == <<"installed", app, "old">>
InstallKnows ==
  cmd.name = "app" =>
    /\ at = "prior" => cmd.local = "resolved"
    /\ at \in {"install", "after", "info"} /\ cmd.local # "resolved" =>
         \A app \in Apps : Old(app) \in facts => app \in mem.names
    /\ at \in {"install", "after", "info"} /\ cmd.local = "resolved" =>
         \/ mem.prior \in {"failed", "installed"}
         \/ mem.prior = "absent" /\ Old("want") \notin facts
    /\ at = "info" => mem.app \in Apps /\ IF cmd.local = "resolved" THEN mem.app = "want" ELSE mem.app \notin mem.names

\* and what a command that has ended with zero has reached.
AppReached == exit = "0" /\ cmd.name \in {"app", "open"} => cmd.dryRun \/ AppDone

AppFields == cmd.name \in {"app", "open"} => {"app", "prior", "names", "target", "mdns", "hardware"} \subseteq DOMAIN mem

AppInv == AppPlaces /\ InstallKnows /\ AppReached /\ AppFields

LEMMA AppBegins == AppInit => AppInv
  BY DEF AppInit, CommandInit, Running, AppMemory, TargetMemory, Amended, AppInv, AppPlaces,
         InstallKnows, AppReached, AppFields

\* The steps every command that needs a target or an application begins with.
Beginning(places) ==
  /\ UNCHANGED <<cmd, facts>> /\ exit = Running /\ exit' # "0" /\ at' \in places
  /\ DOMAIN mem' = DOMAIN mem
  /\ \A x \in DOMAIN mem \ {"mdns", "hardware", "asked", "target", "app"} : mem'[x] = mem[x]

LEMMA ReadyTargetBegins ==
  ASSUME NEW first, ReadyTarget(first) PROVE Beginning({"devices", "inspect", first, "ended"})
  <1>0. /\ \A ps : Finish(ps) /\ ps # {} => at' = "ended" /\ exit' # "0"
        /\ \A step : GoTo(step) => at' = step /\ exit' = exit
        /\ Running # "0"
    BY FinishFails DEF GoTo, Running
  <1>1. ASSUME NEW ps, Unready(ps), ps # {} PROVE mem' = mem /\ at' = "ended" /\ exit' # "0"
    BY <1>0, <1>1 DEF Unready
  <1>2. ASSUME NEW fields, Keep(fields), DOMAIN fields \subseteq {"mdns", "hardware", "asked", "target"}
        PROVE  DOMAIN mem' = DOMAIN mem /\ \A x \in DOMAIN mem \ {"mdns", "hardware", "asked", "target"} : mem'[x] = mem[x]
    BY <1>2 DEF Keep
  <1>3. CASE Decide("adb", IF cmd.adb THEN GoTo("devices") /\ UNCHANGED mem ELSE Unready({"environment"}))
    BY <1>0, <1>1, <1>3 DEF Decide, Awaiting, Beginning
  <1>4. CASE /\ Awaiting("devices") /\ UNCHANGED <<cmd, signal, facts>>
             /\ \E r \in Ends : Settles(r) /\ IF r = "ok" THEN StartInspect("features") ELSE Unready({ProblemOf(r, "adb")})
    <2>1. StartInspect("features") => Beginning({"devices", "inspect", first, "ended"})
      BY <1>0, <1>2, <1>4 DEF StartInspect, Awaiting, Beginning
    <2> QED BY <1>1, <1>4, <2>1 DEF Awaiting, Beginning
  <1>5. CASE MdnsStep("inspect")
    <2>1. PICK next : Keep([mdns |-> next])
      BY <1>5 DEF MdnsStep
    <2>2. DOMAIN [mdns |-> next] \subseteq {"mdns", "hardware", "asked", "target"}
      OBVIOUS
    <2> QED BY <1>0, <1>2, <1>5, <2>1, <2>2 DEF MdnsStep, Awaiting, Beginning
  <1>6. CASE HardwareStep
    <2>1. \E fields : Keep(fields) /\ DOMAIN fields \subseteq {"mdns", "hardware", "asked", "target"}
      <3>1. CASE Keep([hardware |-> "ok"])
        BY <3>1
      <3>2. CASE \E r, answered : Keep([hardware |-> IF r = "aborted" THEN "aborted" ELSE "ok", asked |-> answered])
        BY <3>2
      <3> QED BY <1>6, <3>1, <3>2 DEF HardwareStep
    <2>2. UNCHANGED <<cmd, facts, at, exit>> /\ Awaiting("inspect")
      BY <1>6 DEF HardwareStep
    <2> QED BY <1>0, <1>2, <2>1, <2>2 DEF Awaiting, Beginning
  <1>7. CASE Decide("inspect",
       /\ mem.mdns \in Ends /\ mem.hardware \in Ends
       /\ LET choice == SelectTarget(cmd.devices, SeenIdentity, cmd.select)
          IN  IF "aborted" \in {mem.mdns, mem.hardware} THEN Unready({"interrupted"})
              ELSE IF choice.kind # "selected" THEN Unready({"target"})
              ELSE GoTo(first) /\ Keep([target |-> choice]))
    <2>1. \A choice : Keep([target |-> choice]) =>
            DOMAIN mem' = DOMAIN mem /\ \A x \in DOMAIN mem \ {"mdns", "hardware", "asked", "target"} : mem'[x] = mem[x]
      BY <1>2
    <2>2. \/ \E choice : GoTo(first) /\ Keep([target |-> choice])
          \/ \E ps : Unready(ps) /\ ps # {}
      BY <1>7 DEF Decide
    <2> QED BY <1>0, <1>1, <1>7, <2>1, <2>2 DEF Decide, Awaiting, Beginning
  <1> QED BY <1>3, <1>4, <1>5, <1>6, <1>7 DEF ReadyTarget

LEMMA RequireAppBegins ==
  ASSUME NEW next, RequireApp(next) PROVE Beginning({"packages", next, "ended"})
  <1>0. /\ \A ps : Finish(ps) /\ ps # {} => at' = "ended" /\ exit' # "0"
        /\ \A step : GoTo(step) => at' = step /\ exit' = exit
        /\ Running # "0"
    BY FinishFails DEF GoTo, Running
  <1>1. ASSUME NEW names, Identified(names, next), exit = Running, UNCHANGED <<cmd, facts>> PROVE Beginning({"packages", next, "ended"})
    <2>1. ASSUME NEW app, Keep([app |-> app])
          PROVE  DOMAIN mem' = DOMAIN mem /\ \A x \in DOMAIN mem \ {"app"} : mem'[x] = mem[x]
      BY <2>1 DEF Keep
    <2> QED BY <1>0, <1>1, <2>1 DEF Identified, Beginning
  <1>2. CASE Decide("identify", IF cmd.local = "none" THEN GoTo("packages") /\ UNCHANGED mem ELSE Identified({}, next))
    BY <1>0, <1>1, <1>2 DEF Decide, Awaiting, Beginning
  <1>3. CASE Read("packages", "adb", Identified(InstalledNames, next))
    BY <1>0, <1>1, <1>3 DEF Read, Awaiting, Beginning
  <1> QED BY <1>2, <1>3 DEF RequireApp

\* A step after which neither an installation nor what it has seen is at stake.
AppAside == cmd' = cmd /\ DOMAIN mem' = DOMAIN mem /\ exit' # "0" /\ at' \notin {"prior", "install", "after", "info"} /\ AppPlaces'

LEMMA AppAsideKeeps == AppInv /\ AppAside => AppInv'
  BY DEF AppInv, AppAside, InstallKnows, AppReached, AppFields

LEMMA AppBeginningKeeps ==
  ASSUME AppInv, cmd.name \in {"app", "open"},
         \/ ReadyTarget(CASE cmd.action = "install" -> "artifact" [] cmd.action = "list" -> "list" [] OTHER -> "identify")
         \/ cmd.name = "open" /\ ReadyTarget("open")
         \/ cmd.action = "resolve" /\ RequireApp("resolved")
         \/ cmd.action # "resolve" /\ RequireApp("action")
  PROVE  AppInv'
  <1>1. \E first : /\ Beginning({"devices", "inspect", "packages", first, "ended"})
                   /\ \/ first \in {"identify", "open", "action"} \/ (first = "artifact" /\ cmd.action = "install")
                      \/ (first = "list" /\ cmd.action = "list") \/ (first = "resolved" /\ cmd.action = "resolve")
    <2>1. ASSUME NEW first, ReadyTarget(first) \/ RequireApp(first)
          PROVE  Beginning({"devices", "inspect", "packages", first, "ended"})
      BY <2>1, ReadyTargetBegins, RequireAppBegins DEF Beginning
    <2> QED BY <2>1
  <1>2. AppAside
    BY <1>1 DEF Beginning, AppAside, AppPlaces
  <1> QED BY <1>2, AppAsideKeeps

\* A step that ends with what the action promises.
LEMMA AppEnds ==
  ASSUME AppInv, cmd' = cmd, DOMAIN mem' = DOMAIN mem, at' = "ended", exit' = "0" => (cmd.dryRun \/ AppDone)'
  PROVE  AppInv'
  BY DEF AppInv, AppPlaces, InstallKnows, AppReached, AppFields

LEMMA ChangeIsAside ==
  ASSUME AppInv, cmd.name \in {"app", "open"}, NEW step, NEW new, NEW next,
         Change(step, new, GoTo(next) /\ UNCHANGED mem),
         next \notin {"prior", "install", "after", "info"}, AppPlaces /\ at = step /\ at' = next => AppPlaces'
  PROVE  AppInv'
  <1>1. cmd' = cmd /\ mem' = mem /\ exit = Running /\ at = step
    BY DEF Change, Awaiting
  <1>2. exit' # "0" /\ at' \in {next, "ended"}
    BY <1>1, FinishFails DEF Change, GoTo, Running
  <1>3. AppAside
    BY <1>1, <1>2 DEF AppAside, AppPlaces, AppInv
  <1> QED BY <1>3, AppAsideKeeps

LEMMA StopAndLaunchReach ==
  ASSUME AppInv, cmd.name = "app",
         \/ StopApp((IF cmd.action = "stop" THEN Finish({}) ELSE GoTo("activity?")) /\ UNCHANGED mem)
         \/ LaunchApp
  PROVE  AppInv'
  <1>0. /\ \A ps : Finish(ps) => at' = "ended" /\ (ps # {} => exit' # "0")
        /\ \A step : GoTo(step) => at' = step /\ exit' = exit
        /\ Running # "0"
    BY FinishFails, FinishIsOver DEF EndsAs, GoTo, Running
  <1>1. CASE Change("stop", Stopped(mem.app), GoTo("stopped") /\ UNCHANGED mem)
    <2>1. AppPlaces /\ at = "stop" /\ at' = "stopped" /\ cmd' = cmd => AppPlaces'
      BY DEF AppPlaces
    <2> QED BY <1>1, <2>1, ChangeIsAside DEF Change
  <1>2. CASE /\ Awaiting("stopped") /\ UNCHANGED <<cmd, signal, facts>>
             /\ \E r \in Ends : Settles(r) /\
                  IF r = "ok" /\ <<"running", mem.app>> \notin facts
                  THEN (IF cmd.action = "stop" THEN Finish({}) ELSE GoTo("activity?")) /\ UNCHANGED mem
                  ELSE Finish({"adb"}) /\ UNCHANGED mem
    <2>1. UNCHANGED <<cmd, facts, mem>> /\ exit = Running /\ cmd.action \in {"stop", "restart"}
      BY <1>2 DEF Awaiting, AppInv, AppPlaces
    <2>2. CASE <<"running", mem.app>> \notin facts /\ cmd.action = "stop" /\ Finish({})
      BY <1>0, <2>1, <2>2, AppEnds DEF AppDone
    <2>3. CASE cmd.action # "stop" /\ GoTo("activity?")
      BY <1>0, <2>1, <2>3, AppAsideKeeps DEF AppAside, AppPlaces
    <2>4. CASE Finish({"adb"})
      BY <1>0, <2>1, <2>4, AppEnds
    <2> QED BY <1>2, <2>2, <2>3, <2>4
  <1>3. CASE Decide("activity?", GoTo(IF cmd.activity THEN "launch" ELSE "activity") /\ UNCHANGED mem)
    <2>1. AppAside
      BY <1>0, <1>3 DEF Decide, Awaiting, AppAside, AppInv, AppPlaces
    <2> QED BY <2>1, AppAsideKeeps
  <1>4. CASE /\ Awaiting("activity") /\ UNCHANGED <<cmd, signal, facts, mem>>
             /\ \E r \in Ends, found \in BOOLEAN : Settles(r) /\
                  IF r = "ok" /\ found THEN IF cmd.dryRun THEN Finish({}) ELSE GoTo("launch") ELSE Finish({"adb"})
    <2>1. UNCHANGED <<cmd, facts, mem>> /\ exit = Running /\ cmd.action \in {"launch", "restart"}
      BY <1>4 DEF Awaiting, AppInv, AppPlaces
    <2>2. CASE (cmd.dryRun /\ Finish({})) \/ Finish({"adb"})
      BY <1>0, <2>1, <2>2, AppEnds
    <2>3. CASE GoTo("launch")
      BY <1>0, <2>1, <2>3, AppAsideKeeps DEF AppAside, AppPlaces
    <2> QED BY <1>4, <2>2, <2>3
  <1>5. CASE Change("launch", Started(mem.app), GoTo("foreground") /\ UNCHANGED mem)
    <2>1. AppPlaces /\ at = "launch" /\ at' = "foreground" /\ cmd' = cmd => AppPlaces'
      BY DEF AppPlaces
    <2> QED BY <1>5, <2>1, ChangeIsAside DEF Change
  <1>6. CASE /\ Awaiting("foreground") /\ UNCHANGED <<cmd, signal, facts>>
             /\ \E r \in Ends : Settles(r) /\
                  IF r = "ok" /\ <<"foreground", mem.app>> \in facts THEN Finish({}) /\ UNCHANGED mem
                  ELSE GoTo(IF mem.tries < 4 THEN "foreground" ELSE "lock") /\ Keep([tries |-> mem.tries + 1])
    <2>1. UNCHANGED <<cmd, facts>> /\ exit = Running /\ cmd.action \in {"launch", "restart"}
      BY <1>6 DEF Awaiting, AppInv, AppPlaces
    <2>2. CASE <<"foreground", mem.app>> \in facts /\ Finish({}) /\ UNCHANGED mem
      BY <1>0, <2>1, <2>2, AppEnds DEF AppDone
    <2>3. CASE GoTo(IF mem.tries < 4 THEN "foreground" ELSE "lock") /\ Keep([tries |-> mem.tries + 1])
      <3>1. DOMAIN mem' = DOMAIN mem
        BY <2>3 DEF Keep
      <3> QED BY <1>0, <2>1, <2>3, <3>1, AppAsideKeeps DEF AppAside, AppPlaces
    <2> QED BY <1>6, <2>2, <2>3
  <1>7. CASE /\ Awaiting("lock") /\ UNCHANGED <<cmd, signal, facts, mem>>
             /\ \E r \in Ends : Settles(r) /\ Finish({"adb"})
    BY <1>0, <1>7, AppEnds
  <1> QED BY <1>1, <1>2, <1>3, <1>4, <1>5, <1>6, <1>7 DEF StopApp, LaunchApp

\* Of the fresh ones an application is taken that was not among the names before.
LEMMA FreshIsNew ==
  ASSUME NEW fresh, IdAmong(fresh) = "resolved", cmd.local # "resolved" PROVE TheApp(fresh) \in fresh
  <1>1. cmd.local = "none" /\ fresh # {}
    BY FS_EmptySet DEF IdAmong
  <1> QED BY <1>1 DEF TheApp

LEMMA InstallReaches == ASSUME AppInv, cmd.name = "app", InstallApp PROVE AppInv'
  <1>0. /\ \A ps : Finish(ps) => at' = "ended" /\ (ps # {} => exit' # "0")
        /\ \A step : GoTo(step) => at' = step /\ exit' = exit
        /\ Running # "0"
    BY FinishFails, FinishIsOver DEF EndsAs, GoTo, Running
  <1>a. AppPlaces /\ InstallKnows /\ AppReached /\ {"app", "prior", "names"} \subseteq DOMAIN mem
    BY DEF AppInv, AppFields
  <1>1. CASE Decide("artifact", UNCHANGED mem /\ IF cmd.validArtifacts THEN GoTo("before") ELSE Finish({"input"}))
    <2>1. AppAside
      BY <1>0, <1>a, <1>1 DEF Decide, Awaiting, AppAside, AppPlaces
    <2> QED BY <2>1, AppAsideKeeps
  <1>2. CASE Read("before", "adb",
       IF cmd.dryRun THEN Finish(IF cmd.local = "resolved" THEN {} ELSE {"input"}) /\ UNCHANGED mem
       ELSE GoTo(IF cmd.local = "resolved" THEN "prior" ELSE "install") /\ Keep([names |-> InstalledNames]))
    <2>1. UNCHANGED <<cmd, facts>> /\ exit = Running /\ cmd.action = "install"
      BY <1>a, <1>2 DEF Read, Awaiting, AppPlaces
    <2>2. CASE UNCHANGED mem /\ ((cmd.dryRun /\ Finish({})) \/ \E ps : ps # {} /\ Finish(ps))
      BY <1>0, <2>1, <2>2, AppEnds
    <2>3. CASE GoTo(IF cmd.local = "resolved" THEN "prior" ELSE "install") /\ Keep([names |-> InstalledNames])
      <3>1. DOMAIN mem' = DOMAIN mem /\ mem'.names = InstalledNames
        BY <1>a, <2>3 DEF Keep
      <3>2. AppPlaces' /\ AppReached' /\ AppFields'
        BY <1>0, <2>1, <2>3, <3>1 DEF AppInv, AppPlaces, AppReached, AppFields
      <3>3. \A app \in Apps : Old(app) \in facts' => app \in mem'.names
        BY <2>1, <3>1 DEF InstalledNames, Installed, Old
      <3>4. InstallKnows'
        BY <1>0, <2>1, <2>3, <3>3 DEF InstallKnows
      <3> QED BY <3>2, <3>4 DEF AppInv
    <2> QED BY <1>2, <2>2, <2>3 DEF Read
  <1>3. CASE /\ Awaiting("prior") /\ UNCHANGED <<cmd, signal, facts>>
             /\ \E r \in Ends : Settles(r) /\ GoTo("install") /\
                  Keep([prior |-> IF r # "ok" THEN "failed" ELSE IF Installed("want") THEN "installed" ELSE "absent"])
    <2>1. UNCHANGED <<cmd, facts>> /\ exit = Running /\ cmd.action = "install" /\ at' = "install" /\ exit' = exit
      BY <1>0, <1>a, <1>3 DEF Awaiting, AppPlaces
    <2>2. PICK value \in {"failed", "installed", "absent"} :
            Keep([prior |-> value]) /\ (value = "absent" => ~Installed("want"))
      BY <1>3
    <2>3. DOMAIN mem' = DOMAIN mem /\ mem'.prior = value /\ mem'.names = mem.names
      BY <1>a, <2>2 DEF Keep
    <2>4. AppPlaces' /\ AppReached' /\ AppFields'
      BY <1>0, <2>1, <2>3 DEF AppInv, AppPlaces, AppReached, AppFields
    <2>5. value = "absent" => Old("want") \notin facts'
      BY <2>1, <2>2 DEF Installed, Old
    <2>6. cmd.local = "resolved"
      BY <1>a, <1>3 DEF Awaiting, InstallKnows
    <2> QED BY <2>1, <2>3, <2>4, <2>5, <2>6 DEF AppInv, InstallKnows
  <1>4. CASE Change("install", Without({"installed", "running", "foreground"}, cmd.artifact) \cup {<<"installed", cmd.artifact, "new">>},
                   GoTo("after") /\ UNCHANGED mem)
    <2> DEFINE new == Without({"installed", "running", "foreground"}, cmd.artifact) \cup {<<"installed", cmd.artifact, "new">>}
    <2>1. cmd' = cmd /\ mem' = mem /\ exit = Running /\ at = "install" /\ cmd.action = "install"
      BY <1>a, <1>4 DEF Change, Awaiting, AppPlaces
    <2>2. exit' # "0" /\ at' \in {"after", "ended"} /\ facts' \in {facts, new}
      BY <1>0, <1>4, <2>1, EffectIsOneOf DEF Change
    <2>3. \A app : Old(app) \in facts' => Old(app) \in facts
      BY <2>2 DEF Without, Old
    <2>4. AppPlaces' /\ AppReached' /\ AppFields'
      BY <2>1, <2>2 DEF AppInv, AppPlaces, AppReached, AppFields
    <2> HIDE DEF new
    <2>5. InstallKnows'
      BY <1>a, <2>1, <2>2, <2>3 DEF InstallKnows
    <2> QED BY <2>4, <2>5 DEF AppInv
  <1>5. CASE /\ Awaiting("after") /\ UNCHANGED <<cmd, signal, facts>>
             /\ \E r \in Ends : Settles(r) /\
                  LET fresh == (IF r = "ok" THEN InstalledNames ELSE {}) \ mem.names
                  IN  IF IdAmong(fresh) = "resolved" THEN GoTo("info") /\ Keep([app |-> TheApp(fresh)])
                      ELSE Finish({"adb"}) /\ UNCHANGED mem
    <2>1. UNCHANGED <<cmd, facts>> /\ exit = Running /\ at = "after" /\ cmd.action = "install"
      BY <1>a, <1>5 DEF Awaiting, AppPlaces
    <2>2. CASE Finish({"adb"}) /\ UNCHANGED mem
      BY <1>0, <2>1, <2>2, AppEnds
    <2>3. ASSUME NEW fresh \in SUBSET (Apps \ mem.names), IdAmong(fresh) = "resolved", GoTo("info"), Keep([app |-> TheApp(fresh)])
          PROVE  AppInv'
      <3>1. DOMAIN mem' = DOMAIN mem /\ mem'.app = TheApp(fresh) /\ mem'.names = mem.names /\ mem'.prior = mem.prior
        BY <1>a, <2>3 DEF Keep
      <3>2. IF cmd.local = "resolved" THEN TheApp(fresh) = "want" ELSE TheApp(fresh) \in Apps \ mem.names
        BY <2>3, FreshIsNew DEF TheApp
      <3>3. AppPlaces' /\ AppReached' /\ AppFields'
        BY <1>0, <2>1, <2>3, <3>1 DEF AppInv, AppPlaces, AppReached, AppFields
      <3>4. InstallKnows'
        BY <1>0, <1>a, <2>1, <2>3, <3>1, <3>2 DEF InstallKnows, Apps
      <3> QED BY <3>3, <3>4 DEF AppInv
    <2>4. InstalledNames \subseteq Apps
      BY DEF InstalledNames
    <2> QED BY <1>5, <2>2, <2>3, <2>4
  <1>6. CASE /\ Awaiting("info") /\ UNCHANGED <<cmd, signal, facts, mem>>
             /\ \E r \in Ends : Settles(r) /\ Finish(IF r = "ok" /\ InstallationChanged THEN {} ELSE {"adb"})
    <2>1. UNCHANGED <<cmd, facts, mem>> /\ exit = Running /\ at = "info" /\ cmd.action = "install"
      BY <1>a, <1>6 DEF Awaiting, AppPlaces
    <2>2. InstallationChanged => mem.prior = "failed" \/ <<"installed", mem.app, "new">> \in facts
      BY <1>a, <2>1 DEF InstallationChanged, InstallKnows, Installed, Old
    <2>3. at' = "ended" /\ (exit' = "0" => InstallationChanged)
      BY <1>0, <1>6
    <2> QED BY <2>1, <2>2, <2>3, AppEnds DEF AppDone
  <1> QED BY <1>1, <1>2, <1>3, <1>4, <1>5, <1>6 DEF InstallApp

LEMMA ClearDataReaches == ASSUME AppInv, cmd.name = "app", ClearData PROVE AppInv'
  <1>0. /\ \A ps : Finish(ps) => at' = "ended" /\ (ps # {} => exit' # "0")
        /\ \A step : GoTo(step) => at' = step /\ exit' = exit
        /\ Running # "0"
    BY FinishFails, FinishIsOver DEF EndsAs, GoTo, Running
  <1>1. CASE \E r \in Ends, refused \in BOOLEAN : Ended("clear", r,
       /\ IF r = "ok" /\ refused THEN UNCHANGED facts
          ELSE Effect(r, {f \in Stopped(mem.app) : f # <<"data", mem.app>>})
       /\ GoTo("cleared") /\ Keep([done |-> IF r = "ok" /\ refused THEN "failed" ELSE r]))
    <2>1. \A done : Keep([done |-> done]) => DOMAIN mem' = DOMAIN mem
      BY DEF Keep
    <2>2. cmd' = cmd /\ exit = Running /\ at = "clear" /\ GoTo("cleared") /\ DOMAIN mem' = DOMAIN mem
      BY <1>1, <2>1 DEF Ended, Awaiting
    <2> QED BY <1>0, <2>2, AppAsideKeeps DEF AppAside, AppInv, AppPlaces
  <1>2. CASE \E r \in Ends : Ended("cleared", r,
       /\ Finish(IF mem.done = "ok" /\ r = "ok" /\ Installed(mem.app) /\ <<"running", mem.app>> \notin facts
                 THEN {} ELSE {ProblemOf(mem.done, "adb")})
       /\ UNCHANGED <<mem, facts>>)
    <2>1. UNCHANGED <<cmd, facts, mem>> /\ cmd.action = "clear-data"
      BY <1>2 DEF Ended, Awaiting, AppInv, AppPlaces
    <2>2. at' = "ended" /\ (exit' = "0" => Installed(mem.app) /\ <<"running", mem.app>> \notin facts)
      BY <1>0, <1>2 DEF Ended
    <2> QED BY <2>1, <2>2, AppEnds DEF AppDone, Installed
  <1> QED BY <1>1, <1>2 DEF ClearData

LEMMA UninstallReaches == ASSUME AppInv, cmd.name = "app", Uninstall PROVE AppInv'
  <1>0. /\ \A ps : Finish(ps) => at' = "ended" /\ (ps # {} => exit' # "0")
        /\ \A step : GoTo(step) => at' = step /\ exit' = exit
        /\ Running # "0"
    BY FinishFails, FinishIsOver DEF EndsAs, GoTo, Running
  <1>1. CASE \E r \in Ends, refused \in BOOLEAN : Ended("uninstall", r,
       /\ IF r = "ok" /\ refused THEN UNCHANGED facts
          ELSE Effect(r, {f \in facts : f[2] # mem.app})
       /\ GoTo("removed") /\ Keep([done |-> IF r = "ok" /\ refused THEN "failed" ELSE r]))
    <2>1. \A done : Keep([done |-> done]) => DOMAIN mem' = DOMAIN mem
      BY DEF Keep
    <2>2. cmd' = cmd /\ exit = Running /\ at = "uninstall" /\ GoTo("removed") /\ DOMAIN mem' = DOMAIN mem
      BY <1>1, <2>1 DEF Ended, Awaiting
    <2> QED BY <1>0, <2>2, AppAsideKeeps DEF AppAside, AppInv, AppPlaces
  <1>2. CASE \E r \in Ends : Ended("removed", r,
       /\ Finish(IF mem.done = "ok" /\ (r = "ok" => ~Installed(mem.app)) THEN {} ELSE {ProblemOf(mem.done, "adb")})
       /\ Keep([prior |-> r]) /\ UNCHANGED facts)
    <2>1. PICK r \in Ends : /\ Finish(IF mem.done = "ok" /\ (r = "ok" => ~Installed(mem.app)) THEN {} ELSE {ProblemOf(mem.done, "adb")})
                            /\ Keep([prior |-> r])
      BY <1>2 DEF Ended
    <2>2. UNCHANGED <<cmd, facts>> /\ cmd.action = "uninstall"
      BY <1>2 DEF Ended, Awaiting, AppInv, AppPlaces
    <2>3. DOMAIN mem' = DOMAIN mem /\ mem'.prior = r /\ mem'.app = mem.app
      BY <2>1 DEF Keep, AppInv, AppFields
    <2>4. at' = "ended" /\ (exit' = "0" => (r = "ok" => ~Installed(mem.app)))
      BY <1>0, <2>1
    <2> QED BY <2>2, <2>3, <2>4, AppEnds DEF AppDone, Installed
  <1> QED BY <1>1, <1>2 DEF Uninstall

\* An application that comes to the foreground is neither installed nor removed by it.
LEMMA AppearingKeeps == ASSUME AppInv, AppAppears PROVE AppInv'
  <1>1. UNCHANGED <<cmd, at, mem, exit>> /\ exit = Running
    BY DEF AppAppears, command
  <1>2. \A app : Old(app) \in facts' => Old(app) \in facts
    BY DEF AppAppears, Without, Old
  <1>3. AppPlaces' /\ AppReached' /\ AppFields'
    BY <1>1 DEF AppInv, AppPlaces, AppReached, AppFields, Running
  <1>4. InstallKnows'
    BY <1>1, <1>2 DEF AppInv, InstallKnows
  <1> QED BY <1>3, <1>4 DEF AppInv

LEMMA AppKnows == ASSUME AppInv, App PROVE AppInv'
  <1>0. /\ cmd.name = "app"
        /\ \A ps : Finish(ps) => at' = "ended" /\ (ps # {} => exit' # "0")
        /\ \A step : GoTo(step) => at' = step /\ exit' = exit
        /\ Running # "0"
    BY FinishFails, FinishIsOver DEF App, EndsAs, GoTo, Running
  <1>1. CASE Decide("input",
          /\ UNCHANGED mem
          /\ IF cmd.action = "resolve" /\ cmd.local # "none"
             THEN Finish(IF cmd.local = "resolved" THEN {} ELSE {"input"}) ELSE GoTo("adb"))
    <2>1. UNCHANGED <<cmd, facts, mem>> /\ exit = Running
      BY <1>1 DEF Decide, Awaiting
    <2>2. CASE cmd.action = "resolve" /\ at' = "ended"
      BY <1>0, <2>1, <2>2, AppEnds DEF AppDone
    <2>3. CASE GoTo("adb")
      BY <1>0, <2>1, <2>3, AppAsideKeeps DEF AppAside, AppPlaces
    <2> QED BY <1>0, <1>1, <2>2, <2>3 DEF Decide
  <1>2. CASE \/ ReadyTarget(CASE cmd.action = "install" -> "artifact" [] cmd.action = "list" -> "list" [] OTHER -> "identify")
             \/ cmd.action = "resolve" /\ RequireApp("resolved")
             \/ cmd.action # "resolve" /\ RequireApp("action")
    BY <1>0, <1>2, AppBeginningKeeps
  <1>3. CASE Read("list", "adb", Finish({}) /\ UNCHANGED mem) \/ Decide("resolved", Finish({}) /\ UNCHANGED mem)
    <2>1. UNCHANGED <<cmd, facts, mem>> /\ at' = "ended" /\ cmd.action \in {"list", "resolve"}
      BY <1>0, <1>3 DEF Read, Decide, Awaiting, AppInv, AppPlaces
    <2> QED BY <1>0, <2>1, AppEnds DEF AppDone
  <1>4. CASE Decided
    <2>1. UNCHANGED <<cmd, facts, mem>> /\ exit = Running
      BY <1>4 DEF Decided, Decide, Awaiting
    <2>2. CASE \/ cmd.action = "info" /\ GoTo("info-active")
               \/ cmd.action \in {"launch", "restart"} /\ (GoTo("activity") \/ GoTo("activity?"))
               \/ cmd.action \in {"stop", "restart"} /\ GoTo("stop")
               \/ cmd.action = "clear-data" /\ GoTo("clear")
               \/ cmd.action = "uninstall" /\ GoTo("uninstall")
      BY <1>0, <2>1, <2>2, AppAsideKeeps DEF AppAside, AppPlaces
    <2>3. CASE (cmd.dryRun /\ Finish({})) \/ Finish({"input"})
      BY <1>0, <2>1, <2>3, AppEnds
    <2> QED BY <1>4, <2>2, <2>3 DEF Decided, Decide
  <1>5. CASE AppInfo
    <2>1. UNCHANGED <<cmd, facts, mem>> /\ exit = Running /\ cmd.action = "info"
      BY <1>0, <1>5 DEF AppInfo, Look, Awaiting, AppInv, AppPlaces
    <2>2. GoTo("info-package") \/ at' = "ended"
      BY <1>0, <1>5 DEF AppInfo, Look
    <2>3. CASE GoTo("info-package")
      BY <1>0, <2>1, <2>3, AppAsideKeeps DEF AppAside, AppPlaces
    <2>4. CASE at' = "ended"
      BY <1>0, <2>1, <2>4, AppEnds DEF AppDone
    <2> QED BY <2>2, <2>3, <2>4
  <1>6. CASE StopApp((IF cmd.action = "stop" THEN Finish({}) ELSE GoTo("activity?")) /\ UNCHANGED mem) \/ LaunchApp
    BY <1>0, <1>6, StopAndLaunchReach
  <1> QED BY <1>0, <1>1, <1>2, <1>3, <1>4, <1>5, <1>6, InstallReaches, ClearDataReaches, UninstallReaches, AppearingKeeps
             DEF App

LEMMA OpenKnows == ASSUME AppInv, Open PROVE AppInv'
  <1>0. /\ cmd.name = "open" /\ "app" \in DOMAIN mem
        /\ \A ps : Finish(ps) => at' = "ended" /\ (ps # {} => exit' # "0")
        /\ \A step : GoTo(step) => at' = step /\ exit' = exit
        /\ Running # "0"
    BY FinishFails, FinishIsOver DEF Open, AppInv, AppFields, EndsAs, GoTo, Running
  <1>1. CASE Decide("input", UNCHANGED mem /\ IF cmd.validUrl THEN GoTo("adb") ELSE Finish({"input"}))
    <2>1. AppAside
      BY <1>0, <1>1 DEF Decide, Awaiting, AppAside, AppPlaces
    <2> QED BY <2>1, AppAsideKeeps
  <1>2. CASE ReadyTarget("open")
    BY <1>0, <1>2, AppBeginningKeeps
  <1>3. CASE Decide("open", Keep([app |-> "want"]) /\ IF cmd.dryRun THEN Finish({}) ELSE GoTo("start"))
    <2>1. UNCHANGED <<cmd, facts>> /\ exit = Running /\ DOMAIN mem' = DOMAIN mem
      BY <1>3 DEF Decide, Awaiting, Keep
    <2>2. CASE cmd.dryRun /\ Finish({})
      BY <1>0, <2>1, <2>2, AppEnds
    <2>3. CASE GoTo("start")
      BY <1>0, <2>1, <2>3, AppAsideKeeps DEF AppAside, AppPlaces
    <2> QED BY <1>3, <2>2, <2>3 DEF Decide
  <1>4. CASE Change("start", Started("want"), UNCHANGED mem /\ IF cmd.named THEN GoTo("opened") ELSE Finish({}))
    <2>1. UNCHANGED <<cmd, mem>> /\ exit = Running
      BY <1>4 DEF Change, Awaiting
    <2>2. CASE GoTo("opened")
      BY <1>0, <2>1, <2>2, AppAsideKeeps DEF AppAside, AppPlaces
    <2>3. CASE at' = "ended" /\ (exit' = "0" => ~cmd.named)
      BY <1>0, <2>1, <2>3, AppEnds DEF AppDone
    <2>4. GoTo("opened") \/ (at' = "ended" /\ (exit' = "0" => ~cmd.named))
      BY <1>0, <1>4 DEF Change
    <2> QED BY <2>2, <2>3, <2>4
  <1>5. CASE /\ Awaiting("opened") /\ UNCHANGED <<cmd, signal, facts, mem>>
             /\ \E r \in Ends : Settles(r) /\ Finish(IF r = "ok" /\ <<"foreground", "want">> \in facts THEN {} ELSE {"adb"})
    BY <1>0, <1>5, AppEnds DEF AppDone
  <1> QED BY <1>1, <1>2, <1>3, <1>4, <1>5, AppearingKeeps DEF Open

-----------------------------------------------------------------------------
(* Success of the UI commands *)

\* The places of all UI commands, of the keyboard, of a dialog, and of the others but for
\* the last look.
FirstPlaces == {"input", "adb", "devices", "inspect", "selector", "ui-lock", "ui-dump", "none", "ended"}
KeyPlaces == {"keyboard", "key-before", "dismiss", "key-after"}
DialogPlaces == {"dialog", "respond", "responded"}
OtherPlaces == {"query", "waited", "before", "size", "combination", "unicode", "ime-list", "ime-current",
                "plan", "ime-set", "send", "restore", "sent"}

UiFields == {"seen", "previous", "before", "next", "snaps", "todo", "ime", "verified", "method", "window", "tries"} \subseteq DOMAIN mem
UiPlaces ==
  /\ cmd.action = "keyboard" => {at, mem.next} \subseteq FirstPlaces \cup KeyPlaces
  /\ cmd.action = "permission" => {at, mem.next} \subseteq FirstPlaces \cup DialogPlaces
  /\ cmd.action # "keyboard" => {at, mem.next} \cap KeyPlaces = {}
  /\ mem.next \notin {"ime-set", "send"}
UiTodo ==
  cmd.action = "clear" /\ at \in {"ime-set", "send"} =>
    mem.todo \in Seq({"tap", "select", "clear"}) /\ mem.todo # <<>>

\* There is one text, which in a field to be cleared is not its hint, and what was seen
\* last is still so.
OneText ==
  \E text : /\ {f \in facts : f[1] = "text"} = {<<"text", text>>}
            /\ cmd.action = "clear" => text = "" \/ text # cmd.hint
TextSeen == at = "after" => \A text : <<"text", text>> \in facts => mem.seen.text = ShownText(text)

UiReached == IF exit = Running THEN mem.verified = FALSE ELSE exit = "0" => cmd.dryRun \/ UiDone

UiInv == cmd.name = "ui" => UiFields /\ UiPlaces /\ UiTodo /\ OneText /\ TextSeen /\ UiReached

LEMMA UiInvBegins == EvidenceInit => UiInv
  <1> SUFFICES ASSUME EvidenceInit, cmd.name = "ui" PROVE UiInv
    BY DEF UiInv
  <1>1. mem = UiMemory /\ at = "input" /\ exit = Running
    BY DEF EvidenceInit, CommandInit
  <1>2. UiFields /\ mem.next = "none" /\ mem.verified = FALSE
    BY <1>1 DEF UiMemory, AppMemory, TargetMemory, Amended, UiFields
  <1>3. OneText
    <2>1. PICK text : {f \in facts : f[1] = "text"} = {<<"text", text>>}
      BY DEF EvidenceInit
    <2>2. Of("text") = text
      BY <2>1, OfTheOne
    <2> QED BY <2>1, <2>2 DEF EvidenceInit, OneText
  <1>4. UiPlaces /\ UiTodo /\ TextSeen /\ UiReached
    BY <1>1, <1>2 DEF UiPlaces, FirstPlaces, KeyPlaces, UiTodo, TextSeen, UiReached
  <1> QED BY <1>2, <1>3, <1>4 DEF UiInv

\* The text is the one it was.
SameText == {f \in facts' : f[1] = "text"} = {f \in facts : f[1] = "text"}

LEMMA SameTexts ==
  /\ facts' = facts => SameText
  /\ \A kind, value : kind # "text" /\ facts' = With(kind, value) => SameText
  /\ facts' = facts \ {<<"ui-lock", "mine">>} => SameText
  /\ facts' = facts \cup {<<"ui-lock", "mine">>} => SameText
  /\ facts' = facts \ {<<"ui-lock", "other">>} => SameText
  /\ facts' = facts \cup {<<"ui-lock", "other">>} => SameText
  BY DEF SameText, With

LEMMA SameTextKeeps == ASSUME SameText, cmd' = cmd PROVE OneText => OneText'
  BY DEF SameText, OneText

\* A step that neither ends with success nor comes to what the last look has seen.
UiAside ==
  /\ UNCHANGED cmd /\ exit = Running /\ exit' # "0" /\ DOMAIN mem' = DOMAIN mem /\ mem'.verified = mem.verified
  /\ at' # "after" /\ UiPlaces' /\ UiTodo' /\ OneText'

LEMMA UiAsideKeeps == UiInv /\ cmd.name = "ui" /\ UiAside => UiInv'
  BY DEF UiInv, UiAside, UiFields, TextSeen, UiReached

\* A step of a command that is about neither the keyboard nor a dialog, before it looks
\* for the last time, may end it as it likes.
OtherStep ==
  /\ UNCHANGED cmd /\ exit = Running /\ DOMAIN mem' = DOMAIN mem /\ mem'.verified = mem.verified
  /\ at \in OtherPlaces /\ at' \in OtherPlaces \cup {"ui-lock", "ended"} /\ mem'.next \in {mem.next, "after"}

LEMMA OtherKeeps ==
  ASSUME UiInv, cmd.name = "ui", OtherStep, OneText', UiTodo' PROVE UiInv'
  <1>1. cmd.action \notin {"keyboard", "permission"} /\ at' # "after"
    BY DEF UiInv, UiPlaces, OtherStep, OtherPlaces, FirstPlaces, KeyPlaces, DialogPlaces
  <1>2. UiPlaces'
    BY <1>1 DEF UiInv, UiPlaces, OtherStep, OtherPlaces, KeyPlaces
  <1>3. UiReached'
    BY <1>1 DEF UiInv, UiReached, OtherStep, UiDone
  <1> QED BY <1>1, <1>2, <1>3 DEF UiInv, OtherStep, UiFields, TextSeen

\* The steps that do not touch the text.
LEMMA OtherDecisionsKeep ==
  ASSUME UiInv, cmd.name = "ui", UiQuery \/ UiWait \/ UiBefore \/ ScreenSize \/ KeyCombination \/ UnicodeInput
  PROVE  UiInv'
  <1>0. /\ UiFields /\ OneText
        /\ \A ps : Finish(ps) => at' = "ended"
        /\ \A step : GoTo(step) => at' = step
        /\ \A fields : Keep(fields) =>
             /\ DOMAIN mem' = DOMAIN mem
             /\ DOMAIN fields \cap {"verified", "next"} = {} => mem'.verified = mem.verified /\ mem'.next = mem.next
    BY FinishIsOver DEF EndsAs, GoTo, Keep, UiInv, UiFields
  <1>1. /\ \A before : Keep([before |-> before]) => DOMAIN mem' = DOMAIN mem /\ mem'.verified = mem.verified /\ mem'.next = mem.next
        /\ \A ime : Keep([ime |-> ime]) => DOMAIN mem' = DOMAIN mem /\ mem'.verified = mem.verified /\ mem'.next = mem.next
        /\ \A tries : Keep([tries |-> tries, snaps |-> 0, previous |-> None]) =>
             DOMAIN mem' = DOMAIN mem /\ mem'.verified = mem.verified /\ mem'.next = mem.next
    BY <1>0
  <1>2. OtherStep /\ facts' = facts /\ at' \notin {"ime-set", "send"}
    <2>1. CASE UiQuery
      BY <1>0, <2>1 DEF UiQuery, Decide, Awaiting, OtherStep, OtherPlaces
    <2>2. CASE UiWait
      BY <1>0, <1>1, <2>2 DEF UiWait, Decide, Awaiting, OtherStep, OtherPlaces
    <2>3. CASE UiBefore
      BY <1>0, <1>1, <2>3 DEF UiBefore, Decide, Awaiting, OtherStep, OtherPlaces
    <2>4. CASE ScreenSize
      BY <1>0, <2>4 DEF ScreenSize, Read, Awaiting, OtherStep, OtherPlaces
    <2>5. CASE KeyCombination
      BY <1>0, <2>5 DEF KeyCombination, Read, Awaiting, OtherStep, OtherPlaces
    <2>6. CASE UnicodeInput
      BY <1>0, <1>1, <2>6 DEF UnicodeInput, Read, Decide, Awaiting, OtherStep, OtherPlaces
    <2> QED BY <2>1, <2>2, <2>3, <2>4, <2>5, <2>6
  <1>3. OneText' /\ UiTodo'
    BY <1>0, <1>2, SameTexts, SameTextKeeps DEF OtherStep, UiTodo
  <1> QED BY <1>2, <1>3, OtherKeeps

LEMMA WithIsOne ==
  ASSUME NEW kind, NEW value, facts' = With(kind, value) PROVE {f \in facts' : f[1] = kind} = {<<kind, value>>}
  BY DEF With

\* What is left of a sequence of calls when the first is done.
LEMMA CallsLeft ==
  ASSUME NEW S, NEW owed \in Seq(S), owed # <<>>
  PROVE  Head(owed) \in S /\ Tail(owed) \in Seq(S) /\ (Len(owed) # 1 => Tail(owed) # <<>>)
  <1>1. Len(owed) \in Nat \ {0}
    OBVIOUS
  <1>2. Head(owed) \in S /\ Tail(owed) \in Seq(S) /\ Len(Tail(owed)) = Len(owed) - 1
    BY <1>1
  <1>3. Len(<<>>) = 0
    OBVIOUS
  <1>4. ASSUME Tail(owed) = <<>> PROVE Len(owed) = 1
    <2>1. Len(Tail(owed)) = 0
      BY <1>3, <1>4
    <2>2. Len(owed) - 1 = 0
      BY <1>2, <2>1
    <2> QED BY <1>1, <2>2
  <1> QED BY <1>2, <1>4

\* The calls of a clear only empty the field, and the text of another action may be anything.
LEMMA SentKeepsOneText ==
  ASSUME OneText, cmd' = cmd, NEW call, cmd.action = "clear" => call \in {"tap", "select", "clear"},
         NEW new \in Sent(call), facts' = new
  PROVE  OneText'
  <1>1. CASE facts' = facts \/ \E s : facts' = With("screen", s)
    BY <1>1, SameTexts, SameTextKeeps
  <1>2. ASSUME NEW text, facts' = With("text", text), cmd.action = "clear" => text = "" PROVE OneText'
    <2>1. {f \in facts' : f[1] = "text"} = {<<"text", text>>}
      BY <1>2, WithIsOne
    <2> QED BY <1>2, <2>1 DEF OneText
  <1> QED BY <1>1, <1>2 DEF Sent

LEMMA SendingKeepsText == ASSUME UiInv, cmd.name = "ui", UiPlan \/ ImeSet \/ Send \/ Restore PROVE UiInv'
  <1>0. /\ UiFields /\ OneText /\ UiTodo
        /\ \A ps : Finish(ps) => at' = "ended"
        /\ \A step : GoTo(step) => at' = step /\ exit' = exit
    BY FinishIsOver DEF EndsAs, GoTo, UiInv
  <1>1. \A todo : Keep([todo |-> todo]) =>
          DOMAIN mem' = DOMAIN mem /\ mem'.verified = mem.verified /\ mem'.next = mem.next /\ mem'.todo = todo
    BY <1>0 DEF Keep, UiFields
  <1>2. CASE UiPlan
    <2>1. OtherStep /\ facts' = facts
      BY <1>0, <1>1, <1>2 DEF UiPlan, Decide, Awaiting, OtherStep, OtherPlaces
    <2>2. CASE Keep([todo |-> Calls])
      <3>1. cmd.action = "clear" => Calls = <<"tap", "select", "clear">>
        BY DEF Calls
      <3>2. <<"tap", "select", "clear">> \in Seq({"tap", "select", "clear"}) /\ <<"tap", "select", "clear">> # <<>>
        OBVIOUS
      <3>3. UiTodo'
        BY <1>1, <2>1, <2>2, <3>1, <3>2 DEF OtherStep, UiTodo
      <3>4. OneText'
        BY <1>0, <2>1, SameTexts, SameTextKeeps DEF OtherStep
      <3> QED BY <2>1, <3>3, <3>4, OtherKeeps
    <2>3. CASE at' = "ended"
      BY <1>0, <2>1, <2>3, OtherKeeps, SameTexts, SameTextKeeps DEF OtherStep, UiTodo
    <2> QED BY <1>0, <1>2, <2>2, <2>3 DEF UiPlan, Decide
  <1>3. CASE ImeSet \/ Restore
    <2>1. OtherStep /\ mem' = mem /\ at \in {"ime-set", "restore"} /\ (at' = "send" => at = "ime-set") /\ at' # "ime-set"
      BY <1>0, <1>3 DEF ImeSet, Restore, Note, Awaiting, OtherStep, OtherPlaces
    <2>2. facts' = facts \/ \E value : facts' = With("ime", value)
      <3>1. CASE ImeSet
        BY <3>1, EffectIsOneOf DEF ImeSet
      <3>2. CASE Restore
        BY <3>2, EffectIsOneOf DEF Restore
      <3> QED BY <1>3, <3>1, <3>2
    <2>3. OneText' /\ UiTodo'
      BY <1>0, <2>1, <2>2, SameTexts, SameTextKeeps DEF OtherStep, UiTodo
    <2> QED BY <2>1, <2>3, OtherKeeps
  <1>4. CASE Send
    <2>1. cmd' = cmd /\ exit = Running /\ at = "send"
      BY <1>4 DEF Send, Awaiting
    <2>2. CASE /\ signal /\ cmd.chunks > 1 /\ Of("text") = "part" /\ UNCHANGED <<facts, mem>>
               /\ Note({"adb"}, AfterInput) /\ cut' = TRUE
      <3>1. OtherStep /\ at' \notin {"ime-set", "send"}
        BY <2>1, <2>2 DEF Note, AfterInput, OtherStep, OtherPlaces
      <3> QED BY <1>0, <2>2, <3>1, OtherKeeps, SameTexts, SameTextKeeps DEF OtherStep, UiTodo
    <2>3. CASE \E r \in Ends, new \in Sent(Head(mem.todo)) :
          /\ Settles(r) /\ Effect(r, new)
          /\ IF r # "ok" THEN Note({ProblemOf(r, "adb")}, AfterInput) /\ UNCHANGED mem
             ELSE GoTo(IF Len(mem.todo) = 1 THEN AfterInput ELSE "send") /\ Keep([todo |-> Tail(mem.todo)])
      <3>1. PICK r \in Ends, new \in Sent(Head(mem.todo)) :
          /\ Effect(r, new)
          /\ IF r # "ok" THEN Note({ProblemOf(r, "adb")}, AfterInput) /\ UNCHANGED mem
             ELSE GoTo(IF Len(mem.todo) = 1 THEN AfterInput ELSE "send") /\ Keep([todo |-> Tail(mem.todo)])
        BY <2>3
      <3>2. cmd.action = "clear" => /\ Head(mem.todo) \in {"tap", "select", "clear"}
                                    /\ Tail(mem.todo) \in Seq({"tap", "select", "clear"})
                                    /\ Len(mem.todo) # 1 => Tail(mem.todo) # <<>>
        BY <1>0, <2>1, CallsLeft DEF UiTodo
      <3>3. OneText'
        <4>1. facts' \in {facts, new}
          BY <3>1, EffectIsOneOf
        <4> QED BY <1>0, <2>1, <3>2, <4>1, SentKeepsOneText, SameTexts, SameTextKeeps
      <3>4. OtherStep
        BY <1>0, <1>1, <2>1, <3>1 DEF Note, AfterInput, OtherStep, OtherPlaces
      <3>5. UiTodo'
        <4>1. CASE r # "ok"
          BY <2>1, <3>1, <4>1 DEF Note, AfterInput, UiTodo
        <4>2. CASE r = "ok"
          <5>1. at' = IF Len(mem.todo) = 1 THEN AfterInput ELSE "send"
            BY <1>0, <3>1, <4>2
          <5>2. mem'.todo = Tail(mem.todo)
            BY <1>1, <3>1, <4>2
          <5>3. AfterInput \notin {"ime-set", "send"}
            BY DEF AfterInput
          <5> QED BY <2>1, <3>2, <5>1, <5>2, <5>3 DEF UiTodo
        <4> QED BY <4>1, <4>2
      <3> QED BY <3>3, <3>4, <3>5, OtherKeeps
    <2> QED BY <1>4, <2>2, <2>3 DEF Send
  <1> QED BY <1>2, <1>3, <1>4

LEMMA UiBeginningKeeps == ASSUME UiInv, cmd.name = "ui", UiBegins PROVE UiInv'
  <1>0. /\ UiFields /\ OneText /\ UiPlaces
        /\ \A ps : Finish(ps) /\ ps # {} => at' = "ended" /\ exit' # "0"
        /\ \A step : GoTo(step) => at' = step /\ exit' = exit
        /\ Running # "0"
    BY FinishFails DEF GoTo, Running, UiInv
  <1>1. ASSUME UNCHANGED <<cmd, facts>>, exit = Running, exit' # "0", DOMAIN mem' = DOMAIN mem, mem'.verified = mem.verified,
               UiPlaces', at' \in FirstPlaces \cup KeyPlaces
        PROVE  UiInv'
    <2>1. OneText' /\ UiTodo' /\ at' # "after"
      BY <1>0, <1>1, SameTexts, SameTextKeeps DEF UiTodo, FirstPlaces, KeyPlaces
    <2> QED BY <1>1, <2>1, UiAsideKeeps DEF UiAside
  <1>2. CASE Decide("input", UNCHANGED mem /\ IF cmd.action = "inspect" /\ ~cmd.validSelector THEN Finish({"input"}) ELSE GoTo("adb"))
    <2>1. UNCHANGED <<cmd, facts, mem>> /\ exit = Running /\ exit' # "0" /\ at' \in {"adb", "ended"}
      BY <1>0, <1>2 DEF Decide, Awaiting
    <2>2. UiPlaces'
      BY <1>0, <2>1 DEF UiPlaces, FirstPlaces, KeyPlaces
    <2> QED BY <1>1, <2>1, <2>2 DEF FirstPlaces
  <1>3. CASE ReadyTarget("selector")
    <2>1. Beginning({"devices", "inspect", "selector", "ended"})
      BY <1>3, ReadyTargetBegins
    <2>2. mem'.verified = mem.verified /\ mem'.next = mem.next
      BY <1>0, <2>1 DEF Beginning, UiFields
    <2>3. UiPlaces'
      BY <1>0, <2>1, <2>2 DEF Beginning, UiPlaces, FirstPlaces, KeyPlaces
    <2> QED BY <1>1, <2>1, <2>2, <2>3 DEF Beginning, FirstPlaces
  <1>4. CASE Decide("selector",
          CASE cmd.action = "keyboard" -> ReadKeyboard("key-before")
            [] cmd.action = "permission" -> Observe("dialog")
            [] cmd.action = "inspect" -> Observe("query")
            [] OTHER -> IF ~cmd.validSelector THEN Finish({"input"}) /\ UNCHANGED mem
                        ELSE Observe(CASE cmd.action = "query" -> "query" [] cmd.action = "wait" -> "waited" [] OTHER -> "before"))
    <2>1. UNCHANGED <<cmd, facts>> /\ exit = Running
      BY <1>4 DEF Decide, Awaiting
    <2>2. \/ cmd.action = "keyboard" /\ ReadKeyboard("key-before")
          \/ cmd.action = "permission" /\ Observe("dialog")
          \/ cmd.action \notin {"keyboard", "permission"} /\ \E next \in {"query", "waited", "before"} : Observe(next)
          \/ Finish({"input"}) /\ UNCHANGED mem
      BY <1>4 DEF Decide
    <2>3. \A next : Observe(next) \/ ReadKeyboard(next) =>
            DOMAIN mem' = DOMAIN mem /\ mem'.verified = mem.verified /\ mem'.next = next /\ exit' = exit
      BY <1>0 DEF Observe, ReadKeyboard, GoTo, Keep, UiFields
    <2>4. CASE cmd.action = "keyboard" /\ ReadKeyboard("key-before")
      <3>1. at' = "keyboard" /\ mem'.next = "key-before"
        BY <2>3, <2>4 DEF ReadKeyboard, GoTo
      <3> QED BY <1>0, <1>1, <2>1, <2>3, <2>4, <3>1 DEF UiPlaces, FirstPlaces, KeyPlaces
    <2>5. CASE cmd.action # "keyboard" /\ \E next \in {"query", "waited", "before", "dialog"} :
                 Observe(next) /\ (next = "dialog" <=> cmd.action = "permission")
      <3>1. PICK next \in {"query", "waited", "before", "dialog"} : Observe(next) /\ (next = "dialog" <=> cmd.action = "permission")
        BY <2>5
      <3>2. at' = "ui-lock" /\ mem'.next = next
        BY <2>3, <3>1 DEF Observe, GoTo
      <3> QED BY <1>0, <1>1, <2>1, <2>3, <2>5, <3>1, <3>2 DEF UiPlaces, FirstPlaces, KeyPlaces,
                 DialogPlaces
    <2>6. CASE Finish({"input"}) /\ UNCHANGED mem
      BY <1>0, <1>1, <2>1, <2>6 DEF UiPlaces, FirstPlaces, KeyPlaces
    <2>7. \/ cmd.action = "keyboard" /\ ReadKeyboard("key-before")
          \/ cmd.action # "keyboard" /\ \E next \in {"query", "waited", "before", "dialog"} :
               Observe(next) /\ (next = "dialog" <=> cmd.action = "permission")
          \/ Finish({"input"}) /\ UNCHANGED mem
      BY <2>2
    <2> QED BY <2>4, <2>5, <2>6, <2>7
  <1> QED BY <1>2, <1>3, <1>4 DEF UiBegins

\* The hierarchy that is read for the last time shows the text as it is.
LEMMA HierarchyKeeps == ASSUME UiInv, cmd.name = "ui", UiLock \/ UiDump PROVE UiInv'
  <1>0. /\ UiFields /\ OneText /\ UiPlaces /\ (exit = Running => mem.verified = FALSE)
        /\ \A ps : Finish(ps) /\ ps # {} => at' = "ended" /\ exit' # "0"
        /\ \A step : GoTo(step) => at' = step /\ exit' = exit
        /\ Running # "0"
    BY FinishFails DEF GoTo, Running, UiInv, UiReached
  <1>1. cmd' = cmd /\ exit = Running /\ at \in {"ui-lock", "ui-dump"} /\ OneText'
    <2>1. cmd' = cmd /\ exit = Running /\ at \in {"ui-lock", "ui-dump"}
      BY DEF UiLock, UiDump, Awaiting
    <2>2. facts' \in {facts, facts \ {<<"ui-lock", "mine">>}, facts \cup {<<"ui-lock", "mine">>}}
      BY DEF UiLock, UiDump
    <2> QED BY <1>0, <2>1, <2>2, SameTexts, SameTextKeeps
  <1>2. /\ \A seen : Keep([seen |-> seen]) => /\ DOMAIN mem' = DOMAIN mem /\ mem'.verified = mem.verified /\ mem'.next = mem.next
                                             /\ mem'.todo = mem.todo /\ mem'.seen = seen
        /\ \A previous, snaps : Keep([previous |-> previous, snaps |-> snaps]) =>
             DOMAIN mem' = DOMAIN mem /\ mem'.verified = mem.verified /\ mem'.next = mem.next
    BY <1>0 DEF Keep, UiFields
  <1>3. CASE /\ exit' # "0" /\ at' \in {"ui-lock", "ui-dump", "ended"}
             /\ DOMAIN mem' = DOMAIN mem /\ mem'.verified = mem.verified /\ mem'.next = mem.next
    <2>1. UiPlaces' /\ UiTodo' /\ at' # "after"
      BY <1>0, <1>1, <1>3 DEF UiPlaces, UiTodo, FirstPlaces, KeyPlaces
    <2> QED BY <1>1, <1>3, <2>1, UiAsideKeeps DEF UiAside
  <1>4. CASE UiLock
    BY <1>0, <1>1, <1>3, <1>4 DEF UiLock
  <1>5. CASE GoTo(mem.next) /\ Keep([seen |-> Digest]) /\ UiDump
    <2>1. UiPlaces' /\ DOMAIN mem' = DOMAIN mem /\ mem'.verified = mem.verified /\ mem'.seen = Digest /\ exit' = exit
      BY <1>0, <1>1, <1>2, <1>5 DEF UiPlaces
    <2>2. UiTodo'
      BY <1>0, <1>5, <2>1 DEF UiTodo, UiPlaces
    <2>3. TextSeen'
      <3>1. PICK text : {f \in facts : f[1] = "text"} = {<<"text", text>>}
        BY <1>0 DEF OneText
      <3>2. Of("text") = text /\ facts' = facts \ {<<"ui-lock", "mine">>}
        BY <1>5, <3>1, OfTheOne DEF UiDump
      <3>3. \A other : <<"text", other>> \in facts' => other = text
        BY <3>1, <3>2
      <3>4. mem'.seen.text = ShownText(text) /\ \A other : ShownText(other)' = ShownText(other)
        <4>1. mem'.seen.text = ShownText(Of("text"))
          BY <2>1 DEF Digest
        <4>2. \A other : ShownText(other)' = ShownText(other)
          BY <1>1 DEF ShownText
        <4> QED BY <3>2, <4>1, <4>2
      <3> QED BY <3>3, <3>4 DEF TextSeen
    <2> QED BY <1>0, <1>1, <2>1, <2>2, <2>3 DEF UiInv, UiFields, UiReached
  <1>6. CASE UiDump
    BY <1>0, <1>1, <1>2, <1>3, <1>5, <1>6 DEF UiDump
  <1> QED BY <1>4, <1>6

\* What a fill and a clear say of the field is so.
LEMMA VerifiedIsHeld ==
  ASSUME OneText, TextSeen, at = "after", NEW field \in FieldsSeen, SameScreen
  PROVE  /\ FillVerified(field) = "verified" => <<"text", "new">> \in facts
         /\ cmd.action = "clear" /\ ClearVerified(field) = "verified" => <<"text", "">> \in facts
  <1>1. PICK text : /\ <<"text", text>> \in facts /\ mem.seen.text = ShownText(text)
                    /\ cmd.action = "clear" => text = "" \/ text # cmd.hint
    <2>1. PICK text : /\ {f \in facts : f[1] = "text"} = {<<"text", text>>}
                      /\ cmd.action = "clear" => text = "" \/ text # cmd.hint
      BY DEF OneText
    <2>2. <<"text", text>> \in facts
      BY <2>1
    <2> QED BY <2>1, <2>2 DEF TextSeen
  <1>2. field.text = mem.seen.text /\ field.hint = cmd.hint
    BY DEF FieldsSeen
  <1>3. ASSUME FillVerified(field) = "verified" PROVE text = "new"
    <2>1. mem.seen.text = "new" /\ ~(mem.seen.text = cmd.hint /\ cmd.hint = "new")
      BY <1>2, <1>3 DEF FillVerified
    <2> QED BY <1>1, <2>1 DEF ShownText
  <1>4. ASSUME cmd.action = "clear", ClearVerified(field) = "verified" PROVE text = ""
    <2>1. mem.seen.text \in {"", cmd.hint}
      BY <1>2, <1>4 DEF ClearVerified
    <2> QED BY <1>1, <1>4, <2>1 DEF ShownText
  <1> QED BY <1>1, <1>3, <1>4

LEMMA LastLookKeeps == ASSUME UiInv, cmd.name = "ui", UiAfter PROVE UiInv'
  <1>0. /\ UiFields /\ OneText /\ UiPlaces /\ TextSeen /\ UiReached
        /\ \A ps : Finish(ps) => at' = "ended" /\ exit' # Running /\ (problems \cup ps # {} => exit' # "0")
        /\ Running # "0"
    BY FinishIsOver DEF EndsAs, Running, UiInv
  <1>1. CASE Decide("sent", IF problems # {} THEN Finish({}) /\ UNCHANGED mem ELSE Observe("after"))
    <2>1. cmd' = cmd /\ facts' = facts /\ exit = Running /\ at = "sent"
      BY <1>1 DEF Decide, Awaiting
    <2>2. OtherStep
      <3>1. Observe("after") => DOMAIN mem' = DOMAIN mem /\ mem'.verified = mem.verified /\ mem'.next = "after" /\ at' = "ui-lock"
        BY <1>0 DEF Observe, GoTo, Keep, UiFields
      <3> QED BY <1>0, <1>1, <2>1, <3>1 DEF Decide, OtherStep, OtherPlaces
    <2>3. OneText' /\ at' \in {"ui-lock", "ended"}
      BY <1>0, <1>1, <2>1, SameTexts, SameTextKeeps DEF Decide, Observe, GoTo
    <2> QED BY <2>2, <2>3, OtherKeeps DEF UiTodo
  <1>2. ASSUME NEW field \in FieldsSeen, Decide("after",
         LET outcome == CASE cmd.action = "fill" -> FillVerified(field) [] cmd.action = "clear" -> ClearVerified(field)
                          [] OTHER -> IF mem.seen # mem.before THEN "verified" ELSE "unchanged"
         IN  Keep([verified |-> outcome = "verified"]) /\ Finish(IF outcome = "mismatch" THEN {"adb"} ELSE {}))
        PROVE  UiInv'
    <2>1. cmd' = cmd /\ facts' = facts /\ exit = Running /\ at = "after" /\ at' = "ended" /\ exit' # Running
      BY <1>0, <1>2 DEF Decide, Awaiting
    <2>2. cmd.action \notin {"keyboard", "permission"}
      BY <1>0, <2>1 DEF UiPlaces, FirstPlaces, KeyPlaces, DialogPlaces
    <2>3. PICK verified \in BOOLEAN :
            /\ Keep([verified |-> verified])
            /\ verified /\ cmd.action = "fill" => FillVerified(field) = "verified"
            /\ verified /\ cmd.action = "clear" => ClearVerified(field) = "verified"
      BY <1>2 DEF Decide
    <2>4. DOMAIN mem' = DOMAIN mem /\ mem'.verified = verified /\ mem'.next = mem.next /\ SameScreen' = SameScreen
      BY <1>0, <2>3 DEF Keep, UiFields, SameScreen
    <2>5. UiReached'
      BY <1>0, <1>2, <2>1, <2>2, <2>3, <2>4, VerifiedIsHeld DEF UiReached, UiDone
    <2>6. UiFields' /\ UiPlaces' /\ UiTodo' /\ OneText' /\ TextSeen'
      BY <1>0, <2>1, <2>4, SameTexts, SameTextKeeps DEF UiFields, UiPlaces, UiTodo, TextSeen,
         FirstPlaces, KeyPlaces
    <2> QED BY <2>5, <2>6 DEF UiInv
  <1> QED BY <1>1, <1>2 DEF UiAfter, Decide

\* A step about the keyboard or a dialog that does not end with success.
LEMMA ControlKeeps ==
  ASSUME UiInv, cmd.name = "ui", cmd' = cmd, exit = Running, exit' # "0", DOMAIN mem' = DOMAIN mem, mem'.verified = mem.verified,
         SameText, at' # "after", UiPlaces', cmd.action # "clear" \/ at' \notin {"ime-set", "send"}
  PROVE  UiInv'
  <1>1. OneText' /\ UiTodo'
    BY SameTextKeeps DEF UiInv, UiTodo
  <1> QED BY <1>1, UiAsideKeeps DEF UiAside

\* The end of such a command.
LEMMA ControlEnds ==
  ASSUME UiInv, cmd.name = "ui", cmd' = cmd, exit = Running, exit' # Running, facts' = facts,
         DOMAIN mem' = DOMAIN mem, mem'.verified = mem.verified, mem'.next = mem.next, at' = "ended",
         exit' = "0" => (\/ cmd.dryRun \/ cmd.action \notin {"keyboard", "permission"}
                         \/ cmd.action = "permission" /\ (cmd.query = "respond" => Dialog(mem.seen) # Dialog(mem.before))'
                         \/ cmd.action = "keyboard" /\ (cmd.query = "dismiss" => Agreed("hidden"))')
  PROVE  UiInv'
  <1>1. UiReached'
    BY DEF UiInv, UiReached, UiDone
  <1>2. UiFields' /\ UiPlaces' /\ UiTodo' /\ OneText' /\ TextSeen'
    BY SameTexts, SameTextKeeps
    DEF UiInv, UiFields, UiPlaces, UiTodo, TextSeen, FirstPlaces, KeyPlaces
  <1> QED BY <1>1, <1>2 DEF UiInv

LEMMA KeyboardReaches == ASSUME UiInv, cmd.name = "ui", Keyboard PROVE UiInv'
  <1>0. /\ UiFields /\ UiPlaces
        /\ \A ps : Finish(ps) => at' = "ended" /\ exit' # Running /\ (ps # {} => exit' # "0")
        /\ \A step : GoTo(step) => at' = step /\ exit' = exit
        /\ Running # "0"
    BY FinishFails, FinishIsOver DEF EndsAs, GoTo, Running, UiInv
  <1>a. ASSUME at \in KeyPlaces PROVE cmd.action = "keyboard"
    BY <1>0, <1>a DEF UiPlaces
  <1>1. CASE KeyboardReads
    <2>1. cmd' = cmd /\ facts' = facts /\ exit = Running /\ at = "keyboard" /\ cmd.action = "keyboard"
      BY <1>a, <1>1 DEF KeyboardReads, Decide, Awaiting, KeyPlaces
    <2>2. CASE \E which \in {"method", "window"} : \E value : Keep([x \in {which} |-> value]) /\ UNCHANGED <<at, exit>>
      <3>1. DOMAIN mem' = DOMAIN mem /\ mem'.verified = mem.verified /\ mem'.next = mem.next
        BY <1>0, <2>2 DEF Keep, UiFields
      <3> QED BY <1>0, <2>1, <2>2, <3>1, ControlKeeps, SameTexts DEF UiPlaces
    <2>3. CASE mem' = mem /\ (GoTo(mem.next) \/ Finish({"adb"}))
      BY <1>0, <2>1, <2>3, ControlKeeps, SameTexts DEF UiPlaces, FirstPlaces, KeyPlaces
    <2> QED BY <1>1, <2>2, <2>3 DEF KeyboardReads, Decide
  <1>2. CASE Decide("key-before", UNCHANGED mem /\
       IF ~cmd.supported \/ mem.method # mem.window THEN Finish({"adb"})
       ELSE IF cmd.query = "status" \/ Agreed("hidden") \/ cmd.dryRun THEN Finish({}) ELSE GoTo("dismiss"))
    <2>1. UNCHANGED <<cmd, facts, mem>> /\ exit = Running /\ cmd.action = "keyboard"
      BY <1>a, <1>2 DEF Decide, Awaiting, KeyPlaces
    <2>2. CASE GoTo("dismiss")
      BY <1>0, <2>1, <2>2, ControlKeeps, SameTexts DEF UiPlaces, FirstPlaces, KeyPlaces
    <2>3. CASE Finish({"adb"}) \/ ((cmd.query = "status" \/ Agreed("hidden") \/ cmd.dryRun) /\ Finish({}))
      BY <1>0, <2>1, <2>3, ControlEnds DEF Agreed
    <2> QED BY <1>2, <2>2, <2>3 DEF Decide
  <1>3. CASE \E s \in Screens :
       Change("dismiss", IF Of("keyboard") = "visible" THEN With("keyboard", "hidden") ELSE With("screen", s),
              ReadKeyboard("key-after"))
    <2>1. PICK s \in Screens :
       Change("dismiss", IF Of("keyboard") = "visible" THEN With("keyboard", "hidden") ELSE With("screen", s),
              ReadKeyboard("key-after"))
      BY <1>3
    <2>2. cmd' = cmd /\ exit = Running /\ cmd.action = "keyboard"
      BY <1>a, <2>1 DEF Change, Awaiting, KeyPlaces
    <2>3. facts' = facts \/ facts' = With("keyboard", "hidden") \/ facts' = With("screen", s)
      BY <2>1, EffectIsOneOf DEF Change
    <2>4. CASE ReadKeyboard("key-after")
      <3>1. /\ DOMAIN mem' = DOMAIN mem /\ mem'.verified = mem.verified /\ mem'.next = "key-after"
            /\ at' = "keyboard" /\ exit' = exit
        BY <1>0, <2>4 DEF ReadKeyboard, GoTo, Keep, UiFields
      <3> QED BY <1>0, <2>2, <2>3, <3>1, ControlKeeps, SameTexts DEF UiPlaces, FirstPlaces,
                 KeyPlaces
    <2>5. CASE mem' = mem /\ \E ps : ps # {} /\ Finish(ps)
      BY <1>0, <2>2, <2>3, <2>5, ControlKeeps, SameTexts DEF UiPlaces, FirstPlaces, KeyPlaces
    <2> QED BY <2>1, <2>4, <2>5 DEF Change
  <1>4. CASE Decide("key-after", UNCHANGED mem /\ Finish(IF Agreed("hidden") THEN {} ELSE {"adb"}))
    <2>1. UNCHANGED <<cmd, facts, mem>> /\ exit = Running /\ cmd.action = "keyboard"
      BY <1>a, <1>4 DEF Decide, Awaiting, KeyPlaces
    <2>2. at' = "ended" /\ exit' # Running /\ (exit' = "0" => Agreed("hidden"))
      BY <1>0, <1>4 DEF Decide
    <2> QED BY <2>1, <2>2, ControlEnds DEF Agreed
  <1> QED BY <1>1, <1>2, <1>3, <1>4 DEF Keyboard

LEMMA PermissionReaches == ASSUME UiInv, cmd.name = "ui", Permission PROVE UiInv'
  <1>0. /\ UiFields /\ UiPlaces
        /\ \A ps : Finish(ps) => at' = "ended" /\ exit' # Running /\ (ps # {} => exit' # "0")
        /\ \A step : GoTo(step) => at' = step /\ exit' = exit
        /\ Running # "0"
    BY FinishFails, FinishIsOver DEF EndsAs, GoTo, Running, UiInv
  <1>1. CASE Decide("dialog",
       /\ Keep([before |-> mem.seen])
       /\ IF cmd.query = "inspect" THEN Finish(IF Dialog(mem.seen) = "unsupported" THEN {"adb"} ELSE {})
          ELSE IF Dialog(mem.seen) \in {"absent", "unsupported"} THEN Finish({"adb"})
          ELSE IF ~cmd.usable THEN Finish({"input"}) ELSE IF cmd.dryRun THEN Finish({}) ELSE GoTo("respond"))
    <2>1. UNCHANGED <<cmd, facts>> /\ exit = Running /\ cmd.action # "keyboard"
      BY <1>0, <1>1 DEF Decide, Awaiting, UiPlaces, FirstPlaces, KeyPlaces
    <2>2. DOMAIN mem' = DOMAIN mem /\ mem'.verified = mem.verified /\ mem'.next = mem.next
      BY <1>0, <1>1 DEF Decide, Keep, UiFields
    <2>3. CASE GoTo("respond")
      BY <1>0, <2>1, <2>2, <2>3, ControlKeeps, SameTexts DEF UiPlaces, KeyPlaces, DialogPlaces
    <2>4. CASE (\E ps : ps # {} /\ Finish(ps)) \/ ((cmd.query = "inspect" \/ cmd.dryRun) /\ at' = "ended" /\ exit' # Running)
      BY <1>0, <2>1, <2>2, <2>4, ControlEnds
    <2> QED BY <1>0, <1>1, <2>3, <2>4 DEF Decide
  <1>2. CASE \E s \in Screens : Change("respond", With("screen", s), Observe("responded"))
    <2>1. PICK s \in Screens : Change("respond", With("screen", s), Observe("responded"))
      BY <1>2
    <2>2. cmd' = cmd /\ exit = Running /\ cmd.action # "keyboard"
      BY <1>0, <2>1 DEF Change, Awaiting, UiPlaces, FirstPlaces, KeyPlaces
    <2>3. facts' = facts \/ facts' = With("screen", s)
      BY <2>1, EffectIsOneOf DEF Change
    <2>4. CASE Observe("responded")
      <3>1. /\ DOMAIN mem' = DOMAIN mem /\ mem'.verified = mem.verified /\ mem'.next = "responded"
            /\ at' = "ui-lock" /\ exit' = exit
        BY <1>0, <2>4 DEF Observe, GoTo, Keep, UiFields
      <3> QED BY <1>0, <2>2, <2>3, <3>1, ControlKeeps, SameTexts DEF UiPlaces, FirstPlaces,
                 KeyPlaces, DialogPlaces
    <2>5. CASE mem' = mem /\ \E ps : ps # {} /\ Finish(ps)
      BY <1>0, <2>2, <2>3, <2>5, ControlKeeps, SameTexts DEF UiPlaces, FirstPlaces, KeyPlaces
    <2> QED BY <2>1, <2>4, <2>5 DEF Change
  <1>3. CASE Decide("responded", UNCHANGED mem /\
       Finish(IF mem.seen # mem.before /\ Dialog(mem.seen) # Dialog(mem.before) THEN {} ELSE {"adb"}))
    <2>1. UNCHANGED <<cmd, facts, mem>> /\ exit = Running /\ cmd.action # "keyboard"
      BY <1>0, <1>3 DEF Decide, Awaiting, UiPlaces, FirstPlaces, KeyPlaces
    <2>2. at' = "ended" /\ exit' # Running /\ (exit' = "0" => Dialog(mem.seen) # Dialog(mem.before))
      BY <1>0, <1>3 DEF Decide
    <2> QED BY <2>1, <2>2, ControlEnds DEF Dialog
  <1> QED BY <1>1, <1>2, <1>3 DEF Permission

\* What the device does by itself leaves the text as it is.
LEMMA UiMovingKeeps == ASSUME UiInv, cmd.name = "ui", UiMoves PROVE UiInv'
  <1>1. UNCHANGED <<cmd, at, mem, exit>> /\ exit = Running
    BY DEF UiMoves, command
  <1>2. SameText
    <2>1. CASE \E s \in Screens \ {Of("screen")} : facts' = With("screen", s)
      BY <2>1, SameTexts
    <2>2. CASE cmd.action = "keyboard" /\ \E v \in {"visible", "hidden"} \ {Of("keyboard")} : facts' = With("keyboard", v)
      BY <2>2, SameTexts
    <2>3. CASE facts' \in {facts \ {<<"ui-lock", "other">>}, facts \cup {<<"ui-lock", "other">>}}
      BY <2>3, SameTexts
    <2> QED BY <2>1, <2>2, <2>3 DEF UiMoves
  <1>3. OneText' /\ TextSeen'
    <2>1. \A text : <<"text", text>> \in facts' => <<"text", text>> \in facts
      BY <1>2 DEF SameText
    <2>2. \A text : ShownText(text)' = ShownText(text)
      BY <1>1 DEF ShownText
    <2> QED BY <1>1, <1>2, <2>1, <2>2, SameTextKeeps DEF UiInv, TextSeen
  <1>4. UiFields' /\ UiPlaces' /\ UiTodo' /\ UiReached'
    BY <1>1 DEF UiInv, UiFields, UiPlaces, UiTodo, UiReached
  <1> QED BY <1>3, <1>4 DEF UiInv

LEMMA UiKnows == ASSUME UiInv, Ui PROVE UiInv'
  <1>1. cmd.name = "ui"
    BY DEF Ui
  <1>2. \/ UiBegins \/ UiMoves \/ UiLock \/ UiDump \/ UiQuery \/ UiWait
        \/ UiBefore \/ ScreenSize \/ KeyCombination \/ UnicodeInput \/ UiPlan
        \/ ImeSet \/ Send \/ Restore \/ UiAfter \/ Keyboard \/ Permission
    BY DEF Ui, UiBegins
  <1> QED BY <1>1, <1>2, UiBeginningKeeps, UiMovingKeeps, HierarchyKeeps, OtherDecisionsKeep, SendingKeepsText,
             LastLookKeeps, KeyboardReaches, PermissionReaches

-----------------------------------------------------------------------------
(* Success of a capture and of a bundle *)

EvidenceFile == <<"file", "evidence">>

\* From where on the file is there, or what went wrong instead is known.
FileThere ==
  /\ at \in {"unlink", "sha256"} => EvidenceFile \in facts
  /\ at \in {"invalid", "discard-pull"} => problems # {}
  /\ at \in {"kept", "undo"} => EvidenceFile \in facts \/ problems # {}
  /\ at = "cleanup" => EvidenceFile \in facts \/ problems # {} \/ mem.thrown

FileInv ==
  cmd.name \in {"capture", "bundle"} =>
    /\ "thrown" \in DOMAIN mem /\ (cmd.name = "capture" => cmd.action \in {"screenshot", "record"})
    /\ IF exit = Running THEN FileThere ELSE exit = "0" => EvidenceFile \in facts

LEMMA FileInvBegins == EvidenceInit => FileInv
  <1>1. EvidenceInit /\ cmd.name \in {"capture", "bundle"} => mem = EvidenceMemory /\ at = "input" /\ exit = Running
    BY DEF EvidenceInit, CommandInit
  <1>2. "thrown" \in DOMAIN EvidenceMemory
    BY DEF EvidenceMemory, Amended
  <1> QED BY <1>1, <1>2 DEF EvidenceInit, FileInv, FileThere

\* A step that goes on, and one that ends.
FileStep ==
  /\ UNCHANGED cmd /\ exit = Running /\ DOMAIN mem' = DOMAIN mem
  /\ IF exit' = Running THEN FileThere' ELSE exit' = "0" => EvidenceFile \in facts'

LEMMA FileStepKeeps == FileInv /\ FileStep => FileInv'
  BY DEF FileInv, FileStep

LEMMA CommitKeepsFile ==
  ASSUME FileInv, cmd.name = "capture", NEW next, NEW thrown, Commit(next, thrown),
         <<next, thrown>> \in {<<"kept", "caught">>, <<"cleanup", "thrown">>}
  PROVE  FileInv'
  <1>1. UNCHANGED <<cmd, mem, problems, exit>> /\ exit = Running /\ FileThere
    BY DEF Commit, Decide, Awaiting, GoTo, FileInv
  <1>2. next \in {"kept", "cleanup"} /\ thrown \in {"caught", "thrown"}
    OBVIOUS
  <1>3. \/ at' \in {"sha256", "unlink", next} /\ EvidenceFile \in facts'
        \/ at' = thrown
    <2>1. CASE /\ Awaiting("commit") /\ UNCHANGED <<cmd, signal, cut, mem>>
               /\ \/ facts' \in MoveToName /\ GoTo(IF cmd.force THEN "sha256" ELSE "unlink")
                  \/ ("fail" \in Faults \/ MoveToName = {}) /\ UNCHANGED facts /\ GoTo(thrown)
      BY <2>1 DEF GoTo, MoveToName, EvidenceFile
    <2>2. CASE /\ Awaiting("unlink") /\ UNCHANGED <<cmd, signal, cut, mem>>
               /\ \/ facts' = facts \ {Temp} /\ GoTo("sha256")
                  \/ "fail" \in Faults /\ UNCHANGED facts /\ GoTo(thrown)
      BY <1>1, <2>2 DEF Awaiting, GoTo, FileThere, EvidenceFile, Temp
    <2>3. CASE Decide("sha256", UNCHANGED mem /\ (GoTo(next) \/ ("fail" \in Faults /\ GoTo(thrown))))
      BY <1>1, <2>3 DEF Decide, Awaiting, GoTo, FileThere
    <2> QED BY <2>1, <2>2, <2>3 DEF Commit
  <1>4. FileStep
    BY <1>1, <1>2, <1>3 DEF FileStep, FileThere
  <1> QED BY <1>4, FileStepKeeps

LEMMA CaptureKnows == ASSUME FileInv, Capture PROVE FileInv'
  <1>0. /\ cmd.name = "capture" /\ "thrown" \in DOMAIN mem /\ cmd.action \in {"screenshot", "record"}
        /\ \A ps : Finish(ps) => at' = "ended" /\ exit' # Running /\ (problems \cup ps # {} => exit' # "0")
        /\ \A step : GoTo(step) => at' = step /\ UNCHANGED <<exit, problems>>
        /\ \A ps, step : Note(ps, step) => at' = step /\ problems' = problems \cup ps /\ UNCHANGED exit
        /\ Running # "0"
    BY FinishIsOver DEF Capture, FileInv, EndsAs, GoTo, Note, Running
  <1>1. exit = Running => FileThere
    BY <1>0 DEF FileInv
  <1>2. CASE ForeignFile
    <2>1. UNCHANGED <<cmd, at, mem, problems, exit>> /\ exit = Running /\ facts \subseteq facts'
      BY <1>2 DEF ForeignFile, command
    <2> QED BY <1>1, <2>1, FileStepKeeps DEF FileStep, FileThere
  <1>3. CASE Decide("input", UNCHANGED mem /\ IF CaptureRefused THEN Finish({"input"}) ELSE GoTo("adb"))
    BY <1>0, <1>3, FileStepKeeps DEF Decide, Awaiting, FileStep, FileThere
  <1>4. CASE ReadyTarget("prepare")
    <2>1. Beginning({"devices", "inspect", "prepare", "ended"})
      BY <1>4, ReadyTargetBegins
    <2> QED BY <2>1, FileStepKeeps DEF Beginning, FileStep, FileThere
  <1>5. CASE Prepare(cmd.action)
    BY <1>0, <1>5, FileStepKeeps DEF Prepare, Decide, Awaiting, FileStep, FileThere
  <1>6. CASE Screenshot
    <2>1. cmd' = cmd /\ mem' = mem /\ exit = Running
      BY <1>6 DEF Screenshot, Discard, DiscardFails, Decide, Awaiting
    <2>2. CASE DiscardInvalid
      <3>1. at = "invalid" /\ (Finish({}) \/ GoTo("caught"))
        BY <2>2 DEF DiscardInvalid, Discard, DiscardFails, Awaiting
      <3> QED BY <1>0, <1>1, <2>1, <3>1, FileStepKeeps DEF FileStep, FileThere
    <2>3. CASE at' \in {"transform", "commit"} /\ UNCHANGED exit
      BY <2>1, <2>3, FileStepKeeps DEF FileStep, FileThere
    <2>4. CASE \E p : Note({p}, "invalid")
      BY <1>0, <2>1, <2>4, FileStepKeeps DEF FileStep, FileThere
    <2> QED BY <1>0, <1>6, <2>2, <2>3, <2>4 DEF Screenshot, Decide, DiscardInvalid
  <1>7. CASE Commit("kept", "caught") \/ Commit("cleanup", "thrown")
    BY <1>0, <1>7, CommitKeepsFile
  <1>8. CASE ScreenRecord
    <2>1. cmd' = cmd /\ exit = Running
      BY <1>8 DEF ScreenRecord, Discard, DiscardFails, Decide, Awaiting
    <2>2. CASE mem' = mem /\ Finish({"input"})
      BY <1>0, <2>1, <2>2, FileStepKeeps DEF FileStep
    <2>3. CASE mem' = mem /\ (GoTo("pull") \/ GoTo("commit") \/ \E p : Note({p}, "cleanup") \/ Note({p}, "discard-pull"))
      <3>1. exit' = Running /\ (at' \in {"pull", "commit"} \/ (at' \in {"cleanup", "discard-pull"} /\ problems' # {}))
        BY <1>0, <2>1, <2>3
      <3> QED BY <2>1, <2>3, <3>1, FileStepKeeps DEF FileStep, FileThere
    <2>4. CASE DiscardPulled
      <3>1. at = "discard-pull" /\ mem' = mem /\ (GoTo("cleanup") \/ GoTo("thrown"))
        BY <2>4 DEF DiscardPulled, Discard, DiscardFails, Awaiting
      <3> QED BY <1>0, <1>1, <2>1, <3>1, FileStepKeeps DEF FileStep, FileThere
    <2>5. CASE GoTo("cleanup") /\ Keep([thrown |-> TRUE])
      <3>1. DOMAIN mem' = DOMAIN mem /\ mem'.thrown
        BY <1>0, <2>5 DEF Keep
      <3> QED BY <1>0, <2>1, <2>5, <3>1, FileStepKeeps DEF FileStep, FileThere
    <2>6. CASE /\ Awaiting("cleanup") /\ UNCHANGED <<cmd, signal, mem>>
               /\ \E r \in Ends : /\ SettlesAlone(r) /\ HonestEffect(r, facts \ {Remote})
                                  /\ Note(IF r = "ok" THEN {} ELSE {"adb"}, IF mem.thrown THEN "caught" ELSE "kept")
      <3>1. at' = (IF mem.thrown THEN "caught" ELSE "kept") /\ problems \subseteq problems' /\ exit' = exit /\ at = "cleanup"
        BY <1>0, <2>6 DEF Awaiting
      <3>2. EvidenceFile \in facts => EvidenceFile \in facts'
        BY <2>6, EffectIsOneOf DEF EvidenceFile, Remote
      <3> QED BY <1>1, <2>1, <2>6, <3>1, <3>2, FileStepKeeps DEF FileStep, FileThere
    <2> QED BY <1>8, <2>2, <2>3, <2>4, <2>5, <2>6 DEF ScreenRecord, Decide, DiscardPulled
  <1>9. CASE DiscardCaught
    <2>1. exit' # Running /\ exit' # "0" /\ UNCHANGED <<cmd, mem>> /\ exit = Running
      BY <1>0, <1>9 DEF DiscardCaught, Discard, DiscardFails, Awaiting, Escapes, Running
    <2> QED BY <2>1, FileStepKeeps DEF FileStep
  <1>10. CASE Decide("kept", Finish({}) /\ UNCHANGED mem)
    BY <1>0, <1>1, <1>10, FileStepKeeps DEF Decide, Awaiting, FileStep, FileThere
  <1> QED BY <1>2, <1>3, <1>4, <1>5, <1>6, <1>7, <1>8, <1>9, <1>10 DEF Capture, DiscardCaught

LEMMA BundleKnows == ASSUME FileInv, BundleBegins \/ BundleWritten PROVE FileInv'
  <1>0. /\ cmd.name = "bundle"
        /\ \A ps : Finish(ps) => at' = "ended" /\ exit' # Running /\ (problems \cup ps # {} => exit' # "0")
        /\ \A step : GoTo(step) => at' = step /\ UNCHANGED <<exit, problems>>
        /\ \A ps, step : Note(ps, step) => at' = step /\ problems' = problems \cup ps /\ UNCHANGED exit
        /\ Running # "0"
    BY FinishIsOver DEF BundleBegins, BundleWritten, EndsAs, GoTo, Note, Running
  <1>1. exit = Running => FileThere
    BY <1>0 DEF FileInv
  <1>2. UNCHANGED cmd /\ DOMAIN mem' = DOMAIN mem /\ exit = Running
    BY DEF BundleBegins, BundleWritten, Decide, Awaiting, Keep
  <1>3. CASE BundleBegins
    BY <1>0, <1>2, <1>3, FileStepKeeps DEF BundleBegins, Decide, FileStep, FileThere
  <1>4. CASE Decide("write", UNCHANGED mem /\ (GoTo("rename") \/ ("fail" \in Faults /\ Note({"adb"}, "undo"))))
    BY <1>0, <1>2, <1>4, FileStepKeeps DEF Decide, FileStep, FileThere
  <1>5. CASE /\ Awaiting("rename") /\ UNCHANGED <<cmd, signal, cut, mem>>
             /\ \/ facts' = (facts \ {Temp}) \cup {<<"file", "evidence">>} /\ GoTo("undo")
                \/ "fail" \in Faults /\ UNCHANGED facts /\ Note({"adb"}, "undo")
    BY <1>0, <1>2, <1>5, FileStepKeeps DEF FileStep, FileThere, EvidenceFile
  <1>6. CASE /\ Awaiting("undo") /\ UNCHANGED <<cmd, signal, cut, mem>>
             /\ facts' = facts \ {Temp, <<"verifier", "host">>} /\ Finish({})
    BY <1>0, <1>1, <1>2, <1>6, FileStepKeeps DEF Awaiting, FileStep, FileThere, EvidenceFile,
       Temp
  <1>7. CASE /\ Awaiting("undo") /\ "fail" \in Faults /\ UNCHANGED <<cmd, signal, cut>>
             /\ facts' \in {facts, facts \ {Temp}, facts \ {<<"verifier", "host">>}}
             /\ Finish({}) /\ Keep([thrown |-> TRUE])
    BY <1>0, <1>1, <1>2, <1>7, FileStepKeeps DEF Awaiting, FileStep, FileThere, EvidenceFile,
       Temp
  <1> QED BY <1>3, <1>4, <1>5, <1>6, <1>7 DEF BundleWritten

-----------------------------------------------------------------------------
(* Success of any command *)

\* What stands of each kind of command; of the others it says nothing.
Known == TargetsKnow /\ AppInv /\ UiInv /\ FileInv

LEMMA KnownInitially == CommandsInit => Known
  <1> SUFFICES ASSUME CommandsInit PROVE Known
    OBVIOUS
  <1>1. exit = Running /\ at \in {"input", "adb"} /\ Running # "0"
    BY DEF CommandsInit, TargetInit, LogsInit, AppInit, EvidenceInit, CommandInit, Running
  <1>2. TargetsKnow
    BY <1>1 DEF TargetsKnow
  <1>3. AppInv
    <2>1. CASE cmd.name \in {"app", "open"}
      BY <2>1, AppBegins DEF CommandsInit, TargetInit, LogsInit, EvidenceInit
    <2>2. CASE cmd.name \notin {"app", "open"}
      BY <2>2 DEF AppInv, AppPlaces, InstallKnows, AppReached, AppFields
    <2> QED BY <2>1, <2>2
  <1>4. UiInv /\ FileInv
    <2>1. CASE EvidenceInit
      BY <2>1, UiInvBegins, FileInvBegins
    <2>2. CASE ~EvidenceInit
      <3>1. cmd.name \notin {"ui", "capture", "bundle"}
        BY <2>2 DEF CommandsInit, TargetInit, LogsInit, AppInit
      <3> QED BY <3>1 DEF UiInv, FileInv
    <2> QED BY <2>1, <2>2
  <1> QED BY <1>2, <1>3, <1>4 DEF Known

\* A step of one kind of command leaves what stands of the others.
LEMMA KindsAreApart ==
  ASSUME cmd' = cmd
  PROVE  /\ cmd.name \notin {"ports", "connect", "pair"} => TargetsKnow'
         /\ cmd.name \notin {"app", "open"} => AppInv'
         /\ cmd.name # "ui" => UiInv'
         /\ cmd.name \notin {"capture", "bundle"} => FileInv'
  BY DEF TargetsKnow, AppInv, AppPlaces, InstallKnows, AppReached, AppFields, UiInv, FileInv

LEMMA AppsKeepTheCommand == App \/ Open => cmd' = cmd /\ cmd.name \in {"app", "open"}
  <1>1. \A first, next : ReadyTarget(first) \/ RequireApp(next) => cmd' = cmd
    BY ReadyTargetBegins, RequireAppBegins DEF Beginning
  <1>2. InstallApp => cmd' = cmd
    BY DEF InstallApp, Decide, Read, Change
  <1>3. Decided \/ AppInfo \/ ClearData \/ Uninstall \/ AppAppears => cmd' = cmd
    BY DEF Decided, AppInfo, Look, ClearData, Uninstall, Ended, AppAppears, Decide
  <1>4. StopApp((IF cmd.action = "stop" THEN Finish({}) ELSE GoTo("activity?")) /\ UNCHANGED mem) \/ LaunchApp => cmd' = cmd
    BY DEF StopApp, LaunchApp, Decide, Change
  <1>5. CASE App
    BY <1>1, <1>2, <1>3, <1>4, <1>5 DEF App, Decide, Read
  <1>6. CASE Open
    BY <1>1, <1>3, <1>6 DEF Open, Decide, Change
  <1> QED BY <1>5, <1>6

LEMMA KnownSteps ==
  CutInv /\ Known /\ [TargetNext \/ Logs \/ App \/ Open \/ Ui \/ Evidence \/ Signal]_vars => Known'
  <1> SUFFICES ASSUME CutInv, Known, [TargetNext \/ Logs \/ App \/ Open \/ Ui \/ Evidence \/ Signal]_vars PROVE Known'
    OBVIOUS
  <1>0. TargetsKnow /\ AppInv /\ UiInv /\ FileInv
    BY DEF Known
  <1>1. CASE App \/ Open
    <2>1. cmd' = cmd /\ cmd.name \in {"app", "open"}
      BY <1>1, AppsKeepTheCommand
    <2>2. AppInv'
      BY <1>0, <1>1, AppKnows, OpenKnows
    <2> QED BY <2>1, <2>2, KindsAreApart DEF Known
  <1>2. CASE TargetNext \/ Logs
    <2>1. cmd' = cmd
      BY <1>2, TargetsAreCareful, LogsAreCareful DEF Careful
    <2>2. cmd.name \in TargetNames \cup {"logs"} /\ (cmd.name \in {"ports", "connect", "pair"} => TargetNext)
      BY <1>2 DEF TargetNext, Doctor, Devices, Ports, Discover, Connect, Pair, Logs, TargetNames
    <2>3. TargetNext => TargetsKnow'
      BY <1>0, TargetsKnowSteps
    <2> QED BY <2>1, <2>2, <2>3, KindsAreApart DEF Known, TargetNames
  <1>3. CASE Ui
    <2>1. cmd' = cmd /\ cmd.name = "ui"
      BY <1>3, UiIsCareful DEF Ui
    <2>2. UiInv'
      BY <1>0, <1>3, UiKnows
    <2> QED BY <2>1, <2>2, KindsAreApart DEF Known
  <1>4. CASE Evidence
    <2>1. cmd' = cmd
      BY <1>4, CaptureIsCareful, InspectionsAreCareful, BundleIsCareful DEF Evidence, Careful
    <2>2. /\ cmd.name \in {"capture", "inspect-app", "inspect-failures", "bundle"}
          /\ cmd.name \in {"capture", "bundle"} => Capture \/ BundleBegins \/ BundleWritten
      BY <1>4 DEF Evidence, Capture, InspectApp, InspectFailures, FailureSources, BundleBegins,
         BundleWritten
    <2>3. Capture \/ BundleBegins \/ BundleWritten => FileInv'
      BY <1>0, CaptureKnows, BundleKnows
    <2> QED BY <2>1, <2>2, <2>3, KindsAreApart DEF Known
  <1>5. CASE Signal \/ UNCHANGED vars
    <2>1. UNCHANGED <<cmd, at, mem, problems, exit, facts>>
      BY <1>5 DEF Signal, vars, command
    <2>2. TargetsKnow'
      BY <1>0, <2>1 DEF TargetsKnow, Mapping, ConnectDone, PortsDone, PairDone
    <2>3. AppInv'
      BY <1>0, <2>1 DEF AppInv, AppPlaces, InstallKnows, Old, AppReached, AppDone, Installed,
         AppFields
    <2>4. UiInv'
      BY <1>0, <2>1 DEF UiInv, UiFields, UiPlaces, UiTodo, OneText, TextSeen, ShownText,
         UiReached, UiDone, SameScreen, Dialog, Agreed
    <2>5. FileInv'
      BY <1>0, <2>1 DEF FileInv, FileThere
    <2> QED BY <2>2, <2>3, <2>4, <2>5 DEF Known
  <1> QED BY <1>1, <1>2, <1>3, <1>4, <1>5

\* DoneIsVerified (ports, connect and pair of commands.ts, the commands of
\* app-commands.ts, ui-actions.ts, ui-hierarchy.ts, capture.ts, evidence-bundle.ts):
\* whatever the options, the inventory, the device and the failures, a command that ends
\* with zero and was no dry run has reached what it promises and left it so: the mapping
\* is there or gone, the endpoint connected, the application as it was asked for, the
\* field of a fill or a clear that is called verified, on the screen it was found on,
\* holds that text, the file is there.
THEOREM SuccessIsReached == CommandsSpec => []DoneIsVerified
  <1>1. CommandsInit => RemovalPlaces
    BY DEF CommandsInit, TargetInit, LogsInit, AppInit, EvidenceInit, CommandInit, RemovalPlaces
  <1>2. Known => DoneIsVerified
    <2> SUFFICES ASSUME Known, exit = "0" PROVE DoneIsVerified
      BY DEF DoneIsVerified
    <2>1. exit # Running
      BY DEF Running
    <2>2. cmd.name \in {"ports", "connect", "pair"} => cmd.dryRun \/ TargetCommandDone
      BY DEF Known, TargetsKnow, TargetCommandDone
    <2>3. cmd.name \in {"app", "open"} => cmd.dryRun \/ AppDone
      BY DEF Known, AppInv, AppReached
    <2>4. cmd.name = "ui" => cmd.dryRun \/ UiDone
      BY <2>1 DEF Known, UiInv, UiReached
    <2>5. EvidenceDone
      BY <2>1 DEF Known, FileInv, EvidenceDone, EvidenceFile
    <2> QED BY <2>2, <2>3, <2>4, <2>5 DEF DoneIsVerified
  <1>3. /\ CutInv /\ RemovalPlaces /\ Known
        /\ [TargetNext \/ Logs \/ App \/ Open \/ Ui \/ Evidence \/ Signal]_vars
        => (CutInv /\ RemovalPlaces /\ Known)'
    BY CutSteps, KnownSteps
  <1> QED BY <1>1, <1>2, <1>3, CutInitially, KnownInitially, PTL DEF CommandsSpec

-----------------------------------------------------------------------------
(* The configuration *)

\* What the documents that were read come to, whatever is remembered besides them.
DocIn(documents, source) ==
  IF source \in DOMAIN documents THEN documents[source] ELSE [defaultProfile |-> {}, profiles |-> <<>>]
SaidIn(documents, source) == IF source \in DOMAIN documents THEN documents[source].values ELSE <<>>
Selects(c, documents) ==
  LET byEnvironment == {n \in c.environmentProfile : IsName(n)}
      byDefault(source) == {n \in DocIn(documents, source).defaultProfile : IsName(n)}
  IN  IF c.profileName # {} THEN c.profileName
      ELSE IF byEnvironment # {} THEN byEnvironment
      ELSE IF byDefault("project") # {} THEN byDefault("project") ELSE byDefault("user")
TakenFrom(documents, name) ==
  IF Finds(DocIn(documents, "project").profiles, name) THEN "project"
  ELSE IF Finds(DocIn(documents, "user").profiles, name) THEN "user" ELSE "none"
ChosenName(c, documents) == CHOOSE n \in Selects(c, documents) : TRUE
Profiles(c, documents) ==
  IF Selects(c, documents) = {} THEN <<>> ELSE DocIn(documents, TakenFrom(documents, ChosenName(c, documents))).profiles
ChainIn(c, documents) == IF Selects(c, documents) = {} THEN <<>> ELSE ResolveProfile(Selects(c, documents), Profiles(c, documents))
EnvironmentIn(c) == [key \in DOMAIN c.environment |-> EnvironmentValue(key, c.environment[key])]
OverIn(c, documents) == InOrder(Profiles(c, documents), ChainIn(c, documents)) \o <<EnvironmentIn(c), c.cli>>
OriginsIn(c, documents) ==
  LET over == OverIn(c, documents) chain == ChainIn(c, documents)
  IN  [i \in DOMAIN over |-> [key \in DOMAIN over[i] |-> SourceOf(i, chain)]]

\* What the files say, the one of the project over the one of the user.
FileValues(documents) == Amended(Amended([timeoutMs |-> 5000], SaidIn(documents, "user")), SaidIn(documents, "project"))
FileOrigins(documents) ==
  Amended(Amended([timeoutMs |-> "default"], [key \in DOMAIN SaidIn(documents, "user") |-> "user"]),
          [key \in DOMAIN SaidIn(documents, "project") |-> "project"])

\* Documents as they are read.
DocumentsFit(documents) ==
  /\ DOMAIN documents \subseteq {"user", "project"}
  /\ \A source \in DOMAIN documents : Document(documents[source])
ProfileIsKnown(c, documents) ==
  \A n \in Selects(c, documents) :
    /\ Finds(DocIn(documents, "project").profiles, n) \/ Finds(DocIn(documents, "user").profiles, n)
    /\ \A i \in DOMAIN ChainIn(c, documents) : ChainIn(c, documents)[i] \in DOMAIN Profiles(c, documents)

LEMMA ProfileIsTakenFrom == ASSUME NEW name PROVE ProfileSource(name) = TakenFrom(mem.documents, name)
  <1> DEFINE p == Finds(DocumentOf("project").profiles, name)
             u == Finds(DocumentOf("user").profiles, name)
  <1>1. p <=> Finds(DocIn(mem.documents, "project").profiles, name)
    BY DEF DocumentOf, DocIn
  <1>2. u <=> Finds(DocIn(mem.documents, "user").profiles, name)
    BY DEF DocumentOf, DocIn
  <1>3. ProfileSource(name) = CHOOSE source \in {"project", "user", "none"} :
          IF p THEN source = "project" ELSE IF u THEN source = "user" ELSE source = "none"
    BY Zenon DEF ProfileSource
  <1> HIDE DEF p, u
  <1>4. ProfileSource(name) = IF p THEN "project" ELSE IF u THEN "user" ELSE "none"
    BY <1>3
  <1> QED BY <1>1, <1>2, <1>4 DEF TakenFrom

LEMMA SelectedIs == SelectedProfile = Selects(cmd, mem.documents)
  BY Zenon DEF SelectedProfile, Selects, DocumentOf, DocIn

LEMMA OneIsSelected ==
  ASSUME NEW c, NEW documents, DocumentsFit(documents), OnceAtMost(c.profileName), OnceAtMost(c.environmentProfile)
  PROVE  OnceAtMost(Selects(c, documents))
  <1>1. ASSUME NEW source PROVE OnceAtMost(DocIn(documents, source).defaultProfile)
    BY DEF DocumentsFit, Document, DocIn, OnceAtMost
  <1>2. \A x, y \in {n \in DocIn(documents, "project").defaultProfile : IsName(n)} : x = y
    BY <1>1 DEF OnceAtMost
  <1>3. \A x, y \in {n \in DocIn(documents, "user").defaultProfile : IsName(n)} : x = y
    BY <1>1 DEF OnceAtMost
  <1>4. \A x, y \in {n \in c.environmentProfile : IsName(n)} : x = y
    BY DEF OnceAtMost
  <1> QED BY <1>2, <1>3, <1>4 DEF OnceAtMost, Selects

\* The chain of the profile that is selected is one of which all that is proved above holds.
LEMMA ChainIsOne ==
  ASSUME NEW c, NEW documents, DocumentsFit(documents), \A source \in DOMAIN documents : ValidDocument(documents[source]),
         OnceAtMost(c.profileName), OnceAtMost(c.environmentProfile),
         ProfileIsKnown(c, documents), Selects(c, documents) # {}
  PROVE  /\ Selects(c, documents) = {ChosenName(c, documents)}
         /\ ChainOf(ChainIn(c, documents), {ChosenName(c, documents)}, Profiles(c, documents))
  <1> DEFINE n == ChosenName(c, documents)
             doc == DocIn(documents, TakenFrom(documents, n))
  <1>1. n \in Selects(c, documents)
    BY DEF ChosenName
  <1>2. Selects(c, documents) = {n}
    BY <1>1, OneIsSelected DEF OnceAtMost
  <1>3. Profiles(c, documents) = doc.profiles
    BY DEF Profiles
  <1>4. ChainIn(c, documents) = ResolveProfile({n}, doc.profiles)
    BY <1>2, <1>3 DEF ChainIn
  <1> HIDE DEF n
  <1>5. IsFiniteSet(DOMAIN doc.profiles) /\ OneParent(doc.profiles) /\ NoCircle(doc.profiles)
    <2>1. CASE TakenFrom(documents, n) \in DOMAIN documents
      <3>1. doc = documents[TakenFrom(documents, n)]
        BY <2>1 DEF DocIn
      <3>2. Document(doc) /\ ValidDocument(doc)
        BY <2>1, <3>1 DEF DocumentsFit
      <3> HIDE DEF doc
      <3> QED BY <3>2 DEF Document, ValidDocument, ValidInheritance, OneParent, NoCircle
    <2>2. CASE TakenFrom(documents, n) \notin DOMAIN documents
      <3>1. doc.profiles = <<>> /\ DOMAIN doc.profiles = {}
        BY <2>2 DEF DocIn
      <3> HIDE DEF doc
      <3> QED BY <3>1, FS_EmptySet DEF OneParent, NoCircle
    <2> QED BY <2>1, <2>2
  <1> HIDE DEF doc
  <1>6. Descends(ChainIn(c, documents), {n}, doc.profiles) /\ Exhausted(ChainIn(c, documents), {n}, doc.profiles)
    BY <1>4, <1>5, ChainDescends
  <1>7. \A i \in 1 .. Len(ChainIn(c, documents)) : ChainIn(c, documents)[i] \in DOMAIN doc.profiles
    BY <1>1, <1>3, <1>6, ChainHas DEF ProfileIsKnown
  <1>8. OnceAtMost({n})
    BY DEF OnceAtMost
  <1>9. ChainOf(ChainIn(c, documents), {n}, Profiles(c, documents))
    BY <1>3, <1>5, <1>6, <1>7, <1>8 DEF ChainOf
  <1> QED BY <1>2, <1>9 DEF n

\* The layers, the weakest first.
LEMMA LayersAre ==
  ASSUME NEW profiles, NEW chain, Len(chain) \in Nat, DOMAIN chain = 1 .. Len(chain)
  PROVE  LET over == LayersOver(profiles, chain) n == Len(chain) IN
           /\ DOMAIN over = 1 .. n + 2 /\ \A i \in 1 .. n : over[i] = profiles[chain[i]].values
           /\ over[n + 1] = FromEnvironment /\ over[n + 2] = cmd.cli
  <1> DEFINE n == Len(chain)
             inner == InOrder(profiles, chain)
             E == FromEnvironment
             S == {inner[i] : i \in 1 .. n} \cup {E, cmd.cli}
  <1>1. inner = [i \in 1 .. n |-> profiles[chain[i]].values]
    BY DEF InOrder
  <1>2. inner \in [1 .. n -> S] /\ <<E, cmd.cli>> \in Seq(S)
    <2>1. \A i \in 1 .. n : inner[i] \in S
      OBVIOUS
    <2>2. inner = [i \in 1 .. n |-> inner[i]]
      BY <1>1
    <2>3. E \in S /\ cmd.cli \in S
      OBVIOUS
    <2> HIDE DEF inner, S, E
    <2> QED BY <2>1, <2>2, <2>3
  <1> HIDE DEF E, S, inner
  <1>3. inner \in Seq(S) /\ Len(inner) = n
    BY <1>2
  <1>4. /\ DOMAIN (inner \o <<E, cmd.cli>>) = 1 .. n + 2
        /\ \A i \in 1 .. n : (inner \o <<E, cmd.cli>>)[i] = inner[i]
        /\ (inner \o <<E, cmd.cli>>)[n + 1] = E /\ (inner \o <<E, cmd.cli>>)[n + 2] = cmd.cli
    BY <1>2, <1>3
  <1>5. LayersOver(profiles, chain) = inner \o <<E, cmd.cli>>
    BY DEF LayersOver, inner, E
  <1>6. \A i \in 1 .. n : inner[i] = profiles[chain[i]].values
    BY <1>1
  <1> HIDE DEF n
  <1>7. LET over == LayersOver(profiles, chain) IN
           /\ DOMAIN over = 1 .. n + 2 /\ \A i \in 1 .. n : over[i] = profiles[chain[i]].values
           /\ over[n + 1] = FromEnvironment /\ over[n + 2] = cmd.cli
    BY <1>4, <1>5, <1>6 DEF E
  <1> QED BY <1>7 DEF n

\* What was laid over the files, and whether a layer says anything of a key.
Laid(documents) ==
  /\ mem.values = Stack(FileValues(documents), OverIn(cmd, documents))
  /\ mem.origin = Stack(FileOrigins(documents), OriginsIn(cmd, documents))
Accepted(c, documents) ==
  /\ DocumentsFit(documents) /\ \A source \in DOMAIN documents : ValidDocument(documents[source])
  /\ OnceAtMost(c.profileName) /\ OnceAtMost(c.environmentProfile) /\ ProfileIsKnown(c, documents)
ProfileSays(c, documents, key) == \E i \in 1 .. Len(ChainIn(c, documents)) : key \in DOMAIN Profiles(c, documents)[ChainIn(c, documents)[i]].values

LEMMA ChainLength ==
  ASSUME NEW c, NEW documents, Accepted(c, documents)
  PROVE  Len(ChainIn(c, documents)) \in Nat /\ DOMAIN ChainIn(c, documents) = 1 .. Len(ChainIn(c, documents))
  <1>1. CASE Selects(c, documents) = {}
    BY <1>1 DEF ChainIn
  <1>2. CASE Selects(c, documents) # {}
    BY <1>2, ChainIsOne, ChainHas DEF ChainOf, Accepted
  <1> QED BY <1>1, <1>2

\* Where each value comes from.
LEMMA LaidSays ==
  ASSUME NEW documents, Accepted(cmd, documents), Laid(documents)
  PROVE  /\ DOMAIN mem.origin = DOMAIN mem.values
         /\ DOMAIN cmd.cli \subseteq DOMAIN mem.values /\ DOMAIN FromEnvironment \subseteq DOMAIN mem.values
         /\ \A key \in DOMAIN mem.values :
              /\ key \in DOMAIN cmd.cli => mem.values[key] = cmd.cli[key] /\ mem.origin[key] = "cli"
              /\ key \notin DOMAIN cmd.cli /\ key \in DOMAIN FromEnvironment
                   => mem.values[key] = FromEnvironment[key] /\ mem.origin[key] = "environment"
              /\ key \notin DOMAIN cmd.cli \cup DOMAIN FromEnvironment /\ ProfileSays(cmd, documents, key)
                   => /\ mem.origin[key] = "profile"
                      /\ \E k \in 1 .. Len(ChainIn(cmd, documents)) :
                           /\ key \in DOMAIN Profiles(cmd, documents)[ChainIn(cmd, documents)[k]].values
                           /\ \A j \in k + 1 .. Len(ChainIn(cmd, documents)) :
                                key \notin DOMAIN Profiles(cmd, documents)[ChainIn(cmd, documents)[j]].values
                           /\ mem.values[key] = Profiles(cmd, documents)[ChainIn(cmd, documents)[k]].values[key]
              /\ key \notin DOMAIN cmd.cli \cup DOMAIN FromEnvironment /\ ~ProfileSays(cmd, documents, key)
                   => /\ key \in DOMAIN FileValues(documents)
                      /\ mem.values[key] = FileValues(documents)[key] /\ mem.origin[key] = FileOrigins(documents)[key]
  <1> DEFINE chain == ChainIn(cmd, documents)
             n == Len(chain)
             over == OverIn(cmd, documents)
             names == OriginsIn(cmd, documents)
             base == FileValues(documents)
             first == FileOrigins(documents)
             env == FromEnvironment
             said(i) == Profiles(cmd, documents)[chain[i]].values
  <1>1. n \in Nat /\ DOMAIN chain = 1 .. n
    BY ChainLength
  <1>2. /\ DOMAIN over = 1 .. n + 2 /\ \A i \in 1 .. n : over[i] = said(i)
        /\ over[n + 1] = env /\ over[n + 2] = cmd.cli
    BY <1>1, LayersAre DEF OverIn, LayersOver, EnvironmentIn, FromEnvironment
  <1>3. /\ DOMAIN names = 1 .. n + 2
        /\ \A i \in 1 .. n + 2 : DOMAIN names[i] = DOMAIN over[i] /\ \A key \in DOMAIN over[i] : names[i][key] = SourceOf(i, chain)
    <2>1. names = [i \in DOMAIN over |-> [key \in DOMAIN over[i] |-> SourceOf(i, chain)]]
      BY DEF OriginsIn
    <2> HIDE DEF names, over, chain
    <2> QED BY <1>2, <2>1
  <1>4. /\ \A i \in 1 .. n : SourceOf(i, chain) = "profile"
        /\ SourceOf(n + 1, chain) = "environment" /\ SourceOf(n + 2, chain) = "cli"
    BY <1>1 DEF SourceOf
  <1>5. AFunction(base) /\ AFunction(first)
    <2>1. \A f, g : AFunction(Amended(f, g))
      BY DEF Amended, AFunction
    <2> QED BY <2>1 DEF FileValues, FileOrigins
  <1>6. DOMAIN base = DOMAIN first
    BY DEF FileValues, FileOrigins, Amended
  <1> HIDE DEF chain, n, over, names, base, first, env, said
  <1>7. n + 2 \in Nat
    BY <1>1
  <1>8. LastCounts(mem.values, base, over, n + 2)
    <2>1. mem.values = Stack(base, over)
      BY DEF Laid, base, over
    <2> QED BY <1>2, <1>5, <1>7, <2>1, StackSays
  <1>9. LastCounts(mem.origin, first, names, n + 2)
    <2>1. mem.origin = Stack(first, names)
      BY DEF Laid, first, names
    <2> QED BY <1>3, <1>5, <1>7, <2>1, StackSays
  <1> USE DEF LastCounts
  <1>10. DOMAIN mem.origin = DOMAIN mem.values
    BY <1>3, <1>6, <1>8, <1>9
  <1>11. DOMAIN cmd.cli \subseteq DOMAIN mem.values /\ DOMAIN env \subseteq DOMAIN mem.values
    <2>1. n + 1 \in 1 .. n + 2 /\ n + 2 \in 1 .. n + 2
      BY <1>1
    <2> QED BY <1>2, <1>8, <2>1
  \* The two stacks at once: the last layer that speaks, or the files.
  <1>12. ASSUME NEW i \in 1 .. n + 2, NEW key \in DOMAIN over[i], \A j \in i + 1 .. n + 2 : key \notin DOMAIN over[j]
         PROVE  mem.values[key] = over[i][key] /\ mem.origin[key] = SourceOf(i, chain)
    <2>1. \A j \in i + 1 .. n + 2 : j \in 1 .. n + 2
      BY <1>1
    <2>2. key \in DOMAIN names[i] /\ \A j \in i + 1 .. n + 2 : key \notin DOMAIN names[j]
      BY <1>3, <1>12, <2>1
    <2> QED BY <1>3, <1>8, <1>9, <1>12, <2>2
  <1>13. ASSUME NEW key \in DOMAIN cmd.cli PROVE mem.values[key] = cmd.cli[key] /\ mem.origin[key] = "cli"
    <2>1. n + 2 \in 1 .. n + 2 /\ (n + 2) + 1 .. n + 2 = {}
      BY <1>1
    <2> QED BY <1>2, <1>4, <1>12, <2>1
  <1>14. ASSUME NEW key \in DOMAIN env, key \notin DOMAIN cmd.cli
         PROVE  mem.values[key] = env[key] /\ mem.origin[key] = "environment"
    <2>1. n + 1 \in 1 .. n + 2 /\ (n + 1) + 1 .. n + 2 = {n + 2}
      BY <1>1
    <2> QED BY <1>2, <1>4, <1>12, <1>14, <2>1
  <1>15. ASSUME NEW key, key \notin DOMAIN cmd.cli \cup DOMAIN env, \E i \in 1 .. n : key \in DOMAIN said(i)
         PROVE  /\ mem.origin[key] = "profile"
                /\ \E k \in 1 .. n : /\ key \in DOMAIN said(k) /\ \A j \in k + 1 .. n : key \notin DOMAIN said(j)
                                     /\ mem.values[key] = said(k)[key]
    <2> DEFINE S == {i \in 1 .. n : key \in DOMAIN said(i)}
    <2>1. PICK k \in S : \A y \in S : k >= y
      <3>1. S \in SUBSET (1 .. n) /\ S # {}
        BY <1>15
      <3> HIDE DEF S
      <3> QED BY <1>1, <3>1, Greatest
    <2>2. k \in 1 .. n /\ k \in 1 .. n + 2 /\ key \in DOMAIN said(k)
      BY <1>1
    <2>3. \A j \in k + 1 .. n : key \notin DOMAIN said(j)
      <3> SUFFICES ASSUME NEW j \in k + 1 .. n, key \in DOMAIN said(j) PROVE FALSE
        OBVIOUS
      <3>1. j \in 1 .. n /\ j > k
        BY <1>1, <2>2
      <3>2. j \in S
        BY <3>1
      <3> HIDE DEF S
      <3> QED BY <1>1, <2>1, <2>2, <3>1, <3>2
    <2>4. \A j \in k + 1 .. n + 2 : j \in k + 1 .. n \/ j = n + 1 \/ j = n + 2
      BY <1>1, <2>2
    <2>5. \A j \in k + 1 .. n : j \in 1 .. n
      BY <1>1, <2>2
    <2>6. \A j \in k + 1 .. n + 2 : key \notin DOMAIN over[j]
      BY <1>2, <1>15, <2>3, <2>4, <2>5
    <2>7. mem.values[key] = said(k)[key] /\ mem.origin[key] = "profile"
      BY <1>2, <1>4, <1>12, <2>2, <2>6
    <2> QED BY <2>2, <2>3, <2>7
  <1>16. ASSUME NEW key \in DOMAIN mem.values, key \notin DOMAIN cmd.cli \cup DOMAIN env, ~\E i \in 1 .. n : key \in DOMAIN said(i)
         PROVE  key \in DOMAIN base /\ mem.values[key] = base[key] /\ mem.origin[key] = first[key]
    <2>1. \A i \in 1 .. n + 2 : i \in 1 .. n \/ i = n + 1 \/ i = n + 2
      BY <1>1
    <2>2. \A i \in 1 .. n + 2 : key \notin DOMAIN over[i] /\ key \notin DOMAIN names[i]
      BY <1>2, <1>3, <1>16, <2>1
    <2>3. key \in DOMAIN base
      BY <1>8, <2>2
    <2> QED BY <1>6, <1>8, <1>9, <2>2, <2>3
  <1> QED BY <1>10, <1>11, <1>13, <1>14, <1>15, <1>16 DEF ProfileSays, chain, n, env, said,
             base, first

\* The strongest source is the first one that has anything.
LEMMA FirstIs ==
  ASSUME NEW all, NEW n \in Nat, DOMAIN all = 1 .. n, NEW k \in 1 .. n, all[k][2] # {}, \A j \in 1 .. k - 1 : all[j][2] = {}
  PROVE  (CHOOSE i \in DOMAIN all : all[i][2] # {} /\ \A j \in 1 .. i - 1 : all[j][2] = {}) = k
  <1>1. ASSUME NEW i \in 1 .. n, all[i][2] # {}, \A j \in 1 .. i - 1 : all[j][2] = {} PROVE i = k
    <2>1. ~(k < i) /\ ~(i < k)
      <3>1. k < i => k \in 1 .. i - 1
        OBVIOUS
      <3>2. i < k => i \in 1 .. k - 1
        OBVIOUS
      <3> QED BY <1>1, <3>1, <3>2
    <2> QED BY <2>1
  <1> QED BY <1>1

SaysOf(values, key) == IF key \in DOMAIN values THEN {values[key]} ELSE {}
ProfilePart(c, documents, key) ==
  IF Selects(c, documents) = {} THEN {} ELSE ByProfile({ChosenName(c, documents)}, Profiles(c, documents), key)

LEMMA SourcesAre ==
  ASSUME NEW key, Accepted(cmd, mem.documents)
  PROVE  LET all == Sources(key) documents == mem.documents IN
           /\ DOMAIN all = 1 .. 6
           /\ all[1][1] = "cli" /\ all[1][2] = SaysOf(cmd.cli, key)
           /\ all[2][1] = "environment" /\ all[2][2] = SaysOf(FromEnvironment, key)
           /\ all[3][1] = "profile" /\ all[3][2] = ProfilePart(cmd, documents, key)
           /\ all[4][1] = "project" /\ all[4][2] = SaysOf(SaidIn(documents, "project"), key)
           /\ all[5][1] = "user" /\ all[5][2] = SaysOf(SaidIn(documents, "user"), key)
           /\ all[6][1] = "default" /\ all[6][2] = SaysOf([timeoutMs |-> 5000], key)
  <1> DEFINE says(values) == IF key \in DOMAIN values THEN {values[key]} ELSE {}
             file(source) == IF source \in DOMAIN mem.documents THEN says(mem.documents[source].values) ELSE {}
             lines == UNION {ByProfile({n}, DocumentOf(ProfileSource(n)).profiles, key) : n \in SelectedProfile}
             all == <<<<"cli", says(cmd.cli)>>, <<"environment", says(FromEnvironment)>>, <<"profile", lines>>,
                      <<"project", file("project")>>, <<"user", file("user")>>, <<"default", says([timeoutMs |-> 5000])>>>>
  <1>1. Sources(key) = all
    BY Zenon DEF Sources
  <1>2. lines = ProfilePart(cmd, mem.documents, key)
    <2>1. CASE Selects(cmd, mem.documents) = {}
      BY <2>1, SelectedIs DEF ProfilePart
    <2>2. CASE Selects(cmd, mem.documents) # {}
      <3> DEFINE n == ChosenName(cmd, mem.documents)
      <3>1. Selects(cmd, mem.documents) = {n}
        BY <2>2, ChainIsOne DEF Accepted
      <3>2. DocumentOf(ProfileSource(n)).profiles = Profiles(cmd, mem.documents)
        BY <2>2, ProfileIsTakenFrom DEF Profiles, DocumentOf, DocIn
      <3> HIDE DEF n
      <3>3. lines = ByProfile({n}, DocumentOf(ProfileSource(n)).profiles, key)
        BY <3>1, SelectedIs
      <3> QED BY <2>2, <3>2, <3>3 DEF ProfilePart, n
    <2> QED BY <2>1, <2>2
  <1>3. file("project") = SaysOf(SaidIn(mem.documents, "project"), key)
    <2>1. CASE "project" \in DOMAIN mem.documents
      BY <2>1 DEF SaysOf, SaidIn
    <2>2. CASE "project" \notin DOMAIN mem.documents
      BY <2>2 DEF SaysOf, SaidIn
    <2> QED BY <2>1, <2>2
  <1>4. file("user") = SaysOf(SaidIn(mem.documents, "user"), key)
    <2>1. CASE "user" \in DOMAIN mem.documents
      BY <2>1 DEF SaysOf, SaidIn
    <2>2. CASE "user" \notin DOMAIN mem.documents
      BY <2>2 DEF SaysOf, SaidIn
    <2> QED BY <2>1, <2>2
  <1>5. \A values : says(values) = SaysOf(values, key)
    BY DEF SaysOf
  <1> HIDE DEF says, file, lines
  <1>6. /\ DOMAIN all = 1 .. 6
        /\ all[1][1] = "cli" /\ all[1][2] = says(cmd.cli)
        /\ all[2][1] = "environment" /\ all[2][2] = says(FromEnvironment)
        /\ all[3][1] = "profile" /\ all[3][2] = lines
        /\ all[4][1] = "project" /\ all[4][2] = file("project")
        /\ all[5][1] = "user" /\ all[5][2] = file("user")
        /\ all[6][1] = "default" /\ all[6][2] = says([timeoutMs |-> 5000])
    OBVIOUS
  <1> HIDE DEF all
  <1> QED BY <1>1, <1>2, <1>3, <1>4, <1>5, <1>6

\* What the selected profile and those it extends say of a key, by the chain.
LEMMA ProfilePartIs ==
  ASSUME NEW c, NEW documents, Accepted(c, documents), NEW key
  PROVE  /\ ~ProfileSays(c, documents, key) => ProfilePart(c, documents, key) = {}
         /\ \A k \in 1 .. Len(ChainIn(c, documents)) :
              /\ key \in DOMAIN Profiles(c, documents)[ChainIn(c, documents)[k]].values
              /\ \A j \in k + 1 .. Len(ChainIn(c, documents)) : key \notin DOMAIN Profiles(c, documents)[ChainIn(c, documents)[j]].values
              => ProfilePart(c, documents, key) = {Profiles(c, documents)[ChainIn(c, documents)[k]].values[key]}
  <1>1. CASE Selects(c, documents) = {}
    <2>1. Len(ChainIn(c, documents)) = 0
      BY <1>1 DEF ChainIn
    <2> QED BY <1>1, <2>1 DEF ProfilePart
  <1>2. CASE Selects(c, documents) # {}
    <2>1. ChainOf(ChainIn(c, documents), {ChosenName(c, documents)}, Profiles(c, documents))
      BY <1>2, ChainIsOne DEF Accepted
    <2> QED BY <1>2, <2>1, ByProfileIs DEF ProfilePart, ProfileSays
  <1> QED BY <1>1, <1>2

LEMMA FilesSay ==
  ASSUME NEW documents, NEW key \in DOMAIN FileValues(documents)
  PROVE  /\ key \in DOMAIN SaidIn(documents, "project")
              => FileValues(documents)[key] = SaidIn(documents, "project")[key] /\ FileOrigins(documents)[key] = "project"
         /\ key \notin DOMAIN SaidIn(documents, "project") /\ key \in DOMAIN SaidIn(documents, "user")
              => FileValues(documents)[key] = SaidIn(documents, "user")[key] /\ FileOrigins(documents)[key] = "user"
         /\ key \notin DOMAIN SaidIn(documents, "project") \cup DOMAIN SaidIn(documents, "user")
              => key = "timeoutMs" /\ FileValues(documents)[key] = 5000 /\ FileOrigins(documents)[key] = "default"
  <1> DEFINE p == SaidIn(documents, "project")
             u == SaidIn(documents, "user")
  <1>1. /\ FileValues(documents) = Amended(Amended([timeoutMs |-> 5000], u), p)
        /\ FileOrigins(documents) = Amended(Amended([timeoutMs |-> "default"], [k \in DOMAIN u |-> "user"]), [k \in DOMAIN p |-> "project"])
    BY DEF FileValues, FileOrigins
  <1> HIDE DEF p, u
  <1>2. key \in {"timeoutMs"} \cup DOMAIN u \cup DOMAIN p
    BY <1>1 DEF Amended
  <1>3. /\ key \in DOMAIN p => FileValues(documents)[key] = p[key] /\ FileOrigins(documents)[key] = "project"
        /\ key \notin DOMAIN p /\ key \in DOMAIN u => FileValues(documents)[key] = u[key] /\ FileOrigins(documents)[key] = "user"
        /\ key \notin DOMAIN p \cup DOMAIN u => key = "timeoutMs" /\ FileValues(documents)[key] = 5000 /\ FileOrigins(documents)[key] = "default"
    BY <1>1, <1>2 DEF Amended
  <1> QED BY <1>3 DEF p, u

LEMMA ConfigurationIsRight ==
  ASSUME Accepted(cmd, mem.documents), Laid(mem.documents), DelaysFit(mem.values)
  PROVE  ConfigDone
  <1> DEFINE documents == mem.documents
             p == SaidIn(documents, "project")
             u == SaidIn(documents, "user")
             env == FromEnvironment
             part(key) == ProfilePart(cmd, documents, key)
  <1>1. /\ DOMAIN mem.origin = DOMAIN mem.values
        /\ DOMAIN cmd.cli \subseteq DOMAIN mem.values /\ DOMAIN env \subseteq DOMAIN mem.values
    BY LaidSays
  <1>2. ASSUME NEW key \in DOMAIN mem.values
        PROVE  LET all == Sources(key)
                   first == CHOOSE i \in DOMAIN all : all[i][2] # {} /\ \A j \in 1 .. i - 1 : all[j][2] = {}
               IN  mem.origin[key] = all[first][1] /\ {mem.values[key]} = all[first][2]
    <2> DEFINE all == Sources(key)
               first == CHOOSE i \in DOMAIN all : all[i][2] # {} /\ \A j \in 1 .. i - 1 : all[j][2] = {}
               Right(k) == mem.origin[key] = all[k][1] /\ {mem.values[key]} = all[k][2]
    <2>1. /\ DOMAIN all = 1 .. 6
          /\ all[1][1] = "cli" /\ all[1][2] = SaysOf(cmd.cli, key)
          /\ all[2][1] = "environment" /\ all[2][2] = SaysOf(env, key)
          /\ all[3][1] = "profile" /\ all[3][2] = part(key)
          /\ all[4][1] = "project" /\ all[4][2] = SaysOf(p, key)
          /\ all[5][1] = "user" /\ all[5][2] = SaysOf(u, key)
          /\ all[6][1] = "default" /\ all[6][2] = SaysOf([timeoutMs |-> 5000], key)
      BY SourcesAre
    <2> HIDE DEF all
    <2>2. ASSUME NEW k \in 1 .. 6, Right(k), \A j \in 1 .. k - 1 : all[j][2] = {} PROVE Right(first)
      <3>1. all[k][2] # {}
        BY <2>2
      <3>2. first = k
        BY <2>1, <2>2, <3>1, FirstIs
      <3> QED BY <2>2, <3>2
    <2> HIDE DEF first
    <2> SUFFICES Right(first)
      BY DEF all, first
    <2>3. CASE key \in DOMAIN cmd.cli
      <3>1. mem.values[key] = cmd.cli[key] /\ mem.origin[key] = "cli"
        BY <2>3, LaidSays
      <3>2. Right(1)
        BY <2>1, <2>3, <3>1 DEF SaysOf
      <3> QED BY <2>2, <3>2
    <2>4. CASE key \notin DOMAIN cmd.cli /\ key \in DOMAIN env
      <3>1. mem.values[key] = env[key] /\ mem.origin[key] = "environment"
        BY <2>4, LaidSays
      <3>2. Right(2) /\ all[1][2] = {}
        BY <2>1, <2>4, <3>1 DEF SaysOf
      <3>3. \A j \in 1 .. 2 - 1 : j = 1
        OBVIOUS
      <3> QED BY <2>2, <3>2, <3>3
    <2>5. CASE key \notin DOMAIN cmd.cli \cup DOMAIN env /\ ProfileSays(cmd, documents, key)
      <3>1. mem.origin[key] = "profile" /\ \E k \in 1 .. Len(ChainIn(cmd, documents)) :
                           /\ key \in DOMAIN Profiles(cmd, documents)[ChainIn(cmd, documents)[k]].values
                           /\ \A j \in k + 1 .. Len(ChainIn(cmd, documents)) :
                                key \notin DOMAIN Profiles(cmd, documents)[ChainIn(cmd, documents)[j]].values
                           /\ mem.values[key] = Profiles(cmd, documents)[ChainIn(cmd, documents)[k]].values[key]
        BY <2>5, LaidSays
      <3>2. part(key) = {mem.values[key]}
        BY <3>1, ProfilePartIs
      <3>3. Right(3) /\ all[1][2] = {} /\ all[2][2] = {}
        BY <2>1, <2>5, <3>1, <3>2 DEF SaysOf
      <3>4. \A j \in 1 .. 3 - 1 : j = 1 \/ j = 2
        OBVIOUS
      <3> QED BY <2>2, <3>3, <3>4
    <2>6. CASE key \notin DOMAIN cmd.cli \cup DOMAIN env /\ ~ProfileSays(cmd, documents, key)
      <3>1. /\ key \in DOMAIN FileValues(documents)
            /\ mem.values[key] = FileValues(documents)[key] /\ mem.origin[key] = FileOrigins(documents)[key]
        BY <2>6, LaidSays
      <3>2. part(key) = {}
        BY <2>6, ProfilePartIs
      <3>3. all[1][2] = {} /\ all[2][2] = {} /\ all[3][2] = {}
        BY <2>1, <2>6, <3>2 DEF SaysOf
      <3>4. CASE key \in DOMAIN p
        <4>1. Right(4)
          BY <2>1, <3>1, <3>4, FilesSay DEF SaysOf
        <4>2. \A j \in 1 .. 4 - 1 : j \in {1, 2, 3}
          OBVIOUS
        <4> QED BY <2>2, <3>3, <4>1, <4>2
      <3>5. CASE key \notin DOMAIN p /\ key \in DOMAIN u
        <4>1. Right(5) /\ all[4][2] = {}
          BY <2>1, <3>1, <3>5, FilesSay DEF SaysOf
        <4>2. \A j \in 1 .. 5 - 1 : j \in {1, 2, 3, 4}
          OBVIOUS
        <4> QED BY <2>2, <3>3, <4>1, <4>2
      <3>6. CASE key \notin DOMAIN p \cup DOMAIN u
        <4>1. key = "timeoutMs" /\ mem.values[key] = 5000 /\ mem.origin[key] = "default"
          BY <3>1, <3>6, FilesSay
        <4>2. SaysOf([timeoutMs |-> 5000], key) = {5000}
          BY <4>1 DEF SaysOf
        <4>3. Right(6) /\ all[4][2] = {} /\ all[5][2] = {}
          BY <2>1, <3>6, <4>1, <4>2 DEF SaysOf
        <4>4. \A j \in 1 .. 6 - 1 : j \in {1, 2, 3, 4, 5}
          OBVIOUS
        <4> QED BY <2>2, <3>3, <4>3, <4>4
      <3> QED BY <3>4, <3>5, <3>6
    <2> QED BY <2>3, <2>4, <2>5, <2>6
  <1> QED BY <1>1, <1>2 DEF ConfigDone

-----------------------------------------------------------------------------
(* config reads the documents and lays the rest over them *)

Given ==
  /\ DOMAIN cmd.directories \subseteq Nat /\ \A file \in Documents : file # None => Document(file)
  /\ OnceAtMost(cmd.profileName) /\ OnceAtMost(cmd.environmentProfile)
ReadSoFar ==
  /\ DocumentsFit(mem.documents) /\ (mem.errors = {} => \A source \in DOMAIN mem.documents : ValidDocument(mem.documents[source]))
  /\ IF at = "defaults" THEN mem.values = <<>> /\ mem.origin = <<>> /\ DOMAIN mem.documents = {}
     ELSE mem.values = FileValues(mem.documents) /\ mem.origin = FileOrigins(mem.documents)
  /\ at = "user" => DOMAIN mem.documents = {}
  /\ at = "project" => DOMAIN mem.documents \subseteq {"user"}
ConfigPlaces == at \in {"defaults", "user", "project", "resolve"}

ConfigInv ==
  cmd.name = "config" =>
    /\ Given /\ {"values", "origin", "documents", "errors"} \subseteq DOMAIN mem
    /\ exit = Running => ConfigPlaces /\ ReadSoFar
    /\ exit = "0" => Accepted(cmd, mem.documents) /\ Laid(mem.documents) /\ DelaysFit(mem.values)

LEMMA ConfigInitially == ConfigInit => ConfigInv
  <1> SUFFICES ASSUME ConfigInit PROVE ConfigInv
    OBVIOUS
  <1>1. Given /\ at = "defaults" /\ mem = ConfigMemory /\ exit = Running
    BY DEF ConfigInit, Given, CommandInit
  <1>2. /\ {"values", "origin", "documents", "errors"} \subseteq DOMAIN ConfigMemory
        /\ ConfigMemory.values = <<>> /\ ConfigMemory.origin = <<>> /\ ConfigMemory.documents = <<>>
    BY DEF ConfigMemory, Amended
  <1>3. DOMAIN mem.documents = {}
    BY <1>1, <1>2
  <1> QED BY <1>1, <1>2, <1>3 DEF ConfigInv, ConfigPlaces, ReadSoFar, DocumentsFit, Running

\* What is put over nothing, and what nothing is put over.
LEMMA AmendedByNone == ASSUME NEW f, AFunction(f), NEW g, DOMAIN g = {} PROVE Amended(f, g) = f /\ AFunction(Amended(f, g))
  <1>1. Amended(f, g) = [x \in DOMAIN f |-> f[x]]
    BY DEF Amended
  <1> QED BY <1>1 DEF AFunction

LEMMA AmendedIs == \A f, g : AFunction(Amended(f, g))
  BY DEF Amended, AFunction

LEMMA FilesOfUser ==
  ASSUME NEW documents, DOMAIN documents \subseteq {"user"}
  PROVE  /\ FileValues(documents) = Amended([timeoutMs |-> 5000], SaidIn(documents, "user"))
         /\ FileOrigins(documents) = Amended([timeoutMs |-> "default"], [key \in DOMAIN SaidIn(documents, "user") |-> "user"])
  <1>1. DOMAIN SaidIn(documents, "project") = {}
    BY DEF SaidIn
  <1>2. DOMAIN [key \in DOMAIN SaidIn(documents, "project") |-> "project"] = {}
    BY <1>1
  <1> QED BY <1>1, <1>2, AmendedIs, AmendedByNone DEF FileValues, FileOrigins

OnlyDefaults(documents) == FileValues(documents) = [timeoutMs |-> 5000] /\ FileOrigins(documents) = [timeoutMs |-> "default"]

LEMMA FilesOfNone ==
  ASSUME NEW documents, DOMAIN documents = {} PROVE OnlyDefaults(documents)
  <1> USE DEF OnlyDefaults
  <1>1. DOMAIN SaidIn(documents, "user") = {}
    BY DEF SaidIn
  <1>2. DOMAIN [key \in DOMAIN SaidIn(documents, "user") |-> "user"] = {}
    BY <1>1
  <1>3. AFunction([timeoutMs |-> 5000]) /\ AFunction([timeoutMs |-> "default"])
    BY DEF AFunction
  <1>4. Amended([timeoutMs |-> 5000], SaidIn(documents, "user")) = [timeoutMs |-> 5000]
    BY <1>1, <1>3, AmendedByNone
  <1>5. Amended([timeoutMs |-> "default"], [key \in DOMAIN SaidIn(documents, "user") |-> "user"]) = [timeoutMs |-> "default"]
    BY <1>2, <1>3, AmendedByNone
  <1>6. /\ FileValues(documents) = Amended([timeoutMs |-> 5000], SaidIn(documents, "user"))
        /\ FileOrigins(documents) = Amended([timeoutMs |-> "default"], [key \in DOMAIN SaidIn(documents, "user") |-> "user"])
    <2>1. DOMAIN documents \subseteq {"user"}
      OBVIOUS
    <2> QED BY <2>1, FilesOfUser
  <1> QED BY <1>4, <1>5, <1>6

\* A document that is read is added, and put over what is there.
NextIs(source, documents) ==
  \/ source = "user" /\ DOMAIN documents = {}
  \/ source = "project" /\ DOMAIN documents \subseteq {"user"}
ReadInto(more, documents, file, source) ==
  /\ DocumentsFit(more) /\ DOMAIN more = DOMAIN documents \cup {source}
  /\ \A s \in DOMAIN more : more[s] = IF s = source THEN file ELSE documents[s]
  /\ FileValues(more) = Amended(FileValues(documents), file.values)
  /\ FileOrigins(more) = Amended(FileOrigins(documents), [key \in DOMAIN file.values |-> source])

LEMMA DocumentRead ==
  ASSUME NEW documents, DocumentsFit(documents), NEW file, Document(file), NEW source, NextIs(source, documents),
         NEW more, more = Amended(documents, [s \in {source} |-> file])
  PROVE  ReadInto(more, documents, file, source)
  <1> USE DEF NextIs, ReadInto
  <1>1. DOMAIN more = DOMAIN documents \cup {source} /\ \A s \in DOMAIN more : more[s] = IF s = source THEN file ELSE documents[s]
    BY DEF Amended
  <1>2. DocumentsFit(more)
    BY <1>1 DEF DocumentsFit
  <1>3. SaidIn(more, source) = file.values
    BY <1>1 DEF SaidIn
  <1>4. CASE source = "user" /\ DOMAIN documents = {}
    <2>1. DOMAIN more \subseteq {"user"}
      BY <1>1, <1>4
    <2> QED BY <1>1, <1>2, <1>3, <1>4, <2>1, FilesOfUser, FilesOfNone DEF OnlyDefaults
  <1>5. CASE source = "project" /\ DOMAIN documents \subseteq {"user"}
    <2>1. SaidIn(more, "user") = SaidIn(documents, "user")
      BY <1>1, <1>5 DEF SaidIn
    <2>2. /\ FileValues(more) = Amended(Amended([timeoutMs |-> 5000], SaidIn(documents, "user")), file.values)
          /\ FileOrigins(more) = Amended(Amended([timeoutMs |-> "default"], [key \in DOMAIN SaidIn(documents, "user") |-> "user"]),
                                         [key \in DOMAIN file.values |-> "project"])
      BY <1>3, <1>5, <2>1 DEF FileValues, FileOrigins
    <2> QED BY <1>1, <1>2, <1>5, <2>2, FilesOfUser
  <1> QED BY <1>4, <1>5

LeadsTo(source, next) == (source = "user" /\ next = "project") \/ (source = "project" /\ next = "resolve")

LEMMA ReadingKeeps ==
  ASSUME ConfigInv, cmd.name = "config", NEW source, NEW file, file # None => Document(file), NEW required, NEW next,
         LeadsTo(source, next), ReadDocument(source, file, required, next)
  PROVE  ConfigInv'
  <1> USE DEF LeadsTo
  <1>1. /\ at = source /\ exit = Running /\ cmd' = cmd /\ at' = next /\ exit' = exit
        /\ {"values", "origin", "documents", "errors"} \subseteq DOMAIN mem /\ Given /\ ReadSoFar /\ Running # "0"
    BY DEF ReadDocument, Decide, Awaiting, GoTo, ConfigInv, Running
  <1>2. CASE /\ IF file = None THEN FALSE ELSE file.json
             /\ Keep(Amended(Apply(file.values, source),
                       [documents |-> Amended(mem.documents, [s \in {source} |-> file]),
                        errors |-> mem.errors \cup (IF ValidDocument(file) THEN {} ELSE {source})]))
    <2> DEFINE fields == Amended(Apply(file.values, source),
                       [documents |-> Amended(mem.documents, [s \in {source} |-> file]),
                        errors |-> mem.errors \cup (IF ValidDocument(file) THEN {} ELSE {source})])
    <2>1. /\ DOMAIN fields = {"values", "origin", "documents", "errors"}
          /\ fields["values"] = Amended(mem.values, file.values)
          /\ fields["origin"] = Amended(mem.origin, [key \in DOMAIN file.values |-> source])
          /\ fields["documents"] = Amended(mem.documents, [s \in {source} |-> file])
          /\ fields["errors"] = mem.errors \cup (IF ValidDocument(file) THEN {} ELSE {source})
      BY DEF Apply, Amended
    <2>2. Keep(fields)
      BY <1>2
    <2> HIDE DEF fields
    <2>3. /\ DOMAIN mem' = DOMAIN mem
          /\ mem'.values = Amended(mem.values, file.values)
          /\ mem'.origin = Amended(mem.origin, [key \in DOMAIN file.values |-> source])
          /\ mem'.documents = Amended(mem.documents, [s \in {source} |-> file])
          /\ mem'.errors = mem.errors \cup (IF ValidDocument(file) THEN {} ELSE {source})
      BY <1>1, <2>1, <2>2 DEF Keep
    <2>4. Document(file)
      BY <1>2
    <2>5. /\ DocumentsFit(mem.documents)
          /\ NextIs(source, mem.documents)
          /\ mem.values = FileValues(mem.documents) /\ mem.origin = FileOrigins(mem.documents)
          /\ (mem.errors = {} => \A s \in DOMAIN mem.documents : ValidDocument(mem.documents[s]))
      BY <1>1 DEF ReadSoFar, NextIs
    <2>6. PICK more : more = mem'.documents
      OBVIOUS
    <2>10. ReadInto(more, mem.documents, file, source)
      BY <2>3, <2>4, <2>5, <2>6, DocumentRead
    <2>7. /\ DocumentsFit(more) /\ DOMAIN more = DOMAIN mem.documents \cup {source}
          /\ \A s \in DOMAIN more : more[s] = IF s = source THEN file ELSE mem.documents[s]
          /\ FileValues(more) = Amended(FileValues(mem.documents), file.values)
          /\ FileOrigins(more) = Amended(FileOrigins(mem.documents), [key \in DOMAIN file.values |-> source])
      BY <2>10 DEF ReadInto
    <2>8. mem'.errors = {} => \A s \in DOMAIN more : ValidDocument(more[s])
      BY <2>3, <2>5, <2>7
    <2>9. ReadSoFar'
      BY <1>1, <2>3, <2>5, <2>6, <2>7, <2>8 DEF ReadSoFar
    <2> QED BY <1>1, <2>3, <2>9 DEF ConfigInv, ConfigPlaces, Given, Documents
  <1>3. CASE Keep([errors |-> mem.errors \cup (IF required \/ file # None THEN {source} ELSE {})])
    <2>1. /\ DOMAIN mem' = DOMAIN mem /\ mem'.values = mem.values /\ mem'.origin = mem.origin /\ mem'.documents = mem.documents
          /\ mem.errors \subseteq mem'.errors
      BY <1>1, <1>3 DEF Keep
    <2>2. ReadSoFar'
      BY <1>1, <2>1 DEF ReadSoFar
    <2> QED BY <1>1, <2>1, <2>2 DEF ConfigInv, ConfigPlaces, Given, Documents
  <1> QED BY <1>2, <1>3 DEF ReadDocument, Decide

LEMMA NearestIsThere ==
  ASSUME Given, NEW unseen PROVE Nearest(unseen) # None => Nearest(unseen) \in Documents
  <1> DEFINE there == {i \in DOMAIN cmd.directories \ unseen : cmd.directories[i] # None}
  <1>1. CASE there = {}
    BY <1>1 DEF Nearest
  <1>2. CASE there # {}
    <2>1. there \in SUBSET Nat
      BY DEF Given
    <2>2. PICK k \in there : \A j \in there : k <= j
      BY <1>2, <2>1, Least
    <2> DEFINE one == CHOOSE i \in there : \A j \in there : i =< j
    <2>3. one \in there
      <3> HIDE DEF there
      <3> QED BY <2>2
    <2>4. Nearest(unseen) = cmd.directories[one]
      BY <1>2, Zenon DEF Nearest
    <2>5. one \in DOMAIN cmd.directories
      <3> HIDE DEF one
      <3> QED BY <2>3
    <2> HIDE DEF one, there
    <2> QED BY <2>4, <2>5 DEF Documents
  <1> QED BY <1>1, <1>2

LEMMA ProjectKeeps == ASSUME ConfigInv, cmd.name = "config", ReadProject PROVE ConfigInv'
  <1>1. Given
    BY DEF ConfigInv
  <1>2. CASE cmd.named.given /\ ReadDocument("project", cmd.named.file, TRUE, "resolve")
    <2>1. cmd.named.file # None => Document(cmd.named.file)
      BY <1>1 DEF Given, Documents
    <2>2. LeadsTo("project", "resolve")
      BY DEF LeadsTo
    <2> QED BY <1>2, <2>1, <2>2, ReadingKeeps
  <1>3. ASSUME NEW unseen, ReadDocument("project", Nearest(unseen), FALSE, "resolve") PROVE ConfigInv'
    <2>1. PICK file : file = Nearest(unseen)
      OBVIOUS
    <2>2. file # None => Document(file)
      BY <1>1, <2>1, NearestIsThere DEF Given
    <2>3. ReadDocument("project", file, FALSE, "resolve")
      BY <1>3, <2>1
    <2>4. LeadsTo("project", "resolve")
      BY DEF LeadsTo
    <2> QED BY <2>2, <2>3, <2>4, ReadingKeeps
  <1> QED BY <1>2, <1>3 DEF ReadProject

LEMMA DefaultsKeep ==
  ASSUME ConfigInv, cmd.name = "config", Decide("defaults", GoTo("user") /\ Keep(Apply([timeoutMs |-> 5000], "default")))
  PROVE  ConfigInv'
  <1>1. /\ at = "defaults" /\ exit = Running /\ cmd' = cmd /\ at' = "user" /\ exit' = exit
        /\ {"values", "origin", "documents", "errors"} \subseteq DOMAIN mem /\ Given /\ ReadSoFar /\ Running # "0"
        /\ Keep(Apply([timeoutMs |-> 5000], "default"))
    BY DEF Decide, Awaiting, GoTo, ConfigInv, Running
  <1>2. mem.values = <<>> /\ mem.origin = <<>> /\ DOMAIN mem.documents = {}
    BY <1>1 DEF ReadSoFar
  <1>3. /\ Amended(<<>>, [timeoutMs |-> 5000]) = [timeoutMs |-> 5000]
        /\ Amended(<<>>, [key \in DOMAIN [timeoutMs |-> 5000] |-> "default"]) = [timeoutMs |-> "default"]
    BY DEF Amended
  <1>4. /\ DOMAIN mem' = DOMAIN mem /\ mem'.values = [timeoutMs |-> 5000] /\ mem'.origin = [timeoutMs |-> "default"]
        /\ mem'.documents = mem.documents /\ mem'.errors = mem.errors
    BY <1>1, <1>2, <1>3 DEF Keep, Apply
  <1>5. mem'.values = FileValues(mem.documents) /\ mem'.origin = FileOrigins(mem.documents)
    <2>1. PICK documents : documents = mem.documents
      OBVIOUS
    <2>2. FileValues(documents) = [timeoutMs |-> 5000] /\ FileOrigins(documents) = [timeoutMs |-> "default"]
      <3>1. DOMAIN documents = {}
        BY <1>2, <2>1
      <3>2. OnlyDefaults(documents)
        BY <3>1, FilesOfNone
      <3> QED BY <3>2 DEF OnlyDefaults
    <2> QED BY <1>4, <2>1, <2>2
  <1>6. ReadSoFar'
    BY <1>1, <1>2, <1>4, <1>5 DEF ReadSoFar
  <1> QED BY <1>1, <1>4, <1>6 DEF ConfigInv, ConfigPlaces, Given, Documents

\* What goes over the files, as it is put together.
LEMMA ResolvedIs ==
  ASSUME NEW over, NEW chain, over = LayersOver(Profiles(cmd, mem.documents), chain), chain = ChainIn(cmd, mem.documents)
  PROVE  /\ over = OverIn(cmd, mem.documents)
         /\ [i \in DOMAIN over |-> [key \in DOMAIN over[i] |-> SourceOf(i, chain)]] = OriginsIn(cmd, mem.documents)
  <1>1. over = OverIn(cmd, mem.documents)
    BY DEF LayersOver, OverIn, EnvironmentIn, FromEnvironment
  <1> QED BY <1>1 DEF OriginsIn

LEMMA ResolveKeeps == ASSUME ConfigInv, cmd.name = "config", Resolve PROVE ConfigInv'
  <1> DEFINE documents == mem.documents
             selected == SelectedProfile
             chain == Chain(selected)
             known == \A n \in selected : Finds(DocumentOf("project").profiles, n) \/ Finds(DocumentOf("user").profiles, n)
             profiles == IF selected = {} \/ ~known THEN <<>>
                         ELSE DocumentOf(ProfileSource(CHOOSE n \in selected : TRUE)).profiles
             wrong == mem.errors \cup (IF known THEN {} ELSE {"profile"})
                        \cup (IF ValidEnvironment(cmd.environment) /\ (\A n \in cmd.environmentProfile : IsName(n))
                              THEN {} ELSE {"environment"})
             over == LayersOver(profiles, chain)
             values == Stack(mem.values, over)
             origin == Stack(mem.origin, [i \in DOMAIN over |-> [key \in DOMAIN over[i] |-> SourceOf(i, chain)]])
             unknown == \E i \in DOMAIN chain : chain[i] \notin DOMAIN profiles
  <1>1. /\ at = "resolve" /\ exit = Running /\ cmd' = cmd
        /\ {"values", "origin", "documents", "errors"} \subseteq DOMAIN mem /\ Given /\ ReadSoFar
    BY DEF Resolve, Decide, Awaiting, ConfigInv
  <1>2. /\ \A ps : Finish(ps) => exit' # Running /\ (ps # {} => exit' # "0")
        /\ Running # "0" /\ Running # "internal" /\ "internal" # "0"
    BY FinishIsOver DEF EndsAs, Running
  <1>3. \/ known /\ unknown /\ exit' = "internal" /\ UNCHANGED mem
        \/ wrong # {} /\ Finish({"input"}) /\ Keep([errors |-> wrong])
        \/ /\ ~(known /\ unknown) /\ wrong = {} /\ DelaysFit(values)
           /\ Finish({}) /\ Keep([values |-> values, origin |-> origin])
        \/ Finish({"input"}) /\ UNCHANGED mem
    BY Zenon DEF Resolve, Decide
  <1>4. CASE exit' # "0"
    <2>1. exit' # Running
      <3> HIDE DEF known, unknown, wrong, values, origin
      <3> QED BY <1>2, <1>3
    <2>2. {"values", "origin", "documents", "errors"} \subseteq DOMAIN mem'
      <3> HIDE DEF known, unknown, wrong, values, origin
      <3> QED BY <1>1, <1>3 DEF Keep
    <2> QED BY <1>1, <1>4, <2>1, <2>2 DEF ConfigInv, Given, Documents
  <1>5. CASE exit' = "0"
    <2>1. /\ ~(known /\ unknown) /\ wrong = {} /\ DelaysFit(values) /\ Keep([values |-> values, origin |-> origin])
      <3> HIDE DEF known, unknown, wrong, values, origin
      <3> QED BY <1>2, <1>3, <1>5
    <2>2. known /\ ~unknown /\ mem.errors = {}
      <3> HIDE DEF unknown, values, origin
      <3> QED BY <2>1
    <2>3. selected = Selects(cmd, documents)
      BY SelectedIs
    <2>4. \A source : DocumentOf(source) = DocIn(documents, source)
      BY DEF DocumentOf, DocIn
    <2>5. profiles = Profiles(cmd, documents)
      <3>1. CASE selected = {}
        BY <2>3, <3>1 DEF Profiles
      <3>2. CASE selected # {}
        <4> DEFINE n == ChosenName(cmd, documents)
        <4>1. profiles = DocumentOf(ProfileSource(n)).profiles
          BY <2>2, <2>3, <3>2 DEF ChosenName
        <4>2. ProfileSource(n) = TakenFrom(documents, n)
          BY ProfileIsTakenFrom
        <4> HIDE DEF profiles
        <4> QED BY <2>3, <2>4, <3>2, <4>1, <4>2 DEF Profiles
      <3> QED BY <3>1, <3>2
    <2>6. chain = ChainIn(cmd, documents)
      <3>1. CASE selected = {}
        BY <2>3, <3>1 DEF ChainIn, Chain
      <3>2. CASE selected # {}
        <4>1. chain = ResolveProfile(selected, profiles)
          BY <2>2, <3>2 DEF Chain
        <4> HIDE DEF chain, profiles, selected
        <4> QED BY <2>3, <2>5, <3>2, <4>1 DEF ChainIn
      <3> QED BY <3>1, <3>2
    <2>7. ProfileIsKnown(cmd, documents)
      <3>1. \A n \in selected : Finds(DocIn(documents, "project").profiles, n) \/ Finds(DocIn(documents, "user").profiles, n)
        BY <2>2, <2>4
      <3>2. \A i \in DOMAIN chain : chain[i] \in DOMAIN profiles
        BY <2>2
      <3> HIDE DEF chain, profiles, selected
      <3> QED BY <2>3, <2>5, <2>6, <3>1, <3>2 DEF ProfileIsKnown
    <2>8. Accepted(cmd, documents)
      BY <1>1, <2>2, <2>7 DEF Accepted, ReadSoFar, Given
    <2>9. mem.values = FileValues(documents) /\ mem.origin = FileOrigins(documents)
      BY <1>1 DEF ReadSoFar
    <2>10. values = Stack(FileValues(documents), OverIn(cmd, documents)) /\ origin = Stack(FileOrigins(documents), OriginsIn(cmd, documents))
      <3> HIDE DEF chain, profiles
      <3>1. over = LayersOver(Profiles(cmd, documents), chain)
        BY <2>5
      <3> HIDE DEF over
      <3>2. /\ over = OverIn(cmd, documents)
            /\ [i \in DOMAIN over |-> [key \in DOMAIN over[i] |-> SourceOf(i, chain)]] = OriginsIn(cmd, documents)
        BY <2>6, <3>1, ResolvedIs
      <3> QED BY <2>9, <3>2
    <2> HIDE DEF values, origin
    <2>11. DOMAIN mem' = DOMAIN mem /\ mem'.values = values /\ mem'.origin = origin /\ mem'.documents = documents
      BY <1>1, <2>1 DEF Keep
    <2>12. Laid(mem.documents)' /\ DelaysFit(mem.values)'
      BY <1>1, <2>1, <2>10, <2>11 DEF Laid, DelaysFit
    <2> QED BY <1>1, <1>2, <1>5, <2>8, <2>11, <2>12 DEF ConfigInv, Given, Documents
  <1> QED BY <1>4, <1>5

LEMMA ConfigKeeps == ASSUME ConfigInv, Config PROVE ConfigInv'
  <1>1. cmd.name = "config"
    BY DEF Config
  <1>2. CASE ReadDocument("user", cmd.user, FALSE, "project")
    <2>1. cmd.user # None => Document(cmd.user)
      BY <1>1 DEF ConfigInv, Given, Documents
    <2>2. LeadsTo("user", "project")
      BY DEF LeadsTo
    <2> QED BY <1>1, <1>2, <2>1, <2>2, ReadingKeeps
  <1> QED BY <1>1, <1>2, DefaultsKeep, ProjectKeeps, ResolveKeeps DEF Config

-----------------------------------------------------------------------------
(* init sets aside what it replaces *)

InitInv ==
  cmd.name = "init" =>
    /\ exit = Running => /\ at \in {"read-back", "remove-backup", "written"} => Ours \in facts
                         /\ at = "written" => Backup \notin facts
    /\ exit = "0" => InitDone

LEMMA InitInitially == InitConfigInit => InitInv
  BY DEF InitConfigInit, InitInv, CommandInit, Running

LEMMA InitKeeps == ASSUME InitInv, InitConfig PROVE InitInv'
  <1>1. cmd.name = "init" /\ Running # "0" /\ Ours # Backup /\ Ours # Foreign /\ Ours # Temp /\ Foreign # Backup
    BY DEF InitConfig, Running, Ours, Backup, Foreign, Temp
  <1>2. \A ps : Finish(ps) => exit' # Running /\ (exit' = "0" => problems' = {}) /\ problems' = problems \cup ps
    BY FinishIsOver DEF EndsAs
  <1>3. CASE ForeignFile
    BY <1>1, <1>3 DEF ForeignFile, command, InitInv, InitDone
  <1>4. CASE InitLooks
    BY <1>1, <1>2, <1>4 DEF InitLooks, Decide, Awaiting, GoTo, InitInv, InitDone
  <1>5. CASE InitWrites
    <2> USE DEF FileCall, Awaiting, GoTo
    <2>1. CASE \/ FileCall("write", facts \cup {Temp}, IF mem.exists THEN "set-aside" ELSE "install")
               \/ FileCall("set-aside", (facts \ {Foreign}) \cup {Backup}, "install")
      BY <1>1, <2>1 DEF InitInv
    <2>2. CASE FileCall("install", (facts \ {Temp, Foreign}) \cup {Ours}, "read-back")
      BY <1>1, <2>2 DEF InitInv
    <2>3. CASE FileCall("read-back", facts, "remove-backup")
      BY <1>1, <2>3 DEF InitInv
    <2>4. CASE FileCall("remove-backup", facts \ {Backup}, "written")
      BY <1>1, <2>4 DEF InitInv
    <2>5. CASE Decide("written", Finish({}) /\ UNCHANGED mem)
      BY <1>1, <1>2, <2>5 DEF Decide, InitInv, InitDone
    <2> QED BY <1>5, <2>1, <2>2, <2>3, <2>4, <2>5 DEF InitWrites
  <1>6. CASE InitUndone
    BY <1>1, <1>2, <1>6 DEF InitUndone, Awaiting, InitInv
  <1> QED BY <1>3, <1>4, <1>5, <1>6 DEF InitConfig

-----------------------------------------------------------------------------
(* The files that fit *)

SelectTable(table) ==
  LET seq == [i \in DOMAIN cmd.objects |-> i]
  IN  table = [s \in SUBSET DOMAIN seq |->
        IF s = {} THEN [files |-> <<>>, size |-> 0]
        ELSE IF \/ ~Eligible(seq[Max(s)]) \/ Len(table[s \ {Max(s)}].files) >= ProviderFileLimit
                \/ table[s \ {Max(s)}].size + cmd.objects[seq[Max(s)]].size > ProviderTotalSize
             THEN table[s \ {Max(s)}]
             ELSE [files |-> Append(table[s \ {Max(s)}].files, seq[Max(s)]),
                   size |-> table[s \ {Max(s)}].size + cmd.objects[seq[Max(s)]].size]]

LEMMA SelectIs == SelectFiles = (CHOOSE table : SelectTable(table))[DOMAIN [i \in DOMAIN cmd.objects |-> i]].files
  BY Zenon DEF SelectFiles, FoldLeft, MapThenFoldSet, SelectTable

\* What a file does to those that are taken before it.
TakeOne(chosen, i) ==
  IF ~Eligible(i) \/ Len(chosen.files) >= ProviderFileLimit \/ chosen.size + cmd.objects[i].size > ProviderTotalSize
  THEN chosen ELSE [files |-> Append(chosen.files, i), size |-> chosen.size + cmd.objects[i].size]

Listed == cmd.objects \in Seq([native : BOOLEAN, size : Nat])

LEMMA ListIs ==
  ASSUME Listed
  PROVE  /\ Len(cmd.objects) \in Nat /\ DOMAIN cmd.objects = 1 .. Len(cmd.objects)
         /\ \A i \in 1 .. Len(cmd.objects) : cmd.objects[i].size \in Nat
  <1>1. PICK objects \in Seq([native : BOOLEAN, size : Nat]) : objects = cmd.objects
    BY DEF Listed
  <1>2. Len(objects) \in Nat /\ DOMAIN objects = 1 .. Len(objects)
    OBVIOUS
  <1>3. ASSUME NEW i \in 1 .. Len(objects) PROVE objects[i].size \in Nat
    <2>1. objects[i] \in [native : BOOLEAN, size : Nat]
      <3> DEFINE R == [native : BOOLEAN, size : Nat]
      <3> HIDE DEF R
      <3>1. objects \in Seq(R)
        BY DEF R
      <3>2. objects[i] \in R
        BY <1>2, <3>1
      <3> QED BY <3>2 DEF R
    <2> QED BY <2>1
  <1> QED BY <1>1, <1>2, <1>3

LEMMA SelectTableExists ==
  ASSUME Listed
  PROVE  \E table : SelectTable(table)
  <1> DEFINE n == Len(cmd.objects)
             A == [files : Seq(Nat), size : Nat]
             base == [files |-> <<>>, size |-> 0]
             step == [one \in (1 .. n) \X A |-> TakeOne(one[2], one[1])]
  <1>0. n \in Nat /\ DOMAIN cmd.objects = 1 .. n /\ \A i \in 1 .. n : cmd.objects[i].size \in Nat
    BY ListIs
  <1>1. base \in A
    OBVIOUS
  <1>2. ASSUME NEW i \in 1 .. n, NEW a \in A PROVE TakeOne(a, i) \in A
    <2>1. a.files \in Seq(Nat) /\ a.size \in Nat /\ i \in Nat /\ cmd.objects[i].size \in Nat
      BY <1>0
    <2>2. Append(a.files, i) \in Seq(Nat) /\ a.size + cmd.objects[i].size \in Nat
      BY <2>1
    <2> QED BY <2>2 DEF TakeOne
  <1> HIDE DEF A, base, n
  <1>3. step \in [(1 .. n) \X A -> A]
    BY <1>2
  <1> HIDE DEF step
  <1>4. FoldsSequence(n, A, step, base)
    BY <1>0, <1>1, <1>3 DEF FoldsSequence
  <1>5. PICK table : SequenceTable(n, A, step, base, table)
    BY <1>4, SequenceTableExists, Zenon
  <1>6. /\ table \in [SUBSET (1 .. n) -> A]
        /\ \A s \in SUBSET (1 .. n) : table[s] = IF s = {} THEN base ELSE step[<<Max(s), table[s \ {Max(s)}]>>]
    BY <1>5 DEF SequenceTable
  <1>7. ASSUME NEW s \in SUBSET (1 .. n), s # {} PROVE table[s] = TakeOne(table[s \ {Max(s)}], Max(s))
    <2>1. Max(s) \in 1 .. n /\ Max(s) \in s /\ s \ {Max(s)} \in SUBSET (1 .. n)
      BY <1>0, <1>7, LastIsThere
    <2>2. table[s \ {Max(s)}] \in A
      BY <1>6, <2>1
    <2> QED BY <1>6, <1>7, <2>1, <2>2 DEF step
  <1> DEFINE seq == [i \in DOMAIN cmd.objects |-> i]
  <1>8. DOMAIN seq = 1 .. n /\ \A s \in SUBSET (1 .. n) : s # {} => seq[Max(s)] = Max(s)
    BY <1>0, LastIsThere
  <1> HIDE DEF seq
  <1>9. table = [s \in SUBSET DOMAIN seq |-> table[s]]
    BY <1>6, <1>8
  <1>10. \A s \in SUBSET DOMAIN seq : table[s] =
        IF s = {} THEN [files |-> <<>>, size |-> 0]
        ELSE IF \/ ~Eligible(seq[Max(s)]) \/ Len(table[s \ {Max(s)}].files) >= ProviderFileLimit
                \/ table[s \ {Max(s)}].size + cmd.objects[seq[Max(s)]].size > ProviderTotalSize
             THEN table[s \ {Max(s)}]
             ELSE [files |-> Append(table[s \ {Max(s)}].files, seq[Max(s)]),
                   size |-> table[s \ {Max(s)}].size + cmd.objects[seq[Max(s)]].size]
    BY <1>6, <1>7, <1>8 DEF TakeOne, base
  <1>11. SelectTable(table)
    BY <1>9, <1>10 DEF SelectTable, seq
  <1> QED BY <1>11

SizeOf(objects, files) == SumFunctionOnSet([i \in DOMAIN objects |-> objects[i].size], files)

\* They are within the limits, and each that was left out would not have been.
Fits(objects, files) ==
  /\ files \subseteq DOMAIN objects /\ IsFiniteSet(files)
  /\ Cardinality(files) <= ProviderFileLimit /\ SizeOf(objects, files) <= ProviderTotalSize
  /\ \A i \in DOMAIN objects \ files :
       objects[i].native /\ objects[i].size <= ProviderFileSize =>
         Cardinality(files) = ProviderFileLimit \/ SizeOf(objects, files) + objects[i].size > ProviderTotalSize

\* Of the first ones, those that are taken.
TakenOf(k, chosen) ==
  /\ chosen.files \in Seq(Nat) /\ chosen.size \in Nat
  /\ ToSet(chosen.files) \subseteq 1 .. k /\ IsFiniteSet(ToSet(chosen.files))
  /\ Cardinality(ToSet(chosen.files)) = Len(chosen.files) /\ Len(chosen.files) <= ProviderFileLimit
  /\ chosen.size = SizeOf(cmd.objects, ToSet(chosen.files)) /\ chosen.size <= ProviderTotalSize
  /\ \A i \in (1 .. k) \ ToSet(chosen.files) :
       Eligible(i) => Len(chosen.files) = ProviderFileLimit \/ chosen.size + cmd.objects[i].size > ProviderTotalSize

LEMMA NextIsTaken ==
  ASSUME Listed, NEW k \in 1 .. Len(cmd.objects), NEW chosen, TakenOf(k - 1, chosen)
  PROVE  TakenOf(k, TakeOne(chosen, k))
  <1>1. /\ Len(cmd.objects) \in Nat /\ DOMAIN cmd.objects = 1 .. Len(cmd.objects) /\ ProviderFileLimit \in Nat
        /\ \A i \in 1 .. Len(cmd.objects) : cmd.objects[i].size \in Nat
    BY ListIs, ProviderAssumption
  <1>2. 1 .. k = (1 .. k - 1) \cup {k} /\ k \notin 1 .. k - 1 /\ k \in Nat
    BY <1>1
  <1> DEFINE old == ToSet(chosen.files)
             size == cmd.objects[k].size
  <1>3. /\ chosen.files \in Seq(Nat) /\ Len(chosen.files) \in Nat /\ chosen.size \in Nat /\ size \in Nat
        /\ old \subseteq 1 .. k - 1 /\ IsFiniteSet(old) /\ Cardinality(old) = Len(chosen.files)
        /\ Len(chosen.files) <= ProviderFileLimit /\ chosen.size = SizeOf(cmd.objects, old) /\ chosen.size <= ProviderTotalSize
        /\ \A i \in (1 .. k - 1) \ old :
             Eligible(i) => Len(chosen.files) = ProviderFileLimit \/ chosen.size + cmd.objects[i].size > ProviderTotalSize
    BY <1>1 DEF TakenOf
  <1>4. CASE ~Eligible(k) \/ Len(chosen.files) >= ProviderFileLimit \/ chosen.size + size > ProviderTotalSize
    <2>1. TakeOne(chosen, k) = chosen
      BY <1>4 DEF TakeOne
    <2>2. \A i \in (1 .. k) \ old :
             Eligible(i) => Len(chosen.files) = ProviderFileLimit \/ chosen.size + cmd.objects[i].size > ProviderTotalSize
      <3> SUFFICES ASSUME NEW i \in (1 .. k) \ old, Eligible(i), Len(chosen.files) # ProviderFileLimit
                   PROVE  chosen.size + cmd.objects[i].size > ProviderTotalSize
        OBVIOUS
      <3>1. CASE i = k
        BY <1>1, <1>3, <1>4, <3>1
      <3>2. CASE i # k
        BY <1>2, <1>3, <3>2
      <3> QED BY <3>1, <3>2
    <2> QED BY <1>2, <1>3, <2>1, <2>2 DEF TakenOf
  <1>5. CASE Eligible(k) /\ ~(Len(chosen.files) >= ProviderFileLimit) /\ ~(chosen.size + size > ProviderTotalSize)
    <2> DEFINE files == Append(chosen.files, k)
               new == chosen.size + size
               f == [i \in DOMAIN cmd.objects |-> cmd.objects[i].size]
    <2>1. TakeOne(chosen, k).files = files /\ TakeOne(chosen, k).size = new
      BY <1>5 DEF TakeOne
    <2>2. ToSet(files) = old \cup {k}
      BY <1>2, <1>3, SetOfAppend
    <2>3. k \notin old
      BY <1>2, <1>3
    <2>4. IsFiniteSet(old \cup {k}) /\ Cardinality(old \cup {k}) = Cardinality(old) + 1
      BY <1>3, <2>3, FS_AddElement
    <2>5. files \in Seq(Nat) /\ Len(files) = Len(chosen.files) + 1
      BY <1>2, <1>3
    <2>6. SizeOf(cmd.objects, old \cup {k}) = size + chosen.size
      <3>1. \A x \in old \cup {k} : f[x] \in Nat /\ f[x] = cmd.objects[x].size
        BY <1>1, <1>2, <1>3
      <3>2. f[k] = size
        BY <3>1
      <3> HIDE DEF f, old
      <3>3. SumFunctionOnSet(f, old \cup {k}) = f[k] + SumFunctionOnSet(f, old)
        BY <1>3, <2>3, <3>1, SumAdds
      <3> QED BY <1>3, <3>2, <3>3 DEF SizeOf, f
    <2> HIDE DEF files, old, new
    <2>7. ASSUME NEW i \in (1 .. k) \ (old \cup {k}), Eligible(i)
          PROVE  Len(files) = ProviderFileLimit \/ new + cmd.objects[i].size > ProviderTotalSize
      <3>1. i \in (1 .. k - 1) \ old /\ cmd.objects[i].size \in Nat /\ ProviderTotalSize \in Nat
        BY <1>1, <1>2 DEF ProviderTotalSize
      <3>2. chosen.size + cmd.objects[i].size > ProviderTotalSize
        BY <1>1, <1>3, <1>5, <2>7, <3>1
      <3> QED BY <1>3, <3>1, <3>2 DEF new
    <2>8. old \cup {k} \subseteq 1 .. k
      BY <1>2, <1>3
    <2>9. new \in Nat /\ new <= ProviderTotalSize /\ Len(files) <= ProviderFileLimit
      <3>1. chosen.size \in Nat /\ size \in Nat /\ ~(chosen.size + size > ProviderTotalSize) /\ ProviderTotalSize \in Nat
        BY <1>3, <1>5 DEF ProviderTotalSize
      <3>2. Len(chosen.files) \in Nat /\ ProviderFileLimit \in Nat /\ ~(Len(chosen.files) >= ProviderFileLimit)
        BY <1>1, <1>3, <1>5
      <3>3. new \in Nat /\ new <= ProviderTotalSize
        <4> HIDE DEF size
        <4> QED BY <3>1 DEF new
      <3> QED BY <2>5, <3>2, <3>3
    <2>10. new = SizeOf(cmd.objects, old \cup {k}) /\ Cardinality(old \cup {k}) = Len(files)
      BY <1>3, <2>4, <2>5, <2>6 DEF new
    <2> QED BY <2>1, <2>2, <2>4, <2>5, <2>7, <2>8, <2>9, <2>10 DEF TakenOf
  <1> QED BY <1>4, <1>5

LEMMA SelectionFits ==
  ASSUME Listed
  PROVE  SelectFiles \in Seq(Nat) /\ Fits(cmd.objects, ToSet(SelectFiles))
  <1> DEFINE table == CHOOSE t : SelectTable(t)
             n == Len(cmd.objects)
             seq == [i \in DOMAIN cmd.objects |-> i]
  <1>0. n \in Nat /\ DOMAIN cmd.objects = 1 .. n /\ ProviderFileLimit \in Nat
    BY ListIs, ProviderAssumption
  <1>1. SelectTable(table)
    BY SelectTableExists
  <1>2. SelectFiles = table[1 .. n].files
    BY <1>0, SelectIs
  <1> HIDE DEF table
  <1>3. ASSUME NEW k \in 1 .. n PROVE table[1 .. k] = TakeOne(table[1 .. k - 1], k)
    <2>1. 1 .. k \in SUBSET DOMAIN seq /\ 1 .. k # {} /\ Max(1 .. k) = k /\ (1 .. k) \ {k} = 1 .. k - 1 /\ seq[k] = k
      BY <1>0, LastOfPrefix
    <2> DEFINE body(s) ==
          IF s = {} THEN [files |-> <<>>, size |-> 0]
          ELSE IF \/ ~Eligible(seq[Max(s)]) \/ Len(table[s \ {Max(s)}].files) >= ProviderFileLimit
                  \/ table[s \ {Max(s)}].size + cmd.objects[seq[Max(s)]].size > ProviderTotalSize
               THEN table[s \ {Max(s)}]
               ELSE [files |-> Append(table[s \ {Max(s)}].files, seq[Max(s)]),
                     size |-> table[s \ {Max(s)}].size + cmd.objects[seq[Max(s)]].size]
    <2>2. table = [s \in SUBSET DOMAIN seq |-> body(s)]
      BY <1>1, Zenon DEF SelectTable
    <2> HIDE DEF seq
    <2>3. table[1 .. k] = body(1 .. k)
      <3> HIDE DEF body
      <3> QED BY <2>1, <2>2
    <2> QED BY <2>1, <2>3 DEF TakeOne
  <1>4. table[1 .. 0] = [files |-> <<>>, size |-> 0]
    <2>1. 1 .. 0 = {}
      OBVIOUS
    <2> QED BY <1>1, <2>1 DEF SelectTable
  <1> HIDE DEF n, seq
  <1> DEFINE Fails == {k \in Nat : k <= n /\ ~TakenOf(k, table[1 .. k])}
  <1>5. ASSUME Fails # {} PROVE FALSE
    <2>1. PICK k \in Fails : \A m \in Fails : k <= m
      BY <1>5, Least
    <2>2. k \in Nat /\ k <= n /\ ~TakenOf(k, table[1 .. k])
      OBVIOUS
    <2>3. CASE k = 0
      <3> DEFINE none == [files |-> <<>>, size |-> 0]
      <3>1. ToSet(none.files) = {} /\ 1 .. 0 = {} /\ none.files \in Seq(Nat) /\ Len(none.files) = 0 /\ none.size = 0
        BY DEF ToSet
      <3>2. IsFiniteSet({}) /\ Cardinality({}) = 0 /\ SizeOf(cmd.objects, {}) = 0
        BY FS_EmptySet, SumOfNone DEF SizeOf
      <3> HIDE DEF none, Fails
      <3>3. TakenOf(0, none)
        BY <1>0, <3>1, <3>2 DEF TakenOf, ProviderTotalSize
      <3> QED BY <1>4, <2>2, <2>3, <3>3 DEF none
    <2>4. CASE k # 0
      <3>1. k \in 1 .. n /\ k - 1 \in Nat /\ k - 1 <= n /\ k - 1 \notin Fails
        BY <1>0, <2>1, <2>2, <2>4
      <3>2. TakenOf(k - 1, table[1 .. k - 1])
        BY <3>1
      <3>3. TakenOf(k, TakeOne(table[1 .. k - 1], k))
        BY <3>1, <3>2, NextIsTaken DEF n
      <3> QED BY <1>3, <2>2, <3>1, <3>3
    <2> QED BY <2>3, <2>4
  <1>6. TakenOf(n, table[1 .. n])
    BY <1>0, <1>5
  <1>7. PICK chosen : chosen = table[1 .. n]
    OBVIOUS
  <1>8. TakenOf(n, chosen) /\ SelectFiles = chosen.files
    BY <1>2, <1>6, <1>7
  <1> QED BY <1>0, <1>8 DEF TakenOf, Fits, Eligible

-----------------------------------------------------------------------------
(* test retains what there is, and then says how it went *)

Retaining == {"temp", "list", "provider", "copy", "chmod", "manifest", "texts", "rename", "retained"}
BeforeRetaining ==
  {"input", "token", "post", "models", "versions", "run", "observe", "discover", "preflight", "execute", "collect"}
Here == {i \in DOMAIN cmd.objects : <<"provider", i>> \in facts}

TestShape ==
  /\ cmd.kind \in {"firebase", "gradle"} /\ Listed
  /\ {"outcome", "left", "collection", "reports"} \subseteq DOMAIN mem

\* What brought the command where it is.
PlaceFits ==
  /\ at \in BeforeRetaining \cup Retaining \cup {"undo"}
  /\ at \in {"token", "post"} => cmd.action = "cancel"
  /\ at = "discover" => cmd.task = None
  /\ cmd.kind = "firebase" /\ at \in {"run", "observe"} \cup Retaining => Permitted
  /\ at = "retained" => Ours \in facts

\* What a run without a problem is known to have come to.
OutcomeFits ==
  /\ at \in Retaining /\ mem.outcome = {} =>
       /\ cmd.kind = "firebase" => {<<"matrix", "passed">>, <<"matrix", "flaky">>} \cap facts # {}
       /\ cmd.kind = "gradle" => <<"report", "fresh", "failed">> \notin mem.reports
  /\ cut => at \in Retaining \cup {"collect", "undo"} /\ (at # "undo" => mem.outcome # {})

\* The files of the listing that are here, or are still to come.
Comes(left, files) == left \in Seq(Nat) /\ ToSet(left) \subseteq files /\ files \subseteq Here \cup ToSet(left)
FilesFit ==
  /\ at \in BeforeRetaining \cup {"temp", "list"} => Here = {}
  /\ mem.collection = "complete" => at \in {"manifest", "texts", "rename", "retained", "undo"}
  /\ \E files : /\ Fits(cmd.objects, files) /\ Here \subseteq files
                /\ at \in {"provider", "copy"} => Comes(mem.left, files)
                /\ at = "chmod" => mem.left \in Seq(Nat) /\ mem.left # <<>> /\ Comes(Tail(mem.left), files)
                /\ mem.collection = "complete" => Here = files

TestInv ==
  cmd.name = "test" =>
    /\ TestShape
    /\ exit = Running => PlaceFits /\ OutcomeFits /\ FilesFit
    /\ exit = "0" => ~cut /\ (cmd.dryRun \/ (FirebaseDone /\ GradleDone))

LEMMA TestInitially == TestInit => TestInv
  <1> SUFFICES ASSUME TestInit PROVE TestInv
    OBVIOUS
  <1>1. /\ cmd.kind \in {"firebase", "gradle"} /\ Listed /\ Here = {} /\ at = "input" /\ mem = TestMemory
        /\ exit = Running /\ ~cut
    BY DEF TestInit, Listed, Here, CommandInit
  <1>2. {"outcome", "left", "collection", "reports"} \subseteq DOMAIN TestMemory /\ TestMemory.collection = "none"
    BY DEF TestMemory, Amended
  <1>3. Fits(cmd.objects, ToSet(SelectFiles))
    BY <1>1, SelectionFits
  <1>4. FilesFit
    BY <1>1, <1>2, <1>3 DEF FilesFit
  <1>5. PlaceFits /\ OutcomeFits
    BY <1>1 DEF PlaceFits, OutcomeFits, BeforeRetaining, Retaining
  <1> QED BY <1>1, <1>2, <1>4, <1>5 DEF TestInv, TestShape, Running

\* What holds of every step of the command.
Tested ==
  /\ cmd.name = "test" /\ exit = Running /\ exit # "0" /\ cmd' = cmd
  /\ TestShape /\ PlaceFits /\ OutcomeFits /\ FilesFit

LEMMA TestedIs == ASSUME TestInv, cmd.name = "test", exit = Running, cmd' = cmd PROVE Tested
  BY DEF TestInv, Tested, Running

\* It has ended, and not as if all were well.
LEMMA FailureKeeps ==
  ASSUME Tested, DOMAIN mem' = DOMAIN mem, exit' # Running, exit' # "0" PROVE TestInv'
  BY DEF Tested, TestInv, TestShape, Listed

\* It has ended, and there was nothing to be done.
LEMMA NothingToDoKeeps ==
  ASSUME Tested, DOMAIN mem' = DOMAIN mem, exit' # Running, exit' = "0" => ~cut',
         \/ cmd.dryRun
         \/ cmd.kind = "firebase" /\ cmd.action \in {"cancel", "devices"}
         \/ cmd.kind = "gradle" /\ cmd.task = None
  PROVE  TestInv'
  BY DEF Tested, TestInv, TestShape, Listed, FirebaseDone, GradleDone

\* It goes on, before anything is retained or with nothing of the provider's here.
LEMMA EarlyKeeps ==
  ASSUME Tested, DOMAIN mem' = DOMAIN mem, exit' = Running,
         at \in BeforeRetaining \cup {"temp", "list"}, at' \in BeforeRetaining \cup {"temp", "list", "texts", "undo"},
         \A f \in facts' \ facts : f[1] # "provider", mem'.collection # "complete",
         PlaceFits', OutcomeFits'
  PROVE  TestInv'
  <1>1. Here' = {}
    <2>1. Here = {}
      BY DEF Tested, FilesFit
    <2>2. \A i : <<"provider", i>> \in facts' => <<"provider", i>> \in facts
      OBVIOUS
    <2> QED BY <2>1, <2>2 DEF Here, Tested
  <1>2. Fits(cmd.objects, ToSet(SelectFiles))
    BY SelectionFits DEF Tested, TestShape
  <1>3. PICK files : files = ToSet(SelectFiles)
    OBVIOUS
  <1>4. Fits(cmd'.objects, files)
    BY <1>2, <1>3 DEF Tested
  <1>5. FilesFit'
    BY <1>1, <1>4 DEF FilesFit, BeforeRetaining
  <1> QED BY <1>5 DEF Tested, TestInv, TestShape, Listed, Running

\* It goes on with what is retained; the files are as they were.
LEMMA LaterKeeps ==
  ASSUME Tested, mem' = mem, exit' = Running, cut' = cut, at \in {"provider", "manifest", "texts", "rename"},
         at' = "copy" \/ (at' \in {"texts", "rename", "retained"} /\ at # "provider") \/ at' = "undo",
         at' = "copy" => at = "provider", at' = "retained" => Ours \in facts',
         facts \subseteq facts' \cup {Temp}, \A f \in facts' \ facts : f[1] # "provider"
  PROVE  TestInv'
  <1>1. Here' = Here
    BY DEF Here, Tested, Temp
  <1>2. FilesFit'
    <2>1. PICK files : /\ Fits(cmd.objects, files) /\ Here \subseteq files
                       /\ at \in {"provider", "copy"} => Comes(mem.left, files)
                       /\ mem.collection = "complete" => Here = files
      BY DEF Tested, FilesFit
    <2>2. Fits(cmd'.objects, files)
      BY <2>1 DEF Tested
    <2> QED BY <1>1, <2>1, <2>2 DEF Tested, FilesFit, BeforeRetaining, Comes
  <1>3. PlaceFits'
    BY DEF Tested, PlaceFits, Retaining, BeforeRetaining, Permitted
  <1>4. OutcomeFits'
    BY DEF Tested, OutcomeFits, Retaining, BeforeRetaining, Temp
  <1> QED BY <1>2, <1>3, <1>4 DEF Tested, TestInv, TestShape, Listed, Running

LEMMA EndingKnows == \A ps : Finish(ps) => at' = "ended" /\ exit' # Running /\ (exit' = "0" => problems' = {}) /\ problems' = problems \cup ps
  BY FinishIsOver DEF EndsAs

LEMMA MatrixKeeps == ASSUME TestInv, cmd.name = "test", MatrixEnds PROVE TestInv'
  <1>1. /\ Tested /\ UNCHANGED <<at, mem, exit, cut>>
    BY TestedIs DEF MatrixEnds, command
  <1>2. PICK verdict : facts' = (facts \ {<<"matrix", "running">>}) \cup {<<"matrix", verdict>>}
    BY DEF MatrixEnds
  <1>3. Here' = Here
    BY <1>1, <1>2 DEF Here, Tested
  <1>4. FilesFit'
    <2>1. PICK files : /\ Fits(cmd.objects, files) /\ Here \subseteq files
                       /\ at \in {"provider", "copy"} => Comes(mem.left, files)
                       /\ at = "chmod" => mem.left \in Seq(Nat) /\ mem.left # <<>> /\ Comes(Tail(mem.left), files)
                       /\ mem.collection = "complete" => Here = files
      BY <1>1 DEF Tested, FilesFit
    <2>2. Fits(cmd'.objects, files)
      BY <1>1, <2>1 DEF Tested
    <2>3. \A left : Comes(left, files) => Comes(left, files)'
      BY <1>3 DEF Comes
    <2> QED BY <1>1, <1>3, <2>1, <2>2, <2>3 DEF Tested, FilesFit
  <1>5. PlaceFits'
    BY <1>1, <1>2 DEF Tested, PlaceFits, Permitted, Ours
  <1>6. OutcomeFits'
    BY <1>1, <1>2 DEF Tested, OutcomeFits
  <1> QED BY <1>1, <1>4, <1>5, <1>6 DEF Tested, TestInv, TestShape, Listed, Running

LEMMA FirebaseInputKeeps ==
  ASSUME TestInv, cmd.name = "test", cmd.kind = "firebase", FirebaseInput PROVE TestInv'
  <1>1. /\ at = "input" /\ exit = Running /\ UNCHANGED <<cmd, facts, mem, cut>>
    BY DEF FirebaseInput, Decide, Awaiting
  <1>2. Tested /\ ~cut /\ mem.collection # "complete"
    BY <1>1, TestedIs DEF Tested, OutcomeFits, Retaining, FilesFit
  <1>3. \/ \E ps : Finish(ps) /\ (ps = {} => cmd.dryRun)
        \/ GoTo("token") /\ cmd.action = "cancel"
        \/ GoTo("models")
    BY DEF FirebaseInput, Decide, CancelInput, RunInput
  <1>4. CASE \E ps : Finish(ps) /\ (ps = {} => cmd.dryRun)
    <2>1. PICK ps : Finish(ps) /\ (ps = {} => cmd.dryRun)
      BY <1>4
    <2>2. exit' # Running /\ (exit' = "0" => ps = {})
      BY <2>1, EndingKnows
    <2>3. CASE exit' = "0"
      BY <1>1, <1>2, <2>1, <2>2, <2>3, NothingToDoKeeps
    <2>4. CASE exit' # "0"
      BY <1>1, <1>2, <2>2, <2>4, FailureKeeps
    <2> QED BY <2>3, <2>4
  <1>5. CASE \/ GoTo("token") /\ cmd.action = "cancel"
             \/ GoTo("models")
    <2>1. exit' = Running /\ ((at' = "token" /\ cmd.action = "cancel") \/ at' = "models")
      BY <1>1, <1>5 DEF GoTo
    <2>2. PlaceFits' /\ OutcomeFits'
      BY <1>1, <1>2, <2>1 DEF PlaceFits, OutcomeFits, BeforeRetaining, Retaining
    <2>3. at \in BeforeRetaining /\ at' \in BeforeRetaining
      BY <1>1, <2>1 DEF BeforeRetaining
    <2> QED BY <1>1, <1>2, <2>1, <2>2, <2>3, EarlyKeeps
  <1> QED BY <1>3, <1>4, <1>5

LEMMA CancelKeeps ==
  ASSUME TestInv, cmd.name = "test", cmd.kind = "firebase", CancelMatrix PROVE TestInv'
  <1>1. /\ at \in {"token", "post"} /\ exit = Running /\ UNCHANGED <<cmd, mem, cut>>
        /\ (exit' = Running => at = "token" /\ at' = "post" /\ UNCHANGED facts)
    BY EndingKnows DEF CancelMatrix, Ask, Awaiting, SettlesAlone, GoTo
  <1>2. Tested /\ ~cut /\ mem.collection # "complete" /\ cmd.action = "cancel"
    BY <1>1, TestedIs DEF Tested, OutcomeFits, Retaining, FilesFit, PlaceFits
  <1>3. CASE exit' # Running
    BY <1>1, <1>2, <1>3, NothingToDoKeeps
  <1>4. CASE exit' = Running
    <2>1. PlaceFits' /\ OutcomeFits'
      BY <1>1, <1>2, <1>4 DEF PlaceFits, OutcomeFits, BeforeRetaining, Retaining
    <2>2. at \in BeforeRetaining /\ at' \in BeforeRetaining
      BY <1>1, <1>4 DEF BeforeRetaining
    <2> QED BY <1>1, <1>2, <1>4, <2>1, <2>2, EarlyKeeps
  <1> QED BY <1>3, <1>4

LEMMA CatalogKeeps ==
  ASSUME TestInv, cmd.name = "test", cmd.kind = "firebase", ReadCatalog PROVE TestInv'
  <1>1. /\ at \in {"models", "versions"} /\ exit = Running /\ UNCHANGED <<cmd, facts, mem, cut>>
        /\ \/ \E ps : Finish(ps) /\ (ps = {} => cmd.dryRun \/ cmd.action = "devices")
           \/ GoTo("versions")
           \/ GoTo("run") /\ Permitted
    <2>1. CASE Ask("models", {"environment", "child"}, GoTo("versions"))
      BY <2>1 DEF Ask, Awaiting, SettlesAlone
    <2>2. CASE Ask("versions", {"environment", "child"},
       IF cmd.action = "devices" THEN Finish({})
       ELSE IF ~Permitted THEN Finish({"input"}) ELSE IF cmd.dryRun THEN Finish({}) ELSE GoTo("run"))
      BY <2>2 DEF Ask, Awaiting, SettlesAlone
    <2> QED BY <2>1, <2>2 DEF ReadCatalog
  <1>2. Tested /\ ~cut /\ mem.collection # "complete"
    BY <1>1, TestedIs DEF Tested, OutcomeFits, Retaining, FilesFit
  <1>4. CASE \E ps : Finish(ps) /\ (ps = {} => cmd.dryRun \/ cmd.action = "devices")
    <2>1. PICK ps : Finish(ps) /\ (ps = {} => cmd.dryRun \/ cmd.action = "devices")
      BY <1>4
    <2>2. exit' # Running /\ (exit' = "0" => ps = {})
      BY <2>1, EndingKnows
    <2>3. CASE exit' = "0"
      BY <1>1, <1>2, <2>1, <2>2, <2>3, NothingToDoKeeps
    <2>4. CASE exit' # "0"
      BY <1>1, <1>2, <2>2, <2>4, FailureKeeps
    <2> QED BY <2>3, <2>4
  <1>5. CASE GoTo("versions") \/ (GoTo("run") /\ Permitted)
    <2>1. exit' = Running /\ (at' = "versions" \/ (at' = "run" /\ Permitted))
      BY <1>1, <1>5 DEF GoTo
    <2>2. PlaceFits' /\ OutcomeFits'
      BY <1>1, <1>2, <2>1 DEF PlaceFits, OutcomeFits, BeforeRetaining, Retaining, Permitted
    <2>3. at \in BeforeRetaining /\ at' \in BeforeRetaining
      BY <1>1, <2>1 DEF BeforeRetaining
    <2> QED BY <1>1, <1>2, <2>1, <2>2, <2>3, EarlyKeeps
  <1> QED BY <1>1, <1>4, <1>5

\* An end without a problem is one of a matrix that passed.
LEMMA PassedIsPassed ==
  ASSUME NEW end \in Endings
  PROVE  /\ Classify(end) = {} => {<<"matrix", "passed">>, <<"matrix", "flaky">>} \cap facts # {}
         /\ end.aborted => Classify(end) # {}
  <1>1. CASE Classify(end) = {}
    <2>1. ~end.timedOut /\ ~end.aborted /\ end.code = 0
      BY <1>1 DEF Classify, Endings
    <2>2. PICK verdict \in Verdicts : <<"matrix", verdict>> \in facts /\ CodeOf[verdict] = 0
      BY <2>1 DEF Endings
    <2>3. verdict \in {"passed", "flaky"}
      BY <2>2 DEF CodeOf, Verdicts
    <2> QED BY <2>1, <2>2, <2>3
  <1> QED BY <1>1 DEF Classify

LEMMA ObserveKeeps ==
  ASSUME TestInv, cmd.name = "test", cmd.kind = "firebase", ObserveMatrix PROVE TestInv'
  <1>1. /\ at \in {"run", "observe"} /\ exit = Running /\ exit' = exit /\ cmd' = cmd
    BY DEF ObserveMatrix, Awaiting, GoTo
  <1>2. Tested /\ ~cut /\ mem.collection # "complete" /\ Permitted /\ at \in BeforeRetaining
    BY <1>1, TestedIs DEF Tested, OutcomeFits, Retaining, BeforeRetaining, FilesFit, PlaceFits
  <1>3. CASE facts' = facts \cup {<<"matrix", "running">>} /\ GoTo("observe") /\ UNCHANGED <<cut, mem>>
    <2>1. PlaceFits' /\ OutcomeFits'
      BY <1>1, <1>2, <1>3 DEF GoTo, PlaceFits, OutcomeFits, BeforeRetaining, Retaining,
         Permitted
    <2>2. at' \in BeforeRetaining /\ \A f \in facts' \ facts : f[1] # "provider"
      BY <1>3 DEF GoTo, BeforeRetaining
    <2> QED BY <1>1, <1>2, <1>3, <2>1, <2>2, EarlyKeeps
  <1>4. ASSUME NEW end \in Endings, cut' = end.aborted, GoTo("temp"), UNCHANGED facts,
               Keep([outcome |-> Classify(end),
                     collection |-> IF ~cmd.bucket THEN "not-configured"
                                    ELSE IF end.timedOut \/ end.aborted THEN "remote-running" ELSE "none"])
        PROVE  TestInv'
    <2>1. DOMAIN mem' = DOMAIN mem /\ mem'.outcome = Classify(end) /\ mem'.collection # "complete"
      BY <1>2, <1>4 DEF Keep, Tested, TestShape
    <2>2. /\ Classify(end) = {} => {<<"matrix", "passed">>, <<"matrix", "flaky">>} \cap facts # {}
          /\ end.aborted => Classify(end) # {}
      BY PassedIsPassed
    <2>3. PlaceFits' /\ OutcomeFits'
      BY <1>1, <1>2, <1>4, <2>1, <2>2 DEF GoTo, PlaceFits, OutcomeFits, BeforeRetaining,
         Retaining, Permitted
    <2> QED BY <1>1, <1>2, <1>4, <2>1, <2>3, EarlyKeeps DEF GoTo
  <1> QED BY <1>3, <1>4 DEF ObserveMatrix

-----------------------------------------------------------------------------
(* What the provider has is collected *)

LEMMA ListKeeps ==
  ASSUME Tested, at = "list", UNCHANGED <<facts, exit, cut>>,
         \/ GoTo("provider") /\ Keep([left |-> SelectFiles])
         \/ GoTo("texts") /\ Keep([collection |-> "unavailable"])
  PROVE  TestInv'
  <1>1. /\ cmd' = cmd /\ {"outcome", "left", "collection", "reports"} \subseteq DOMAIN mem /\ Here = {}
        /\ mem.collection # "complete" /\ Listed
    BY DEF Tested, TestShape, FilesFit
  <1>2. CASE GoTo("provider") /\ Keep([left |-> SelectFiles])
    <2>1. PICK left : left = SelectFiles
      OBVIOUS
    <2>2. left \in Seq(Nat) /\ Fits(cmd.objects, ToSet(left))
      BY <1>1, <2>1, SelectionFits
    <2>3. Keep([left |-> left])
      BY <1>2, <2>1
    <2>4. /\ DOMAIN mem' = DOMAIN mem /\ mem'.outcome = mem.outcome /\ mem'.reports = mem.reports
          /\ mem'.collection = mem.collection /\ mem'.left = left /\ at' = "provider" /\ Here' = {}
      BY <1>1, <1>2, <2>3 DEF Keep, GoTo, Here
    <2>5. FilesFit'
      <3>1. PICK files : files = ToSet(left)
        OBVIOUS
      <3>2. Fits(cmd'.objects, files)
        BY <1>1, <2>2, <3>1
      <3>3. Comes(mem.left, files)'
        BY <2>2, <2>4, <3>1 DEF Comes
      <3> QED BY <1>1, <2>4, <3>2, <3>3 DEF FilesFit, BeforeRetaining
    <2>6. PlaceFits' /\ OutcomeFits'
      BY <1>1, <2>4 DEF Tested, PlaceFits, OutcomeFits, BeforeRetaining, Retaining, Permitted
    <2> QED BY <1>1, <2>4, <2>5, <2>6 DEF Tested, TestInv, TestShape, Listed, Running
  <1>3. CASE GoTo("texts") /\ Keep([collection |-> "unavailable"])
    <2>1. /\ DOMAIN mem' = DOMAIN mem /\ mem'.outcome = mem.outcome /\ mem'.reports = mem.reports
          /\ mem'.collection = "unavailable" /\ at' = "texts"
      BY <1>1, <1>3 DEF Keep, GoTo
    <2>2. PlaceFits' /\ OutcomeFits'
      BY <1>1, <2>1 DEF Tested, PlaceFits, OutcomeFits, BeforeRetaining, Retaining, Permitted
    <2> QED BY <2>1, <2>2, EarlyKeeps DEF Tested
  <1> QED BY <1>2, <1>3

\* What is still to come after the next one has.
LEMMA NextComes ==
  ASSUME NEW left \in Seq(Nat), left # <<>>
  PROVE  Head(left) \in ToSet(left) /\ Tail(left) \in Seq(Nat) /\ ToSet(left) = {Head(left)} \cup ToSet(Tail(left))
  <1>1. Tail(left) \in Seq(Nat) /\ Len(left) \in Nat /\ Len(left) # 0 /\ Len(Tail(left)) = Len(left) - 1
    OBVIOUS
  <1>2. Head(left) = left[1] /\ DOMAIN left = 1 .. Len(left) /\ DOMAIN Tail(left) = 1 .. Len(Tail(left))
    BY <1>1
  <1>3. \A i \in 1 .. Len(Tail(left)) : Tail(left)[i] = left[i + 1]
    BY HeadTailProperties
  <1>4. \A i \in 1 .. Len(left) : i = 1 \/ (i - 1 \in 1 .. Len(Tail(left)) /\ Tail(left)[i - 1] = left[i])
    BY <1>1, <1>3
  <1>5. \A i \in 1 .. Len(Tail(left)) : i + 1 \in 1 .. Len(left)
    BY <1>1
  <1>6. 1 \in DOMAIN left
    BY <1>1, <1>2
  <1>7. ToSet(left) \subseteq {Head(left)} \cup ToSet(Tail(left))
    BY <1>2, <1>4 DEF ToSet
  <1>8. ToSet(Tail(left)) \subseteq ToSet(left) /\ Head(left) \in ToSet(left)
    BY <1>2, <1>3, <1>5, <1>6 DEF ToSet
  <1> QED BY <1>1, <1>7, <1>8

\* What is neither in place nor an outcome stays what it is.
CollectingStays ==
  /\ DOMAIN mem' = DOMAIN mem /\ mem'.outcome = mem.outcome /\ mem'.reports = mem.reports
  /\ UNCHANGED <<exit, cut>> /\ {<<"matrix", "passed">>, <<"matrix", "flaky">>} \cap facts \subseteq facts'
  /\ at \in {"copy", "chmod"} /\ at' \in {"copy", "chmod", "texts", "manifest", "undo"}

LEMMA CollectingKeeps == ASSUME Tested, CollectingStays, FilesFit' PROVE TestInv'
  <1>1. PlaceFits' /\ OutcomeFits'
    BY DEF Tested, CollectingStays, PlaceFits, OutcomeFits, BeforeRetaining, Retaining,
           Permitted
  <1> QED BY <1>1 DEF Tested, CollectingStays, TestInv, TestShape, Listed, Running

\* Of the files that fit, those that are here and those to come.
FilesAre(files) ==
  /\ Fits(cmd.objects, files) /\ Here \subseteq files
  /\ at \in {"provider", "copy"} => Comes(mem.left, files)
  /\ at = "chmod" => mem.left \in Seq(Nat) /\ mem.left # <<>> /\ Comes(Tail(mem.left), files)
  /\ mem.collection = "complete" => Here = files

LEMMA CopyKeeps ==
  ASSUME Tested, at = "copy", mem.left # <<>>, UNCHANGED <<exit, cut>>, NEW r, Effect(r, facts \cup {<<"provider", Head(mem.left)>>}),
         \/ Arrived(r, Head(mem.left)) /\ GoTo("chmod") /\ UNCHANGED mem
         \/ GoTo("texts") /\ Keep([collection |-> "unavailable"])
  PROVE  TestInv'
  <1>1. /\ cmd' = cmd /\ {"outcome", "left", "collection", "reports"} \subseteq DOMAIN mem /\ mem.collection # "complete"
        /\ facts \subseteq facts' /\ facts' \subseteq facts \cup {<<"provider", Head(mem.left)>>}
    BY EffectIsOneOf DEF Tested, TestShape, FilesFit
  <1>2. PICK files : FilesAre(files)
    BY DEF Tested, FilesFit, FilesAre
  <1>3. mem.left \in Seq(Nat) /\ ToSet(mem.left) \subseteq files /\ files \subseteq Here \cup ToSet(mem.left)
    BY <1>2 DEF FilesAre, Comes
  <1>4. PICK left \in Seq(Nat) : left = mem.left
    BY <1>3
  <1>5. Head(left) \in ToSet(left) /\ Tail(left) \in Seq(Nat) /\ ToSet(left) = {Head(left)} \cup ToSet(Tail(left))
    BY <1>4, NextComes
  <1>6. Fits(cmd'.objects, files) /\ files \subseteq DOMAIN cmd.objects
    BY <1>1, <1>2 DEF FilesAre, Fits
  <1>7. Here \subseteq Here' /\ Here' \subseteq Here \cup {Head(left)} /\ Here' \subseteq files
    <2>1. Here' \subseteq Here \cup {Head(left)}
      BY <1>1, <1>4 DEF Here
    <2>2. Here \subseteq Here'
      BY <1>1 DEF Here
    <2> QED BY <1>2, <1>3, <1>4, <1>5, <2>1, <2>2 DEF FilesAre
  <1>8. CASE Arrived(r, Head(mem.left)) /\ GoTo("chmod") /\ UNCHANGED mem
    <2>1. Head(left) \in Here'
      BY <1>1, <1>3, <1>4, <1>5, <1>6, <1>8 DEF Arrived, Here
    <2>2. Comes(Tail(mem.left), files)'
      <3>1. Tail(left) \in Seq(Nat) /\ ToSet(Tail(left)) \subseteq files /\ files \subseteq Here' \cup ToSet(Tail(left))
        BY <1>3, <1>4, <1>5, <1>7, <2>1
      <3> QED BY <1>4, <1>8, <3>1 DEF Comes
    <2>3. FilesFit'
      BY <1>1, <1>3, <1>6, <1>7, <1>8, <2>2 DEF FilesFit, GoTo, BeforeRetaining
    <2> QED BY <1>1, <1>8, <2>3, CollectingKeeps DEF CollectingStays, GoTo
  <1>9. CASE GoTo("texts") /\ Keep([collection |-> "unavailable"])
    <2>1. /\ DOMAIN mem' = DOMAIN mem /\ mem'.outcome = mem.outcome /\ mem'.reports = mem.reports
          /\ mem'.collection = "unavailable" /\ at' = "texts"
      BY <1>1, <1>9 DEF Keep, GoTo
    <2>2. FilesFit'
      BY <1>6, <1>7, <2>1 DEF FilesFit, BeforeRetaining
    <2> QED BY <1>1, <2>1, <2>2, CollectingKeeps DEF CollectingStays
  <1> QED BY <1>8, <1>9

LEMMA ChmodKeeps ==
  ASSUME Tested, at = "chmod", UNCHANGED <<facts, exit, cut>>,
         \/ GoTo("copy") /\ Keep([left |-> Tail(mem.left)])
         \/ GoTo("undo") /\ UNCHANGED mem
  PROVE  TestInv'
  <1>1. /\ cmd' = cmd /\ {"outcome", "left", "collection", "reports"} \subseteq DOMAIN mem /\ mem.collection # "complete"
        /\ Here' = Here
    BY DEF Tested, TestShape, FilesFit, Here
  <1>2. PICK files : FilesAre(files)
    BY DEF Tested, FilesFit, FilesAre
  <1>3. Fits(cmd'.objects, files) /\ Here' \subseteq files
    BY <1>1, <1>2 DEF FilesAre
  <1>4. CASE GoTo("copy") /\ Keep([left |-> Tail(mem.left)])
    <2>1. /\ DOMAIN mem' = DOMAIN mem /\ mem'.outcome = mem.outcome /\ mem'.reports = mem.reports
          /\ mem'.collection = mem.collection /\ at' = "copy" /\ mem'.left = Tail(mem.left)
      BY <1>1, <1>4 DEF Keep, GoTo
    <2>2. Comes(mem.left, files)'
      BY <1>1, <1>2, <2>1 DEF FilesAre, Comes
    <2>3. FilesFit'
      BY <1>1, <1>3, <2>1, <2>2 DEF FilesFit, BeforeRetaining
    <2> QED BY <2>1, <2>3, CollectingKeeps DEF CollectingStays
  <1>5. CASE GoTo("undo") /\ UNCHANGED mem
    <2>1. FilesFit'
      BY <1>1, <1>3, <1>5 DEF FilesFit, GoTo, BeforeRetaining
    <2> QED BY <1>5, <2>1, CollectingKeeps DEF CollectingStays, GoTo
  <1> QED BY <1>4, <1>5

LEMMA CompleteKeeps ==
  ASSUME Tested, at = "copy", UNCHANGED <<facts, exit, cut>>, mem.left = <<>>, GoTo("manifest"), Keep([collection |-> "complete"])
  PROVE  TestInv'
  <1>1. /\ cmd' = cmd /\ {"outcome", "left", "collection", "reports"} \subseteq DOMAIN mem /\ Here' = Here
    BY DEF Tested, TestShape, Here
  <1>2. PICK files : FilesAre(files)
    BY DEF Tested, FilesFit, FilesAre
  <1>3. Fits(cmd'.objects, files) /\ Here' = files
    <2>1. ToSet(<<>>) = {}
      BY DEF ToSet
    <2> QED BY <1>1, <1>2, <2>1 DEF FilesAre, Comes
  <1>4. /\ DOMAIN mem' = DOMAIN mem /\ mem'.outcome = mem.outcome /\ mem'.reports = mem.reports
        /\ mem'.collection = "complete" /\ at' = "manifest"
    BY <1>1 DEF Keep, GoTo
  <1>5. FilesFit'
    BY <1>3, <1>4 DEF FilesFit, BeforeRetaining
  <1> QED BY <1>4, <1>5, CollectingKeeps DEF CollectingStays

LEMMA CollectionKeeps ==
  ASSUME TestInv, cmd.name = "test", CollectProviderEvidence PROVE TestInv'
  <1>1. exit = Running /\ exit' = exit /\ UNCHANGED <<cmd, cut>>
    BY DEF CollectProviderEvidence, FileCall, Decide, Awaiting, SettlesAlone, GoTo
  <1>2. Tested
    BY <1>1, TestedIs
  <1>3. CASE /\ Awaiting("list") /\ UNCHANGED <<cmd, signal, facts>>
             /\ \E r \in Ends, readable \in BOOLEAN :
                  /\ SettlesAlone(r)
                  /\ IF r = "ok" /\ readable THEN GoTo("provider") /\ Keep([left |-> SelectFiles])
                     ELSE GoTo("texts") /\ Keep([collection |-> "unavailable"])
    <2>1. \/ GoTo("provider") /\ Keep([left |-> SelectFiles])
          \/ GoTo("texts") /\ Keep([collection |-> "unavailable"])
      BY <1>3, Zenon
    <2> QED BY <1>1, <1>2, <1>3, <2>1, ListKeeps DEF Awaiting
  <1>4. CASE FileCall("provider", facts, "copy") \/ FileCall("manifest", facts, "texts")
    BY <1>1, <1>2, <1>4, LaterKeeps DEF FileCall, Awaiting, GoTo
  <1>5. CASE /\ Awaiting("copy") /\ mem.left # <<>> /\ UNCHANGED <<cmd, signal>>
             /\ \E r \in Ends :
                  /\ SettlesAlone(r) /\ Effect(r, facts \cup {<<"provider", Head(mem.left)>>})
                  /\ IF Arrived(r, Head(mem.left)) THEN GoTo("chmod") /\ UNCHANGED mem
                     ELSE GoTo("texts") /\ Keep([collection |-> "unavailable"])
    <2>1. PICK r : /\ Effect(r, facts \cup {<<"provider", Head(mem.left)>>})
                   /\ \/ Arrived(r, Head(mem.left)) /\ GoTo("chmod") /\ UNCHANGED mem
                      \/ GoTo("texts") /\ Keep([collection |-> "unavailable"])
      BY <1>5
    <2> QED BY <1>1, <1>2, <1>5, <2>1, CopyKeeps DEF Awaiting
  <1>6. CASE Decide("chmod", \/ GoTo("copy") /\ Keep([left |-> Tail(mem.left)])
                             \/ "fail" \in Faults /\ GoTo("undo") /\ UNCHANGED mem)
    BY <1>1, <1>2, <1>6, ChmodKeeps DEF Decide, Awaiting
  <1>7. CASE Decide("copy", mem.left = <<>> /\ GoTo("manifest") /\ Keep([collection |-> "complete"]))
    BY <1>1, <1>2, <1>7, CompleteKeeps DEF Decide, Awaiting
  <1> QED BY <1>3, <1>4, <1>5, <1>6, <1>7 DEF CollectProviderEvidence

-----------------------------------------------------------------------------
(* What there is is retained *)

\* The limits hold of what is here, of the files that fit.
LEMMA HereFits ==
  ASSUME Listed, NEW files, Fits(cmd.objects, files), Here \subseteq files
  PROVE  Cardinality(Here) <= ProviderFileLimit /\ SizeOf(cmd.objects, Here) <= ProviderTotalSize
  <1>1. /\ files \subseteq DOMAIN cmd.objects /\ IsFiniteSet(files)
        /\ Cardinality(files) <= ProviderFileLimit /\ SizeOf(cmd.objects, files) <= ProviderTotalSize
    BY DEF Fits
  <1>2. ProviderFileLimit \in Nat /\ ProviderTotalSize \in Nat
    BY ProviderAssumption DEF ProviderTotalSize
  <1>3. IsFiniteSet(Here) /\ Cardinality(Here) <= Cardinality(files) /\ Cardinality(Here) \in Nat /\ Cardinality(files) \in Nat
    BY <1>1, FS_Subset, FS_CardinalityType
  <1> DEFINE f == [i \in DOMAIN cmd.objects |-> cmd.objects[i].size]
  <1>4. \A i \in files : f[i] \in Nat
    BY <1>1, ListIs
  <1> HIDE DEF f
  <1>5. PICK here \in SUBSET files : here = Here
    OBVIOUS
  <1>6. SumFunctionOnSet(f, here) <= SumFunctionOnSet(f, files) /\ SumFunctionOnSet(f, files) \in Nat
    BY <1>1, <1>4, SumOfPart, SumType
  <1>7. SumFunctionOnSet(f, here) \in Nat
    BY <1>3, <1>4, <1>5, SumType
  <1>8. SumFunctionOnSet(f, here) = SizeOf(cmd.objects, Here) /\ SumFunctionOnSet(f, files) = SizeOf(cmd.objects, files)
    BY <1>5 DEF SizeOf, f
  <1> QED BY <1>1, <1>2, <1>3, <1>6, <1>7, <1>8

LEMMA RetainedIsDone ==
  ASSUME Tested, at = "retained", mem.outcome = {} PROVE FirebaseDone /\ GradleDone /\ ~cut
  <1>1. /\ Listed /\ Ours \in facts /\ ~cut
        /\ cmd.kind = "firebase" => Permitted /\ {<<"matrix", "passed">>, <<"matrix", "flaky">>} \cap facts # {}
        /\ cmd.kind = "gradle" => <<"report", "fresh", "failed">> \notin mem.reports
    BY DEF Tested, TestShape, PlaceFits, OutcomeFits, Retaining
  <1>2. PICK files : /\ Fits(cmd.objects, files) /\ Here \subseteq files
                     /\ mem.collection = "complete" => Here = files
    BY DEF Tested, FilesFit
  <1>3. Cardinality(Here) <= ProviderFileLimit /\ SizeOf(cmd.objects, Here) <= ProviderTotalSize
    BY <1>1, <1>2, HereFits
  <1>4. mem.collection = "complete" =>
          \A i \in {j \in DOMAIN cmd.objects : Eligible(j)} \ Here :
             Cardinality(Here) = ProviderFileLimit \/ SizeOf(cmd.objects, Here) + cmd.objects[i].size > ProviderTotalSize
    BY <1>2 DEF Fits, Eligible
  <1>5. FirebaseDone
    BY <1>1, <1>3, <1>4 DEF FirebaseDone, Here, SizeOf
  <1> QED BY <1>1, <1>5 DEF GradleDone

LEMMA RetentionKeeps == ASSUME TestInv, cmd.name = "test", RetainEvidence PROVE TestInv'
  <1>1. exit = Running /\ UNCHANGED <<cmd, cut, mem>>
    BY DEF RetainEvidence, FileCall, Decide, Awaiting
  <1>2. Tested
    BY <1>1, TestedIs
  <1>3. CASE FileCall("temp", facts \cup {Temp}, IF mem.collection = "none" THEN "list" ELSE "texts")
    <2>1. /\ at = "temp" /\ exit' = exit /\ at' \in {"list", "texts", "undo"} /\ facts \subseteq facts'
          /\ \A f \in facts' \ facts : f[1] # "provider"
      BY <1>3 DEF FileCall, Awaiting, GoTo, Temp
    <2>2. PlaceFits' /\ OutcomeFits' /\ mem.collection # "complete"
      BY <1>1, <1>2, <2>1 DEF Tested, PlaceFits, OutcomeFits, BeforeRetaining, Retaining,
         Permitted, FilesFit
    <2> QED BY <1>1, <1>2, <2>1, <2>2, EarlyKeeps DEF Tested
  <1>4. CASE FileCall("texts", facts, "rename")
    BY <1>1, <1>2, <1>4, LaterKeeps DEF FileCall, Awaiting, GoTo
  <1>5. CASE FileCall("rename", (facts \ {Temp}) \cup {Ours}, "retained")
    <2>1. /\ at = "rename" /\ exit' = exit /\ at' \in {"retained", "undo"} /\ (at' = "retained" => Ours \in facts')
          /\ facts \subseteq facts' \cup {Temp} /\ \A f \in facts' \ facts : f[1] # "provider"
      BY <1>5 DEF FileCall, Awaiting, GoTo, Ours
    <2> QED BY <1>1, <1>2, <2>1, LaterKeeps
  <1>6. CASE Decide("retained", Finish(mem.outcome) /\ UNCHANGED mem)
    <2>1. at = "retained" /\ facts' = facts /\ exit' # Running /\ (exit' = "0" => mem.outcome = {})
      BY <1>6, EndingKnows DEF Decide, Awaiting
    <2>2. CASE exit' = "0"
      <3>1. FirebaseDone /\ GradleDone /\ ~cut
        BY <1>2, <2>1, <2>2, RetainedIsDone
      <3>2. FirebaseDone' /\ GradleDone'
        BY <1>1, <2>1, <3>1 DEF FirebaseDone, GradleDone, Permitted, Eligible
      <3> QED BY <1>1, <1>2, <2>1, <2>2, <3>1, <3>2 DEF Tested, TestInv, TestShape, Listed
    <2>3. CASE exit' # "0"
      BY <1>1, <1>2, <2>1, <2>3, FailureKeeps
    <2> QED BY <2>2, <2>3
  <1> QED BY <1>3, <1>4, <1>5, <1>6 DEF RetainEvidence

LEMMA UndoneKeeps == ASSUME TestInv, cmd.name = "test", RetainUndone PROVE TestInv'
  <1>1. exit = Running /\ UNCHANGED <<cmd, mem>> /\ exit' = "internal" /\ "internal" # Running /\ "internal" # "0"
    BY DEF RetainUndone, Awaiting, Running
  <1> QED BY <1>1, TestedIs, FailureKeeps

LEMMA FirebaseKeeps == ASSUME TestInv, Firebase PROVE TestInv'
  BY MatrixKeeps, FirebaseInputKeeps, CancelKeeps, CatalogKeeps, ObserveKeeps, CollectionKeeps, RetentionKeeps, UndoneKeeps
     DEF Firebase

-----------------------------------------------------------------------------
(* A task of Gradle *)

LEMMA GradleBeginningKeeps ==
  ASSUME TestInv, cmd.name = "test", cmd.kind = "gradle", GradleInput \/ GradleAsked PROVE TestInv'
  <1>1. /\ at \in {"input", "discover", "preflight"} /\ exit = Running /\ UNCHANGED <<cmd, facts, mem>>
        /\ \/ \E ps : Finish(ps) /\ (ps = {} => cmd.dryRun \/ cmd.task = None) /\ (cut' => cut \/ ps # {})
           \/ GoTo("discover") /\ cmd.task = None /\ (cut' => cut)
           \/ GoTo("preflight") /\ (cut' => cut)
           \/ GoTo("execute") /\ (cut' => cut)
    <2>1. CASE GradleInput
      BY <2>1 DEF GradleInput, Decide, Awaiting
    <2>2. CASE Read("discover", "child", Finish({}) /\ UNCHANGED mem)
      <3>1. at = "discover" /\ exit = Running /\ cmd.task = None /\ UNCHANGED <<cmd, facts>>
        BY <2>2, TestedIs DEF Read, Awaiting, Tested, PlaceFits
      <3>2. PICK r \in Ends : Settles(r) /\ IF r = "ok" THEN Finish({}) /\ UNCHANGED mem
                                           ELSE Finish({ProblemOf(r, "child")}) /\ UNCHANGED mem
        BY <2>2 DEF Read
      <3>3. (cut' => cut \/ r = "aborted") /\ "aborted" # "ok"
        BY <3>2 DEF Settles
      <3> QED BY <3>1, <3>2, <3>3
    <2>3. CASE Read("preflight", "input", UNCHANGED mem /\ IF cmd.task = "managed" THEN GoTo("execute") ELSE Finish({"input"}))
      <3>1. at = "preflight" /\ exit = Running /\ UNCHANGED <<cmd, facts>>
        BY <2>3 DEF Read, Awaiting
      <3>2. PICK r \in Ends : Settles(r) /\ IF r = "ok" THEN UNCHANGED mem /\ IF cmd.task = "managed" THEN GoTo("execute") ELSE Finish({"input"})
                                           ELSE Finish({ProblemOf(r, "input")}) /\ UNCHANGED mem
        BY <2>3 DEF Read
      <3>3. (cut' => cut \/ r = "aborted") /\ "aborted" # "ok"
        BY <3>2 DEF Settles
      <3> QED BY <3>1, <3>2, <3>3
    <2> QED BY <2>1, <2>2, <2>3 DEF GradleAsked
  <1>2. Tested /\ ~cut /\ mem.collection # "complete"
    BY <1>1, TestedIs DEF Tested, OutcomeFits, Retaining, FilesFit
  <1>3. CASE \E ps : Finish(ps) /\ (ps = {} => cmd.dryRun \/ cmd.task = None) /\ (cut' => cut \/ ps # {})
    <2>1. PICK ps : Finish(ps) /\ (ps = {} => cmd.dryRun \/ cmd.task = None) /\ (cut' => cut \/ ps # {})
      BY <1>3
    <2>2. exit' # Running /\ (exit' = "0" => ps = {})
      BY <2>1, EndingKnows
    <2>3. CASE exit' = "0"
      BY <1>1, <1>2, <2>1, <2>2, <2>3, NothingToDoKeeps
    <2>4. CASE exit' # "0"
      BY <1>1, <1>2, <2>2, <2>4, FailureKeeps
    <2> QED BY <2>3, <2>4
  <1>4. CASE \/ GoTo("discover") /\ cmd.task = None /\ (cut' => cut)
             \/ GoTo("preflight") /\ (cut' => cut)
             \/ GoTo("execute") /\ (cut' => cut)
    <2>1. /\ exit' = Running /\ (cut' => cut) /\ at' \in {"discover", "preflight", "execute"}
          /\ (at' = "discover" => cmd.task = None)
      BY <1>1, <1>4 DEF GoTo
    <2>2. PlaceFits' /\ OutcomeFits'
      BY <1>1, <1>2, <2>1 DEF PlaceFits, OutcomeFits, BeforeRetaining, Retaining
    <2>3. at \in BeforeRetaining /\ at' \in BeforeRetaining
      BY <1>1, <2>1 DEF BeforeRetaining
    <2> QED BY <1>1, <1>2, <2>1, <2>2, <2>3, EarlyKeeps
  <1> QED BY <1>1, <1>3, <1>4

LEMMA GradleRunKeeps ==
  ASSUME TestInv, cmd.name = "test", cmd.kind = "gradle", GradleReports \/ GradleExecuted \/ GradleCollected PROVE TestInv'
  <1>1. /\ exit = Running /\ exit' = exit /\ cmd' = cmd /\ at \in {"execute", "collect"}
    BY DEF GradleReports, GradleExecuted, GradleCollected, Decide, Awaiting, GoTo, command
  <1>2. /\ Tested /\ mem.collection # "complete" /\ at \in BeforeRetaining /\ (cut => at = "collect" /\ mem.outcome # {})
        /\ {"outcome", "left", "collection", "reports"} \subseteq DOMAIN mem
    BY <1>1, TestedIs DEF Tested, TestShape, OutcomeFits, Retaining, FilesFit, BeforeRetaining
  <1>3. CASE GradleReports
    <2>1. UNCHANGED <<at, mem, cut>> /\ \A f \in facts' \ facts : f[1] # "provider"
      BY <1>3 DEF GradleReports, command
    <2>2. PlaceFits' /\ OutcomeFits'
      BY <1>1, <1>2, <2>1 DEF Tested, PlaceFits, OutcomeFits, BeforeRetaining, Retaining
    <2> QED BY <1>1, <1>2, <2>1, <2>2, EarlyKeeps
  <1>4. CASE GradleExecuted
    <2>1. PICK r : Settles(r) /\ GoTo("collect") /\ Keep([outcome |-> IF r = "ok" THEN {} ELSE {ProblemOf(r, "child")}])
      BY <1>4 DEF GradleExecuted
    <2>2. /\ DOMAIN mem' = DOMAIN mem /\ mem'.outcome = (IF r = "ok" THEN {} ELSE {ProblemOf(r, "child")})
          /\ mem'.collection = mem.collection /\ at = "execute" /\ at' = "collect" /\ facts' = facts
      BY <1>2, <1>4, <2>1 DEF Keep, GoTo, GradleExecuted, Awaiting
    <2>3. cut' => mem'.outcome # {}
      BY <1>2, <2>1, <2>2 DEF Settles
    <2>4. PlaceFits' /\ OutcomeFits' /\ at' \in BeforeRetaining
      BY <1>1, <1>2, <2>2, <2>3 DEF PlaceFits, OutcomeFits, BeforeRetaining, Retaining
    <2> QED BY <1>1, <1>2, <2>2, <2>4, EarlyKeeps
  <1>5. CASE GradleCollected
    <2>1. PICK reports : GoTo("temp") /\ Keep([reports |-> reports, outcome |-> GradleOutcome(reports), collection |-> "native"])
      BY <1>5 DEF GradleCollected, Decide
    <2>2. /\ DOMAIN mem' = DOMAIN mem /\ mem'.outcome = GradleOutcome(reports) /\ mem'.reports = reports
          /\ mem'.collection = "native" /\ at' = "temp" /\ UNCHANGED <<facts, cut>>
      BY <1>2, <1>5, <2>1 DEF Keep, GoTo, GradleCollected, Decide
    <2>3. /\ mem'.outcome = {} => <<"report", "fresh", "failed">> \notin reports
          /\ mem'.outcome = {} => mem.outcome = {}
      BY <2>2 DEF GradleOutcome
    <2>4. PlaceFits' /\ OutcomeFits'
      BY <1>1, <1>2, <2>2, <2>3 DEF PlaceFits, OutcomeFits, BeforeRetaining, Retaining
    <2> QED BY <1>1, <1>2, <2>2, <2>4, EarlyKeeps
  <1> QED BY <1>3, <1>4, <1>5

LEMMA GradleKeeps == ASSUME TestInv, Gradle PROVE TestInv'
  BY GradleBeginningKeeps, GradleRunKeeps, RetentionKeeps, UndoneKeeps DEF Gradle

-----------------------------------------------------------------------------
(* The three together *)

ResultsInv == ConfigInv /\ InitInv /\ TestInv

LEMMA ResultsInitially == ResultsInit => ResultsInv
  <1>1. ConfigInit => cmd.name = "config"
    BY DEF ConfigInit
  <1>2. InitConfigInit => cmd.name = "init"
    BY DEF InitConfigInit
  <1>3. TestInit => cmd.name = "test"
    BY DEF TestInit
  <1> QED BY <1>1, <1>2, <1>3, ConfigInitially, InitInitially, TestInitially
             DEF ResultsInit, ResultsInv, ConfigInv, InitInv, TestInv

\* A step of none of the three.
LEMMA ResultsStay == ASSUME ResultsInv, UNCHANGED <<cmd, command, facts>> PROVE ResultsInv'
  <1>1. UNCHANGED <<cmd, at, mem, problems, exit, cut, facts>>
    BY DEF command
  <1>2. ConfigInv'
    BY <1>1 DEF ResultsInv, ConfigInv, Given, Documents, ConfigPlaces, ReadSoFar, Laid,
       DelaysFit
  <1>3. InitInv'
    BY <1>1 DEF ResultsInv, InitInv, InitDone
  <1>4. TestInv'
    BY <1>1 DEF ResultsInv, TestInv, TestShape, Listed, PlaceFits, Permitted, OutcomeFits,
       FilesFit, Here, Comes, FirebaseDone, GradleDone, Eligible
  <1> QED BY <1>2, <1>3, <1>4 DEF ResultsInv

LEMMA ResultsSteps == ResultsInv /\ [Config \/ InitConfig \/ Firebase \/ Gradle \/ Signal]_vars => ResultsInv'
  <1> SUFFICES ASSUME ResultsInv, [Config \/ InitConfig \/ Firebase \/ Gradle \/ Signal]_vars PROVE ResultsInv'
    OBVIOUS
  <1>1. CASE Config
    <2>1. cmd.name = "config" /\ cmd' = cmd
      <3>1. Resolve => cmd' = cmd
        BY DEF Resolve, Decide
      <3>2. ReadDocument("user", cmd.user, FALSE, "project") => cmd' = cmd
        BY DEF ReadDocument, Decide
      <3>3. ReadProject => cmd' = cmd
        BY DEF ReadProject, ReadDocument, Decide
      <3>4. Decide("defaults", GoTo("user") /\ Keep(Apply([timeoutMs |-> 5000], "default"))) => cmd' = cmd
        BY DEF Decide
      <3> QED BY <1>1, <3>1, <3>2, <3>3, <3>4, Zenon DEF Config
    <2> QED BY <1>1, <2>1, ConfigKeeps DEF ResultsInv, InitInv, TestInv
  <1>2. CASE InitConfig
    <2>1. cmd.name = "init" /\ cmd' = cmd
      BY <1>2 DEF InitConfig, ForeignFile, InitLooks, InitWrites, InitUndone, Decide, FileCall
    <2> QED BY <1>2, <2>1, InitKeeps DEF ResultsInv, ConfigInv, TestInv
  <1>3. CASE Firebase
    <2>1. cmd.name = "test" /\ cmd' = cmd
      BY <1>3 DEF Firebase, FirebaseInput, CancelMatrix, ReadCatalog, MatrixEnds, ObserveMatrix,
         CollectProviderEvidence, RetainEvidence, RetainUndone, Decide, FileCall, Ask
    <2> QED BY <1>3, <2>1, FirebaseKeeps DEF ResultsInv, ConfigInv, InitInv
  <1>4. CASE Gradle
    <2>1. cmd.name = "test" /\ cmd' = cmd
      BY <1>4 DEF Gradle, GradleInput, GradleAsked, GradleReports, GradleExecuted,
         GradleCollected, RetainEvidence, RetainUndone, Decide, FileCall, Read
    <2> QED BY <1>4, <2>1, GradleKeeps DEF ResultsInv, ConfigInv, InitInv
  <1>5. CASE Signal
    BY <1>5, ResultsStay DEF Signal
  <1>6. CASE UNCHANGED vars
    BY <1>6, ResultsStay DEF vars
  <1> QED BY <1>1, <1>2, <1>3, <1>4, <1>5, <1>6

\* For every set of documents, environment and option: a configuration that is shown is the one
\* that its sources say in the order of their precedence; init has written its file and left
\* nothing aside; and a test that is reported as passed was permitted, did pass, and its results
\* are here within the limits (src/config/loader.ts, src/app/config-commands.ts,
\* src/automation/firebase-test-lab.ts, src/automation/gradle-managed-devices.ts).
THEOREM ResultsAreVerified == ResultsSpec => []ResultIsVerified
  <1>1. ResultsInv => ResultIsVerified
    <2> SUFFICES ASSUME ResultsInv, exit = "0" PROVE /\ ConfigDone /\ InitDone
                                                     /\ cmd.name = "test" => cmd.dryRun \/ (FirebaseDone /\ GradleDone)
      BY DEF ResultIsVerified
    <2>1. ConfigDone
      <3>1. CASE cmd.name # "config"
        BY <3>1 DEF ConfigDone
      <3>2. CASE cmd.name = "config"
        BY <3>2, ConfigurationIsRight DEF ResultsInv, ConfigInv
      <3> QED BY <3>1, <3>2
    <2>2. InitDone
      BY DEF ResultsInv, InitInv, InitDone
    <2> QED BY <2>1, <2>2 DEF ResultsInv, TestInv
  <1> QED BY <1>1, ResultsInitially, ResultsSteps, PTL DEF ResultsSpec

\* The documents of a configuration and its file are read and written without the signal.
NeverCut == cmd.name \in {"config", "init", "test"} /\ (cmd.name # "test" => ~cut)

\* Nothing temporary but the directory or the file that is being built.
BuiltOnly ==
  /\ Remote \notin facts /\ <<"ui-lock", "mine">> \notin facts
  /\ Temp \in facts => /\ exit = Running
                       /\ \/ cmd.name = "init" /\ at \in {"set-aside", "install", "undo"}
                          \/ cmd.name = "test" /\ at \in (Retaining \ {"temp", "retained"}) \cup {"undo"}

TidyInv == NeverCut /\ BuiltOnly

LEMMA TidyInitially == ResultsInit => TidyInv
  BY DEF ResultsInit, ConfigInit, InitConfigInit, TestInit, CommandInit, TidyInv, NeverCut,
         BuiltOnly

\* A step that builds nothing and is not taken while something is being built.
BuildsNothing ==
  /\ facts' \cap {Temp, Remote, <<"ui-lock", "mine">>} \subseteq facts /\ cmd' = cmd
  /\ Temp \in facts' => UNCHANGED <<at, exit>> \/ (exit' = Running /\ cmd.name = "test" /\ at' \in (Retaining \ {"temp", "retained"}) \cup {"undo"})
  /\ cmd.name # "test" => cut' = cut

LEMMA NothingBuilt == ASSUME TidyInv, BuildsNothing PROVE TidyInv'
  BY DEF TidyInv, NeverCut, BuiltOnly, BuildsNothing

LEMMA ConfigIsTidy == ASSUME TidyInv, Config PROVE TidyInv'
  <1>1. cmd.name = "config"
    BY DEF Config
  <1>2. UNCHANGED <<cmd, facts, cut>>
    <2>1. Resolve => UNCHANGED <<cmd, facts, cut>>
      BY DEF Resolve, Decide
    <2>2. ReadDocument("user", cmd.user, FALSE, "project") => UNCHANGED <<cmd, facts, cut>>
      BY DEF ReadDocument, Decide
    <2>3. ReadProject => UNCHANGED <<cmd, facts, cut>>
      BY DEF ReadProject, ReadDocument, Decide
    <2>4. Decide("defaults", GoTo("user") /\ Keep(Apply([timeoutMs |-> 5000], "default"))) => UNCHANGED <<cmd, facts, cut>>
      BY DEF Decide
    <2> QED BY <2>1, <2>2, <2>3, <2>4, Zenon DEF Config
  <1> QED BY <1>1, <1>2, NothingBuilt DEF BuildsNothing, TidyInv, BuiltOnly

LEMMA InitIsTidy == ASSUME TidyInv, InitConfig PROVE TidyInv'
  <1>1. cmd.name = "init" /\ Foreign # Temp /\ Ours # Temp /\ Backup # Temp /\ Foreign # Remote /\ Ours # Remote /\ Backup # Remote
        /\ Temp # Remote
        /\ \A f \in {Foreign, Ours, Backup, Temp} : f # <<"ui-lock", "mine">>
    BY DEF InitConfig, Foreign, Ours, Backup, Temp, Remote
  <1>2. CASE ForeignFile
    BY <1>1, <1>2, NothingBuilt DEF ForeignFile, command, BuildsNothing
  <1>3. CASE InitLooks \/ Decide("written", Finish({}) /\ UNCHANGED mem)
    <2>1. at \in {"input", "stat", "written"} /\ UNCHANGED <<cmd, facts, cut>>
      BY <1>3 DEF InitLooks, Decide, Awaiting
    <2> QED BY <1>1, <2>1, NothingBuilt DEF BuildsNothing, TidyInv, BuiltOnly
  <1>4. CASE InitUndone
    <2>1. Temp \notin facts' /\ facts' \subseteq facts \cup {Foreign} /\ UNCHANGED <<cmd, cut>>
      BY <1>1, <1>4 DEF InitUndone
    <2> QED BY <1>1, <2>1, NothingBuilt DEF BuildsNothing
  <1>5. CASE \/ FileCall("write", facts \cup {Temp}, IF mem.exists THEN "set-aside" ELSE "install")
             \/ FileCall("set-aside", (facts \ {Foreign}) \cup {Backup}, "install")
             \/ FileCall("install", (facts \ {Temp, Foreign}) \cup {Ours}, "read-back")
             \/ FileCall("read-back", facts, "remove-backup")
             \/ FileCall("remove-backup", facts \ {Backup}, "written")
    <2>1. CASE \/ FileCall("write", facts \cup {Temp}, IF mem.exists THEN "set-aside" ELSE "install")
               \/ FileCall("set-aside", (facts \ {Foreign}) \cup {Backup}, "install")
               \/ FileCall("install", (facts \ {Temp, Foreign}) \cup {Ours}, "read-back")
      BY <1>1, <2>1 DEF FileCall, Awaiting, GoTo, TidyInv, NeverCut, BuiltOnly
    <2>2. CASE \/ FileCall("read-back", facts, "remove-backup")
               \/ FileCall("remove-backup", facts \ {Backup}, "written")
      BY <1>1, <2>2 DEF FileCall, Awaiting, GoTo, TidyInv, NeverCut, BuiltOnly
    <2> QED BY <1>5, <2>1, <2>2
  <1> QED BY <1>2, <1>3, <1>4, <1>5 DEF InitConfig, InitWrites

\* What the steps of test have in common: only the directory of the evidence is temporary.
LEMMA RetainingIsTidy == ASSUME TidyInv, cmd.name = "test", RetainEvidence \/ RetainUndone PROVE TidyInv'
  <1>1. Ours # Temp /\ Ours # Remote /\ Temp # Remote /\ \A f \in {Ours, Temp} : f # <<"ui-lock", "mine">>
    BY DEF Ours, Temp, Remote
  <1>2. CASE FileCall("temp", facts \cup {Temp}, IF mem.collection = "none" THEN "list" ELSE "texts")
    BY <1>1, <1>2 DEF FileCall, Awaiting, GoTo, TidyInv, NeverCut, BuiltOnly, Retaining
  <1>3. CASE FileCall("texts", facts, "rename")
    BY <1>1, <1>3 DEF FileCall, Awaiting, GoTo, TidyInv, NeverCut, BuiltOnly, Retaining
  <1>4. CASE FileCall("rename", (facts \ {Temp}) \cup {Ours}, "retained")
    BY <1>1, <1>4 DEF FileCall, Awaiting, GoTo, TidyInv, NeverCut, BuiltOnly, Retaining
  <1>5. CASE Decide("retained", Finish(mem.outcome) /\ UNCHANGED mem)
    BY <1>5 DEF Decide, Awaiting, TidyInv, NeverCut, BuiltOnly, Retaining
  <1>6. CASE RetainUndone
    BY <1>6 DEF RetainUndone, TidyInv, NeverCut, BuiltOnly
  <1> QED BY <1>2, <1>3, <1>4, <1>5, <1>6 DEF RetainEvidence

\* While nothing is being built none of the steps before begins to.
LEMMA EarlyIsTidy ==
  ASSUME TidyInv, cmd.name = "test", cmd' = cmd, exit = Running, at \notin (Retaining \ {"temp", "retained"}) \cup {"undo"},
         \A f \in facts' \ facts : f[1] \in {"matrix", "report"}
  PROVE  TidyInv'
  <1>1. Temp \notin facts
    BY DEF TidyInv, BuiltOnly
  <1>2. Temp \notin facts' /\ Remote \notin facts' /\ <<"ui-lock", "mine">> \notin facts'
    BY <1>1 DEF TidyInv, BuiltOnly, Temp, Remote
  <1> QED BY <1>2 DEF TidyInv, NeverCut, BuiltOnly

LEMMA FirebaseIsTidy == ASSUME TidyInv, Firebase PROVE TidyInv'
  <1>1. cmd.name = "test"
    BY DEF Firebase
  <1>2. CASE MatrixEnds
    <2>1. UNCHANGED <<cmd, at, exit>> /\ facts' \cap {Temp, Remote, <<"ui-lock", "mine">>} \subseteq facts
      BY <1>2 DEF MatrixEnds, command, Temp, Remote
    <2> QED BY <1>1, <2>1, NothingBuilt DEF BuildsNothing
  <1>3. CASE FirebaseInput \/ CancelMatrix \/ ReadCatalog \/ ObserveMatrix
    <2>1. /\ at \in {"input", "token", "post", "models", "versions", "run", "observe"} /\ exit = Running /\ cmd' = cmd
          /\ \A f \in facts' \ facts : f[1] = "matrix"
      <3>1. CASE FirebaseInput
        BY <3>1 DEF FirebaseInput, Decide, Awaiting
      <3>2. CASE ReadCatalog
        BY <3>2 DEF ReadCatalog, Ask, Awaiting
      <3>3. CASE ObserveMatrix
        BY <3>3 DEF ObserveMatrix, Awaiting
      <3>4. CASE CancelMatrix
        <4>1. CASE Ask("token", {"environment"}, GoTo("post"))
          BY <4>1 DEF Ask, Awaiting
        <4>2. CASE ~Ask("token", {"environment"}, GoTo("post"))
          <5>1. /\ at = "post" /\ exit = Running /\ cmd' = cmd
                /\ \E r : HonestEffect(r, IF <<"matrix", "running">> \in facts THEN {<<"matrix", "cancelled">>} ELSE facts)
            BY <3>4, <4>2 DEF CancelMatrix, Awaiting
          <5>2. facts' \in {facts, IF <<"matrix", "running">> \in facts THEN {<<"matrix", "cancelled">>} ELSE facts}
            BY <5>1, EffectIsOneOf
          <5> QED BY <5>1, <5>2
        <4> QED BY <4>1, <4>2
      <3> QED BY <1>3, <3>1, <3>2, <3>3, <3>4
    <2> QED BY <1>1, <2>1, EarlyIsTidy DEF Retaining
  <1>4. CASE CollectProviderEvidence
    <2>1. /\ at \in {"list", "provider", "copy", "chmod", "manifest"} /\ exit' = Running /\ cmd' = cmd
          /\ at' \in {"provider", "texts", "copy", "chmod", "manifest", "undo"}
          /\ \A f \in facts' \ facts : f[1] = "provider"
      <3>1. CASE /\ Awaiting("copy") /\ mem.left # <<>> /\ UNCHANGED <<cmd, signal>>
                 /\ \E r \in Ends :
                      /\ SettlesAlone(r) /\ Effect(r, facts \cup {<<"provider", Head(mem.left)>>})
                      /\ IF Arrived(r, Head(mem.left)) THEN GoTo("chmod") /\ UNCHANGED mem
                         ELSE GoTo("texts") /\ Keep([collection |-> "unavailable"])
        <4>1. facts' \in {facts, facts \cup {<<"provider", Head(mem.left)>>}}
          BY <3>1, EffectIsOneOf
        <4> QED BY <3>1, <4>1 DEF Awaiting, GoTo
      <3>2. CASE ~(/\ Awaiting("copy") /\ mem.left # <<>> /\ UNCHANGED <<cmd, signal>>
                   /\ \E r \in Ends :
                        /\ SettlesAlone(r) /\ Effect(r, facts \cup {<<"provider", Head(mem.left)>>})
                        /\ IF Arrived(r, Head(mem.left)) THEN GoTo("chmod") /\ UNCHANGED mem
                           ELSE GoTo("texts") /\ Keep([collection |-> "unavailable"]))
        BY <1>4, <3>2 DEF CollectProviderEvidence, FileCall, Decide, Awaiting, GoTo
      <3> QED BY <3>1, <3>2
    <2>2. facts' \cap {Temp, Remote, <<"ui-lock", "mine">>} \subseteq facts
      BY <2>1 DEF Temp, Remote
    <2> QED BY <1>1, <2>1, <2>2, NothingBuilt DEF BuildsNothing, Retaining
  <1> QED BY <1>1, <1>2, <1>3, <1>4, RetainingIsTidy DEF Firebase

LEMMA GradleIsTidy == ASSUME TidyInv, Gradle PROVE TidyInv'
  <1>1. cmd.name = "test"
    BY DEF Gradle
  <1>2. CASE GradleInput \/ GradleAsked \/ GradleReports \/ GradleExecuted \/ GradleCollected
    <2>1. /\ at \in {"input", "discover", "preflight", "execute", "collect"} /\ exit = Running /\ cmd' = cmd
          /\ \A f \in facts' \ facts : f[1] = "report"
      BY <1>2 DEF GradleInput, GradleAsked, GradleReports, GradleExecuted, GradleCollected,
         Read, Decide, Awaiting
    <2> QED BY <1>1, <2>1, EarlyIsTidy DEF Retaining
  <1> QED BY <1>1, <1>2, RetainingIsTidy DEF Gradle

LEMMA TidySteps == TidyInv /\ [Config \/ InitConfig \/ Firebase \/ Gradle \/ Signal]_vars => TidyInv'
  <1> SUFFICES ASSUME TidyInv, [Config \/ InitConfig \/ Firebase \/ Gradle \/ Signal]_vars PROVE TidyInv'
    OBVIOUS
  <1>1. Signal \/ UNCHANGED vars => UNCHANGED <<cmd, at, exit, cut, facts>>
    BY DEF Signal, vars, command
  <1>2. UNCHANGED <<cmd, at, exit, cut, facts>> => TidyInv'
    BY DEF TidyInv, NeverCut, BuiltOnly
  <1> QED BY <1>1, <1>2, ConfigIsTidy, InitIsTidy, FirebaseIsTidy, GradleIsTidy

\* Of these commands too one that was interrupted does not report success, and none leaves
\* behind the file or the directory that it was building.
THEOREM ResultsAreTidy == ResultsSpec => [](InterruptionIsNotSuccess /\ NothingTemporaryLeft)
  <1>1. ResultsInv /\ TidyInv => InterruptionIsNotSuccess /\ NothingTemporaryLeft
    BY DEF ResultsInv, TestInv, TidyInv, NeverCut, BuiltOnly, InterruptionIsNotSuccess,
           NothingTemporaryLeft
  <1> QED BY <1>1, ResultsInitially, ResultsSteps, TidyInitially, TidySteps, PTL DEF ResultsSpec

-----------------------------------------------------------------------------
(* The choice of a target *)

LEMMA TwoAreMore ==
  ASSUME NEW S, IsFiniteSet(S), NEW x \in S, NEW y \in S, x # y PROVE Cardinality(S) > 1
  <1>1. IsFiniteSet({x, y}) /\ Cardinality({x, y}) = 2
    <2>1. IsFiniteSet({x}) /\ Cardinality({x}) = 1 /\ {x} \cup {y} = {x, y}
      BY FS_Singleton
    <2>2. /\ IsFiniteSet({x} \cup {y})
          /\ Cardinality({x} \cup {y}) = IF y \in {x} THEN Cardinality({x}) ELSE Cardinality({x}) + 1
      BY <2>1, FS_AddElement, Zenon
    <2> QED BY <2>1, <2>2
  <1>2. {x, y} \in SUBSET S
    OBVIOUS
  <1> QED BY <1>1, <1>2, FS_Subset, FS_CardinalityType

LEMMA OneIsEnough ==
  ASSUME NEW S, IsFiniteSet(S), ~(Cardinality(S) > 1), NEW x \in S, NEW y \in S PROVE x = y
  BY TwoAreMore

\* Those of one rank are told apart by their ids, so that some transport is the first.
LEMMA FirstIsOne ==
  ASSUME NEW all, Inventory(all), NEW S \in SUBSET all, S # {} PROVE First(S) \in S
  <1> DEFINE rank(d) == 100 * (IF d.ready THEN 0 ELSE 1) + 10 * (IF d.stable THEN 0 ELSE 1) + KindRank(d)
             ranks == {rank(d) : d \in S}
  <1>1. \A d : KindRank(d) \in 0 .. 4
    BY DEF KindRank
  <1>2. \A d \in S : d.tid \in Nat /\ d.ready \in BOOLEAN /\ d.stable \in BOOLEAN
    BY DEF Inventory
  <1>3. \A d \in S : rank(d) \in Nat
    BY <1>1
  <1>4. PICK r \in ranks : \A q \in ranks : r <= q
    <2>1. ranks \in SUBSET Nat /\ ranks # {}
      BY <1>3
    <2> HIDE DEF ranks
    <2> QED BY <2>1, Least
  <1> DEFINE best == {d \in S : rank(d) = r}
             ids == {d.tid : d \in best}
  <1>5. PICK i \in ids : \A j \in ids : i <= j
    <2>1. ids \in SUBSET Nat /\ ids # {}
      BY <1>2, <1>4
    <2> HIDE DEF ids
    <2> QED BY <2>1, Least
  <1>6. PICK d \in S : rank(d) = r /\ d.tid = i
    BY <1>5
  <1>7. ASSUME NEW e \in S \ {d} PROVE Before(d, e)
    <2>1. rank(d) < rank(e) \/ (rank(d) = rank(e) /\ d.tid <= e.tid)
      BY <1>3, <1>4, <1>5, <1>6
    <2>2. d.tid \in Nat /\ e.tid \in Nat /\ d.tid # e.tid
      BY <1>2 DEF Inventory
    <2>3. /\ d.ready \in BOOLEAN /\ e.ready \in BOOLEAN /\ d.stable \in BOOLEAN /\ e.stable \in BOOLEAN
          /\ KindRank(d) \in 0 .. 4 /\ KindRank(e) \in 0 .. 4
      BY <1>1, <1>2
    <2> HIDE DEF ranks, best, ids
    <2> QED BY <2>1, <2>2, <2>3 DEF Before
  <1> QED BY <1>7 DEF First

\* An identity is that of a transport of the same serial, which need not be the same device.
LEMMA IdentityIsOfSerial ==
  ASSUME NEW all, Inventory(all), NEW asked \in SUBSET {x \in all : Usable(x)}, NEW services,
         NEW d \in all, Usable(d)
  PROVE  LET identity == IdentityOf(d, asked, services) IN
           /\ identity # None => \E a \in asked : a.serial = d.serial /\ a.hw = identity
           /\ \A e \in all : Usable(e) /\ e.serial = d.serial => IdentityOf(e, asked, services) = identity
  <1> DEFINE alike == {e \in asked : e.serial = d.serial}
  <1>1. d.stable
    BY DEF Usable
  <1>2. ASSUME alike # {} PROVE (CHOOSE e \in alike : \A f \in alike : f.tid =< e.tid) \in alike
    <2>1. alike \in SUBSET all /\ IsFiniteSet(alike)
      BY FS_Subset DEF Inventory
    <2> DEFINE after(e) == {f \in alike : f.tid > e.tid}
               sizes == {Cardinality(after(e)) : e \in alike}
    <2>2. \A e \in alike : after(e) \in SUBSET alike /\ IsFiniteSet(after(e)) /\ Cardinality(after(e)) \in Nat
      BY <2>1, FS_Subset, FS_CardinalityType
    <2>3. PICK n \in sizes : \A m \in sizes : n <= m
      <3>1. sizes \in SUBSET Nat /\ sizes # {}
        BY <1>2, <2>2
      <3> HIDE DEF sizes
      <3> QED BY <3>1, Least
    <2>4. PICK e \in alike : n = Cardinality(after(e))
      BY <2>3
    <2>5. ASSUME NEW f \in alike PROVE f.tid =< e.tid
      <3>1. e.tid \in Nat /\ f.tid \in Nat
        BY <2>1 DEF Inventory
      <3>2. CASE f.tid > e.tid
        <4>1. after(f) \in SUBSET after(e) /\ f \in after(e) /\ f \notin after(f)
          BY <2>1, <3>1, <3>2 DEF Inventory
        <4>2. Cardinality(after(e)) <= Cardinality(after(f))
          BY <2>3, <2>4
        <4>3. IsFiniteSet(after(e)) /\ Cardinality(after(e)) \in Nat /\ Cardinality(after(f)) \in Nat
          BY <2>2
        <4> HIDE DEF after
        <4>4. Cardinality(after(f)) <= Cardinality(after(e)) /\ (Cardinality(after(e)) = Cardinality(after(f)) => after(e) = after(f))
          BY <4>1, <4>3, FS_Subset
        <4> QED BY <4>1, <4>2, <4>3, <4>4
      <3> QED BY <3>1, <3>2
    <2> HIDE DEF alike
    <2> QED BY <2>5
  <1>3. \A e \in all : Usable(e) /\ e.serial = d.serial => IdentityOf(e, asked, services) = IdentityOf(d, asked, services)
    BY <1>1 DEF IdentityOf, Usable
  <1>4. CASE alike = {}
    BY <1>1, <1>3, <1>4 DEF IdentityOf
  <1>5. CASE alike # {}
    BY <1>2, <1>3, <1>5 DEF IdentityOf
  <1> QED BY <1>4, <1>5

\* A target of which not all usable transports have one serial has none that share one,
\* unless they may be mistaken.
LEMMA TargetHasNoTwins ==
  ASSUME NEW all, Inventory(all),
         NEW asked \in SUBSET {x \in all : Usable(x)}, NEW services,
         NEW identity, identity = [x \in all |-> IdentityOf(x, asked, services)],
         NEW target \in TargetsOf(all, identity), ~SameSerial(ReadyOf(target)),
         NEW d \in ReadyOf(target), NEW e \in all, Usable(e), e.serial = d.serial
  PROVE  e = d \/ Mistakable(all, d)
  <1> SUFFICES ASSUME e # d PROVE Mistakable(all, d)
    OBVIOUS
  <1>1. \A x, y \in target : x \in all /\ Key(x, identity) = Key(y, identity)
    BY DEF TargetsOf
  <1>2. \A x \in all, y \in target : Key(x, identity) = Key(y, identity) => x \in target
    BY DEF TargetsOf
  <1>3. d \in all /\ Usable(d) /\ d \in target
    BY <1>1 DEF ReadyOf
  <1>4. identity[e] = identity[d] /\ Key(e, identity) = Key(d, identity)
    <2>1. IdentityOf(e, asked, services) = IdentityOf(d, asked, services)
      BY <1>3, IdentityIsOfSerial
    <2> QED BY <1>3, <2>1 DEF Key
  <1>5. e \in ReadyOf(target)
    BY <1>2, <1>3, <1>4 DEF ReadyOf
  <1> DEFINE ds == ReadyOf(target)
  <1>6. IsFiniteSet(ds) /\ Cardinality(ds) > 1
    <2>1. ds \in SUBSET all
      BY <1>1 DEF ReadyOf
    <2>2. IsFiniteSet(ds)
      BY <2>1, FS_Subset DEF Inventory
    <2> QED BY <1>5, <2>2, TwoAreMore
  <1>7. PICK f \in ds : f.serial # d.serial
    <2>1. ASSUME \A f \in ds : f.serial = d.serial PROVE FALSE
      <3>1. {f.serial : f \in ds} = {d.serial}
        BY <2>1
      <3> QED BY <1>6, <3>1, FS_Singleton DEF SameSerial
    <2> QED BY <2>1
  <1>8. f \in all /\ Usable(f) /\ f \in target /\ Key(f, identity) = Key(d, identity)
    BY <1>1, <1>3 DEF ReadyOf
  <1>9. identity[d] # None /\ identity[f] = identity[d]
    BY <1>7, <1>8 DEF Key
  <1>10. PICK a \in asked : a.serial = d.serial /\ a.hw = identity[d]
    <2>1. IdentityOf(d, asked, services) # None
      BY <1>3, <1>9
    <2> QED BY <1>3, <2>1, IdentityIsOfSerial
  <1>11. PICK b \in asked : b.serial = f.serial /\ b.hw = identity[f]
    <2>1. IdentityOf(f, asked, services) # None
      BY <1>8, <1>9
    <2> QED BY <1>8, <2>1, IdentityIsOfSerial
  <1>12. e \in Bearers(all, d) /\ a \in Bearers(all, d)
    BY <1>10 DEF Bearers, WithSerial, ReadyOf
  <1> QED BY <1>7, <1>9, <1>10, <1>11, <1>12 DEF Mistakable

\* So its identity is that of each of its usable transports, or of one it is mistaken for.
LEMMA TargetIsOneDevice ==
  ASSUME NEW all, Inventory(all),
         NEW asked \in SUBSET {x \in all : Usable(x)}, NEW services,
         NEW identity, identity = [x \in all |-> IdentityOf(x, asked, services)],
         NEW target \in TargetsOf(all, identity), ~SameSerial(ReadyOf(target)),
         NEW d \in ReadyOf(target), identity[d] # None
  PROVE  identity[d] = d.hw \/ (Mistakable(all, d) /\ identity[d] \in {x.hw : x \in Bearers(all, d)})
  <1>1. d \in all /\ Usable(d)
    BY DEF ReadyOf, TargetsOf
  <1>2. PICK a \in asked : a.serial = d.serial /\ a.hw = identity[d]
    BY <1>1, IdentityIsOfSerial
  <1>3. a \in all /\ Usable(a)
    OBVIOUS
  <1>4. a = d \/ Mistakable(all, d)
    BY <1>2, <1>3, TargetHasNoTwins
  <1>5. a \in Bearers(all, d)
    BY <1>2, <1>3 DEF Bearers, WithSerial, ReadyOf
  <1> QED BY <1>2, <1>4, <1>5

LEMMA OneIsNoTwin ==
  ASSUME NEW d PROVE ~SameSerial({d})
  <1>1. Cardinality({d}) = 1
    BY FS_Singleton
  <1> QED BY <1>1 DEF SameSerial

\* And only what may be mistaken shares its serial with another.
LEMMA TargetIsKnown ==
  ASSUME NEW all, Inventory(all),
         NEW asked \in SUBSET {x \in all : Usable(x)}, NEW services,
         NEW identity, identity = [x \in all |-> IdentityOf(x, asked, services)],
         NEW target \in TargetsOf(all, identity), ~SameSerial(ReadyOf(target)),
         NEW d \in ReadyOf(target)
  PROVE  ~SameSerial(Bearers(all, d)) \/ Mistakable(all, d)
  <1>1. d \in Bearers(all, d)
    BY DEF TargetsOf, ReadyOf, Bearers, WithSerial
  <1>2. \A e \in Bearers(all, d) : e = d \/ Mistakable(all, d)
    BY TargetHasNoTwins DEF Bearers, ReadyOf, WithSerial
  <1>3. Mistakable(all, d) \/ Bearers(all, d) = {d}
    BY <1>1, <1>2
  <1> QED BY <1>3, OneIsNoTwin

LEMMA FirstOfReady ==
  ASSUME NEW all, Inventory(all), NEW ds, ds \in SUBSET all, ReadyOf(ds) # {}
  PROVE  First(ReadyOf(ds)) \in ds /\ Usable(First(ReadyOf(ds)))
  <1>1. ReadyOf(ds) \in SUBSET all
    BY DEF ReadyOf
  <1>2. First(ReadyOf(ds)) \in ReadyOf(ds)
    BY <1>1, FirstIsOne
  <1> QED BY <1>2 DEF ReadyOf

LEMMA SelectedFields ==
  ASSUME NEW d, NEW reason
  PROVE  Selected(d, reason).transport = d /\ Selected(d, reason).reason = reason
  BY DEF Selected

LEMMA SelectorIsSafe ==
  ASSUME NEW all, Inventory(all),
         NEW asked \in SUBSET {x \in all : Usable(x)}, NEW services,
         NEW identity, identity = [x \in all |-> IdentityOf(x, asked, services)],
         NEW o, o.transportId = None, o.selector # None,
         NEW choice, choice = BySelector(all, TargetsOf(all, identity), identity, o), choice.kind = "selected"
  PROVE  ChoiceIsSafe(all, choice, o)
  <1> DEFINE targets == TargetsOf(all, identity)
             exact == {t \in targets : \E d \in t : identity[d] = o.selector}
             named == WithSerial(all, o.selector)
             theOne == CHOOSE t \in exact : TRUE
             ready == IF exact # {} THEN ReadyOf(theOne) ELSE ReadyOf(named)
             d == First(ready)
  <1>1. ready # {} /\ ~SameSerial(ready) /\ choice = Selected(d, "explicit")
    BY DEF BySelector, Refused
  <1>2. choice.transport = d /\ choice.reason = "explicit"
    BY <1>1, SelectedFields
  <1>3. CASE exact = {}
    <2>1. ready = ReadyOf(named) /\ named \in SUBSET all /\ \A x \in named : x.serial = o.selector
      BY <1>3 DEF WithSerial
    <2>2. d \in named /\ Usable(d)
      BY <1>1, <2>1, FirstOfReady
    <2>3. WithSerial(all, d.serial) = named
      BY <2>1, <2>2
    <2> HIDE DEF d, ready, named
    <2> QED BY <1>1, <1>2, <2>1, <2>2, <2>3 DEF ChoiceIsSafe, Bearers
  <1>4. CASE exact # {}
    <2>1. theOne \in targets /\ ready = ReadyOf(theOne) /\ \E e \in theOne : identity[e] = o.selector
      BY <1>4
    <2>2. theOne \in SUBSET all
      BY <2>1 DEF TargetsOf
    <2>3. d \in theOne /\ Usable(d) /\ d \in all /\ d \in ReadyOf(theOne)
      <3>1. d \in theOne /\ Usable(d)
        BY <1>1, <2>1, <2>2, FirstOfReady
      <3> QED BY <2>2, <3>1 DEF ReadyOf
    <2> HIDE DEF d, ready, exact, theOne
    <2>4. identity[d] = o.selector
      <3>1. PICK e \in theOne : identity[e] = o.selector
        BY <2>1
      <3>2. Key(d, identity) = Key(e, identity)
        BY <2>1, <2>3, <3>1 DEF TargetsOf
      <3> QED BY <3>1, <3>2 DEF Key
    <2>5. d.hw = o.selector \/ (Mistakable(all, d) /\ o.selector \in {x.hw : x \in Bearers(all, d)})
      BY <1>1, <2>1, <2>3, <2>4, TargetIsOneDevice
    <2>6. ~SameSerial(Bearers(all, d)) \/ Mistakable(all, d)
      BY <1>1, <2>1, <2>3, TargetIsKnown
    <2> QED BY <1>2, <2>3, <2>5, <2>6 DEF ChoiceIsSafe
  <1> QED BY <1>3, <1>4
LEMMA TransportIdIsSafe ==
  ASSUME NEW all, Inventory(all), NEW o, o.transportId # None,
         NEW choice, choice = ByTransportId(all, o), choice.kind = "selected"
  PROVE  ChoiceIsSafe(all, choice, o)
  <1> DEFINE ds == {x \in all : x.tid = o.transportId}
             d == First(ds)
  <1>1. ds # {} /\ Usable(d) /\ choice = Selected(d, "transport-id")
    BY DEF ByTransportId, Refused
  <1>2. choice.transport = d /\ choice.reason = "transport-id"
    BY <1>1, SelectedFields
  <1>3. d \in ds
    BY <1>1, FirstIsOne
  <1>4. d.tid = o.transportId
    BY <1>3
  <1> HIDE DEF d, ds
  <1> QED BY <1>1, <1>2, <1>4 DEF ChoiceIsSafe

\* The only ready target: every usable transport belongs to it, and to one device where
\* none may be mistaken.
LEMMA OnlyReadyIsSafe ==
  ASSUME NEW all, Inventory(all),
         NEW asked \in SUBSET {x \in all : Usable(x)}, NEW services,
         NEW identity, identity = [x \in all |-> IdentityOf(x, asked, services)],
         NEW o, o.transportId = None, o.selector = None, o.rememberedOnly = FALSE,
         NEW choice, choice = OnlyReady(TargetsOf(all, identity)), choice.kind = "selected"
  PROVE  ChoiceIsSafe(all, choice, o)
  <1> DEFINE targets == TargetsOf(all, identity)
             some == {t \in targets : ReadyOf(t) # {}}
             theOne == CHOOSE t \in some : TRUE
             ds == ReadyOf(theOne)
             d == First(ds)
  <1>1. some # {} /\ ~(Cardinality(some) > 1) /\ ~SameSerial(ds) /\ choice = Selected(d, "only-ready")
    BY DEF OnlyReady, Refused
  <1>2. choice.transport = d /\ choice.reason = "only-ready"
    BY <1>1, SelectedFields
  <1>3. theOne \in targets /\ ds # {} /\ theOne \in some
    BY <1>1
  <1>4. theOne \in SUBSET all
    BY <1>3 DEF TargetsOf
  <1>5. d \in theOne /\ Usable(d) /\ d \in all /\ d \in ds
    <2>1. d \in theOne /\ Usable(d)
      BY <1>3, <1>4, FirstOfReady
    <2> QED BY <1>4, <2>1 DEF ReadyOf
  <1>6. IsFiniteSet(some)
    <2> DEFINE of == [x \in all |-> {y \in all : Key(y, identity) = Key(x, identity)}]
    <2>1. of \in Surjection(all, targets)
      BY DEF TargetsOf, Surjection
    <2>2. IsFiniteSet(targets)
      <3> HIDE DEF of, targets
      <3> QED BY <2>1, FS_Surjection DEF Inventory
    <2> HIDE DEF targets
    <2> QED BY <2>2, FS_Subset
  <1>7. ASSUME NEW e \in all, Usable(e) PROVE e \in ds
    <2> DEFINE t == {y \in all : Key(y, identity) = Key(e, identity)}
    <2>1. t \in targets /\ e \in t
      BY DEF TargetsOf
    <2>2. t \in some
      BY <1>7, <2>1 DEF ReadyOf
    <2>3. t = theOne
      <3> HIDE DEF t, some, theOne
      <3> QED BY <1>1, <1>3, <1>6, <2>2, OneIsEnough
    <2> QED BY <1>7, <2>1, <2>3 DEF ReadyOf
  <1> HIDE DEF d, ds, some, theOne
  <1>8. ds = ReadyOf(theOne) /\ ds \in SUBSET all /\ \A x \in ds : Usable(x)
    BY <1>4 DEF ds, ReadyOf
  <1>9. ~SameSerial(Bearers(all, d)) \/ Mistakable(all, d)
    BY <1>1, <1>3, <1>5, <1>8, TargetIsKnown
  <1>10. ASSUME NEW e \in ds PROVE Key(e, identity) = Key(d, identity)
    BY <1>3, <1>5, <1>8 DEF TargetsOf, ReadyOf
  <1>11. ASSUME NEW e \in ds PROVE e.hw = d.hw \/ Mistakable(all, d) \/ Mistakable(all, e)
    <2>0. Key(e, identity) = Key(d, identity)
      BY <1>10
    <2>1. CASE identity[d] = None
      <3>1. e.serial = d.serial
        BY <2>0, <2>1 DEF Key
      <3>2. e = d \/ Mistakable(all, d)
        BY <1>1, <1>3, <1>5, <1>8, <3>1, TargetHasNoTwins
      <3> QED BY <3>2
    <2>2. CASE identity[d] # None
      <3>1. identity[e] = identity[d]
        BY <2>0, <2>2 DEF Key
      <3>2. identity[d] = d.hw \/ Mistakable(all, d)
        BY <1>1, <1>3, <1>5, <1>8, <2>2, TargetIsOneDevice
      <3>3. identity[e] = e.hw \/ Mistakable(all, e)
        BY <1>1, <1>3, <1>8, <2>2, <3>1, TargetIsOneDevice
      <3> QED BY <3>1, <3>2, <3>3
    <2> QED BY <2>1, <2>2
  <1> QED BY <1>2, <1>5, <1>7, <1>9, <1>11 DEF ChoiceIsSafe
LEMMA MemoryIsSafe ==
  ASSUME NEW all, Inventory(all),
         NEW asked \in SUBSET {x \in all : Usable(x)}, NEW services,
         NEW identity, identity = [x \in all |-> IdentityOf(x, asked, services)],
         NEW o, o.transportId = None, o.selector = None, o.rememberedOnly \in BOOLEAN,
         NEW choice, choice = ByMemory(all, TargetsOf(all, identity), identity, o), choice.kind = "selected"
  PROVE  ChoiceIsSafe(all, choice, o)
  <1> DEFINE targets == TargetsOf(all, identity)
             mine == WithSerial(all, o.rememberedSerial)
             same == {t \in targets : o.rememberedHw # None /\ \E x \in t : identity[x] = o.rememberedHw}
             ready == UNION {ReadyOf(t) : t \in same}
             network == o.rememberedSerial # None /\ o.rememberedNetwork
  <1>0. mine \in SUBSET all /\ \A x \in mine : x.serial = o.rememberedSerial
    BY DEF WithSerial
  <1>1. CASE o.rememberedSerial # None /\ ReadyOf(mine) # {}
    <2> DEFINE d == First(ReadyOf(mine))
    <2>1. ~(Cardinality(mine) > 1) /\ choice = Selected(d, "remembered")
      BY <1>1 DEF ByMemory, Refused
    <2>2. choice.transport = d /\ choice.reason = "remembered"
      BY <2>1, SelectedFields
    <2>3. d \in mine /\ Usable(d) /\ d \in all
      BY <1>0, <1>1, FirstOfReady
    <2>4. d.serial = o.rememberedSerial
      BY <1>0, <2>3
    <2> HIDE DEF d, mine
    <2>5. IsFiniteSet(mine)
      BY <1>0, FS_Subset DEF Inventory
    <2>6. ReadyOf(mine) = {d}
      BY <2>1, <2>3, <2>5, OneIsEnough DEF ReadyOf
    <2>7. ~SameSerial(Bearers(all, d))
      BY <2>4, <2>6, OneIsNoTwin DEF mine, Bearers
    <2> QED BY <2>2, <2>3, <2>4, <2>7 DEF ChoiceIsSafe
  <1>2. CASE ~(o.rememberedSerial # None /\ ReadyOf(mine) # {}) /\ ready # {}
    <2> DEFINE d == OfRememberedKind(ready, network)
    <2>1. choice = Selected(d, "remembered-identity")
      BY <1>2 DEF ByMemory, Refused
    <2>2. choice.transport = d /\ choice.reason = "remembered-identity"
      BY <2>1, SelectedFields
    <2>3. ready \in SUBSET all
      BY DEF TargetsOf, ReadyOf
    <2>4. d \in ready
      <3> HIDE DEF ready
      <3> DEFINE alike == {x \in ready : IF network THEN Network(x) ELSE x.kind \in {"usb", "emulator"}}
                 those == IF alike # {} THEN alike ELSE ready
      <3>1. those \in SUBSET ready /\ those # {} /\ those \in SUBSET all
        BY <1>2, <2>3
      <3>2. d = First(those)
        BY DEF OfRememberedKind
      <3> HIDE DEF those, d, network
      <3> QED BY <3>1, <3>2, FirstIsOne
    <2> HIDE DEF d
    <2>5. PICK t \in same : d \in ReadyOf(t)
      BY <2>4
    <2>6. PICK e \in t : identity[e] = o.rememberedHw /\ o.rememberedHw # None
      BY <2>5
    <2>7. t \in targets /\ d \in t /\ Usable(d) /\ d \in all
      BY <2>3, <2>4, <2>5 DEF ReadyOf
    <2>8. Key(d, identity) = Key(e, identity)
      BY <2>6, <2>7 DEF TargetsOf
    <2>9. identity[d] = o.rememberedHw
      BY <2>6, <2>8 DEF Key
    <2>10. PICK a \in asked : a.serial = d.serial /\ a.hw = o.rememberedHw
      <3>1. IdentityOf(d, asked, services) = o.rememberedHw
        BY <2>7, <2>9
      <3> QED BY <2>6, <2>7, <3>1, IdentityIsOfSerial
    <2>11. a \in Bearers(all, d)
      BY <2>10 DEF Bearers, ReadyOf, WithSerial
    <2>12. o.rememberedHw \in {x.hw : x \in Bearers(all, d)}
      BY <2>10, <2>11
    <2> HIDE DEF ready, same, targets
    <2> QED BY <2>2, <2>7, <2>12 DEF ChoiceIsSafe
  <1>3. CASE ~(o.rememberedSerial # None /\ ReadyOf(mine) # {}) /\ ready = {}
    <2>1. o.rememberedOnly = FALSE /\ choice = OnlyReady(targets)
      BY <1>3 DEF ByMemory, Refused
    <2> QED BY <2>1, OnlyReadyIsSafe
  <1> QED BY <1>1, <1>2, <1>3

\* selectTarget: among what adb lists, whatever the options, what is remembered and which
\* transports could be asked for their identity, the transport that is chosen is usable, it
\* is what was asked for, and it is not one of two that a serial stands for, unless one of
\* those two belongs to a device with a transport of another serial.
THEOREM ChosenSafely ==
  ASSUME NEW all, Inventory(all),
         NEW asked \in SUBSET {x \in all : Usable(x)}, NEW services,
         NEW identity, identity = [x \in all |-> IdentityOf(x, asked, services)],
         NEW o, o.rememberedOnly \in BOOLEAN,
         NEW choice, choice = SelectTarget(all, identity, o), choice.kind = "selected"
  PROVE  ChoiceIsSafe(all, choice, o)
  <1>1. CASE o.transportId # None
    BY <1>1, TransportIdIsSafe DEF SelectTarget
  <1>2. CASE o.transportId = None /\ o.selector # None
    BY <1>2, SelectorIsSafe DEF SelectTarget
  <1>3. CASE o.transportId = None /\ o.selector = None
    BY <1>3, MemoryIsSafe DEF SelectTarget
  <1> QED BY <1>1, <1>2, <1>3

-----------------------------------------------------------------------------
(* Nothing but what was asked for *)

AsAsked == Lasting(facts') # Lasting(facts) /\ command' # command => ChangeWasAsked

LEMMA NothingIsAsAsked == facts' = facts \/ command' = command => AsAsked
  BY DEF AsAsked, Lasting

LEMMA EndsAndGoes ==
  /\ \A ps : Finish(ps) => at' = "ended" /\ exit' # Running
  /\ \A step : GoTo(step) => at' = step /\ problems' = problems /\ exit' = exit
  BY FinishIsOver DEF EndsAs, GoTo

\* Where the commands that map ports and connect targets stand on what they may do.
MayChange == {"mutate", "connect", "pair"}
TargetsAsk ==
  cmd.name \in {"ports", "connect", "pair"} =>
    /\ exit = Running => problems = {}
    /\ at \in MayChange => ~cmd.dryRun
    /\ cmd.name = "ports" =>
         /\ {"mdns", "asked", "target"} \subseteq DOMAIN mem
         /\ mem.asked \in SUBSET {d \in cmd.devices : Usable(d)}
         /\ at \in {"list", "mutate"} => ChoiceIsSafe(cmd.devices, mem.target, cmd.select)

\* A step that leaves the device as it is and comes to none of those places.
GoesOn ==
  /\ UNCHANGED <<cmd, facts>> /\ (exit' = Running => problems' = problems) /\ exit = Running
  /\ at' \notin MayChange \cup {"list"}
  /\ cmd.name = "ports" => DOMAIN mem' = DOMAIN mem /\ mem'.asked \in SUBSET {d \in cmd.devices : Usable(d)}

LEMMA GoingOnKeeps == ASSUME TargetsAsk, GoesOn PROVE TargetsAsk' /\ AsAsked
  <1>1. AsAsked
    BY NothingIsAsAsked DEF GoesOn
  <1>2. TargetsAsk'
    BY DEF TargetsAsk, GoesOn, MayChange, Usable
  <1> QED BY <1>1, <1>2

\* What was asked for its identity was usable.
LEMMA InspectionAsks ==
  ASSUME TargetsAsk, MdnsStep("inspect") \/ MdnsStep("discover") \/ HardwareStep,
         cmd.name \in {"ports", "connect", "pair"}, at \notin MayChange \cup {"list"}
  PROVE  GoesOn
  <1>1. UNCHANGED <<cmd, facts, at, problems, exit>> /\ exit = Running
    BY DEF MdnsStep, HardwareStep, Awaiting
  <1>2. CASE cmd.name # "ports"
    BY <1>1, <1>2 DEF GoesOn
  <1>3. CASE cmd.name = "ports"
    <2>1. "asked" \in DOMAIN mem /\ mem.asked \in SUBSET {d \in cmd.devices : Usable(d)}
      BY <1>3 DEF TargetsAsk
    <2>2. CASE \E next : Keep([mdns |-> next])
      BY <1>1, <2>1, <2>2 DEF Keep, GoesOn
    <2>3. CASE Keep([hardware |-> "ok"])
      BY <1>1, <2>1, <2>3 DEF Keep, GoesOn
    <2>4. CASE \E value : \E answered \in SUBSET Probed(cmd.devices, cmd.select) :
                 Keep([hardware |-> value, asked |-> answered])
      <3>0. PICK value : \E answered \in SUBSET Probed(cmd.devices, cmd.select) :
              Keep([hardware |-> value, asked |-> answered])
        BY <2>4
      <3>1. PICK answered \in SUBSET Probed(cmd.devices, cmd.select) :
              Keep([hardware |-> value, asked |-> answered])
        BY <3>0
      <3>2. DOMAIN mem' = DOMAIN mem /\ mem'.asked = answered
        BY <2>1, <3>1 DEF Keep
      <3>3. answered \in SUBSET {d \in cmd.devices : Usable(d)}
        BY DEF Probed
      <3> QED BY <1>1, <3>2, <3>3 DEF GoesOn
    <2>5. HardwareStep => \/ Keep([hardware |-> "ok"])
                          \/ \E value : \E answered \in SUBSET Probed(cmd.devices, cmd.select) :
                               Keep([hardware |-> value, asked |-> answered])
      BY DEF HardwareStep
    <2> QED BY <2>2, <2>3, <2>4, <2>5 DEF MdnsStep
  <1> QED BY <1>2, <1>3

LEMMA PortsAsk == ASSUME TargetsAsk, Askable, Ports PROVE TargetsAsk' /\ AsAsked
  <1>0. /\ cmd.name = "ports" /\ {"mdns", "asked", "target"} \subseteq DOMAIN mem
        /\ mem.asked \in SUBSET {d \in cmd.devices : Usable(d)}
    BY DEF Ports, TargetsAsk
  <1>1. CASE PortsInput \/ ResolveAdb(GoTo("devices") /\ UNCHANGED mem)
    <2>1. GoesOn
      BY <1>0, <1>1, EndsAndGoes DEF PortsInput, ResolveAdb, Decide, Awaiting, GoesOn, MayChange
    <2> QED BY <2>1, GoingOnKeeps
  <1>2. CASE Read("devices", "adb", StartInspect("features"))
    <2>1. StartInspect("features") => DOMAIN mem' = DOMAIN mem /\ mem'.asked = {} /\ GoTo("inspect")
      BY <1>0 DEF StartInspect, Keep
    <2>2. GoesOn
      BY <1>0, <1>2, <2>1, EndsAndGoes DEF Read, Awaiting, GoesOn, MayChange
    <2> QED BY <2>2, GoingOnKeeps
  <1>3. CASE Inspected(Select(LAMBDA choice : GoTo("list") /\ Keep([target |-> choice])))
    <2> DEFINE choice == SelectTarget(cmd.devices, SeenIdentity, cmd.select)
    <2>1. UNCHANGED <<cmd, facts>> /\ exit = Running
      BY <1>3 DEF Inspected, Decide, Awaiting
    <2>2. \/ UNCHANGED mem /\ \E ps : Finish(ps)
          \/ choice.kind = "selected" /\ GoTo("list") /\ Keep([target |-> choice])
      BY <1>3 DEF Inspected, Select, Decide
    <2>3. CASE UNCHANGED mem /\ \E ps : Finish(ps)
      <3>1. GoesOn
        BY <1>0, <2>1, <2>3, EndsAndGoes DEF GoesOn, MayChange
      <3> QED BY <3>1, GoingOnKeeps
    <2>4. CASE choice.kind = "selected" /\ GoTo("list") /\ Keep([target |-> choice])
      <3>1. ChoiceIsSafe(cmd.devices, choice, cmd.select)
        <4> DEFINE services == IF mem.mdns = "ok" THEN Services ELSE {}
        <4>1. /\ Inventory(cmd.devices) /\ cmd.select.rememberedOnly \in BOOLEAN
              /\ choice.kind = "selected"
          BY <1>0, <2>4 DEF Askable
        <4>2. SeenIdentity = [x \in cmd.devices |-> IdentityOf(x, mem.asked, services)]
          BY DEF SeenIdentity
        <4>3. choice = SelectTarget(cmd.devices, SeenIdentity, cmd.select)
          OBVIOUS
        <4>4. mem.asked \in SUBSET {d \in cmd.devices : Usable(d)}
          BY <1>0
        <4> HIDE DEF services, choice
        <4> QED BY <4>1, <4>2, <4>3, <4>4, ChosenSafely
      <3> HIDE DEF choice
      <3>2. DOMAIN mem' = DOMAIN mem /\ mem'.target = choice /\ mem'.asked = mem.asked
        BY <1>0, <2>4 DEF Keep
      <3>3. at' = "list" /\ problems' = problems /\ exit' = exit
        BY <2>4, EndsAndGoes
      <3>4. ChoiceIsSafe(cmd'.devices, mem'.target, cmd'.select)
        BY <2>1, <3>1, <3>2
      <3>5. TargetsAsk'
        BY <1>0, <2>1, <3>2, <3>3, <3>4 DEF TargetsAsk, MayChange
      <3> QED BY <2>1, <3>5, NothingIsAsAsked
    <2> QED BY <2>2, <2>3, <2>4
  <1>4. CASE Read("list", "adb", PortsListed /\ UNCHANGED mem)
    <2>1. UNCHANGED <<cmd, facts, mem>> /\ exit = Running /\ at = "list"
      BY <1>4 DEF Read, Awaiting
    <2>2. (\E ps : Finish(ps)) \/ (GoTo("mutate") /\ ~cmd.dryRun)
      BY <1>4 DEF Read, PortsListed
    <2>3. TargetsAsk'
      BY <1>0, <2>1, <2>2, EndsAndGoes DEF TargetsAsk, MayChange
    <2> QED BY <2>1, <2>3, NothingIsAsAsked
  <1>5. CASE PortsMutate
    <2>1. UNCHANGED <<cmd, mem>> /\ exit = Running /\ at = "mutate"
      BY <1>5 DEF PortsMutate, Awaiting
    <2>2. GoTo("verify") \/ \E ps : Finish(ps)
      BY <1>5 DEF PortsMutate
    <2>3. TargetsAsk'
      BY <1>0, <2>1, <2>2, EndsAndGoes DEF TargetsAsk, MayChange
    <2>4. ChangeWasAsked
      BY <1>0, <2>1 DEF TargetsAsk, MayChange, ChangeWasAsked
    <2> QED BY <2>3, <2>4 DEF AsAsked
  <1>6. CASE Read("verify", "adb", PortsVerified /\ UNCHANGED mem)
    <2>1. GoesOn
      BY <1>0, <1>6, EndsAndGoes DEF Read, PortsVerified, Awaiting, GoesOn, MayChange
    <2> QED BY <2>1, GoingOnKeeps
  <1> QED BY <1>1, <1>2, <1>3, <1>4, <1>5, <1>6 DEF Ports

LEMMA WirelessAsk == ASSUME TargetsAsk, Connect \/ Pair PROVE TargetsAsk' /\ AsAsked
  <1>0. cmd.name \in {"connect", "pair"}
    BY DEF Connect, Pair
  <1>1. ASSUME cmd' = cmd, exit = Running, exit' = Running => problems' = problems,
               at' \in MayChange => ~cmd.dryRun
        PROVE  TargetsAsk'
    BY <1>0, <1>1 DEF TargetsAsk
  <1>2. CASE WirelessInput \/ ResolveEndpoint
    <2>1. UNCHANGED <<cmd, facts>> /\ exit = Running
      BY <1>2 DEF WirelessInput, ResolveEndpoint, ResolveAdb, Discovered, Decide, Awaiting
    <2>2. \/ \E ps : Finish(ps)
          \/ \E step \in {"adb", "discover"} : GoTo(step)
          \/ ~cmd.dryRun /\ GoTo(cmd.name)
      BY <1>2 DEF WirelessInput, ResolveEndpoint, ResolveAdb, Discovered, Attempt,
         StartDiscovery, Decide
    <2> QED BY <1>1, <2>1, <2>2, EndsAndGoes, NothingIsAsAsked DEF MayChange
  <1>3. CASE ConnectAttempt \/ PairAttempt
    <2>1. cmd' = cmd /\ exit = Running /\ at \in MayChange
      BY <1>3 DEF ConnectAttempt, PairAttempt, Awaiting, MayChange
    <2>2. (\E ps : Finish(ps)) \/ \E step \in {"state", "connect"} : GoTo(step)
      BY <1>3 DEF ConnectAttempt, PairAttempt
    <2>3. problems = {} /\ ~cmd.dryRun
      BY <1>0, <2>1 DEF TargetsAsk
    <2>4. TargetsAsk'
      BY <1>1, <2>1, <2>2, <2>3, EndsAndGoes
    <2> QED BY <1>0, <2>3, <2>4 DEF AsAsked, ChangeWasAsked
  <1>4. CASE ConnectState \/ ConnectIdentity
    <2>1. UNCHANGED <<cmd, facts>> /\ exit = Running
      BY <1>4 DEF ConnectState, ConnectIdentity, Read, Awaiting
    <2>2. (\E ps : Finish(ps)) \/ GoTo("identity")
      BY <1>4 DEF ConnectState, ConnectIdentity, Read
    <2> QED BY <1>1, <2>1, <2>2, EndsAndGoes, NothingIsAsAsked DEF MayChange
  <1> QED BY <1>2, <1>3, <1>4 DEF Connect, Pair

LEMMA TargetsAskSteps == ASSUME TargetsAsk, Askable, TargetNext PROVE TargetsAsk' /\ AsAsked
  <1>1. CASE cmd.name \in {"doctor", "devices", "discover"}
    <2>1. UNCHANGED <<cmd, facts>>
      BY <1>1 DEF TargetNext, Doctor, Devices, Ports, Discover, Connect, Pair, MdnsStep,
         HardwareStep, ResolveAdb, Read, OptionalProbe, Inspected, Discovered, Decide
    <2> QED BY <1>1, <2>1, NothingIsAsAsked DEF TargetsAsk
  <1>2. CASE Ports \/ Connect \/ Pair
    BY <1>2, PortsAsk, WirelessAsk
  <1>3. CASE MdnsStep("inspect") \/ MdnsStep("discover") \/ HardwareStep
    <2>1. CASE cmd.name \in {"ports", "connect", "pair"}
      <3>1. at \in {"inspect", "discover"}
        BY <1>3 DEF MdnsStep, HardwareStep, Awaiting
      <3>2. GoesOn
        BY <1>3, <2>1, <3>1, InspectionAsks DEF MayChange
      <3> QED BY <3>2, GoingOnKeeps
    <2>2. CASE cmd.name \notin {"ports", "connect", "pair"}
      <3>1. UNCHANGED <<cmd, facts>>
        BY <1>3 DEF MdnsStep, HardwareStep
      <3> QED BY <2>2, <3>1, NothingIsAsAsked DEF TargetsAsk
    <2> QED BY <2>1, <2>2
  <1> QED BY <1>1, <1>2, <1>3 DEF TargetNext, Doctor, Devices, Discover

-----------------------------------------------------------------------------
(* Nothing but what was asked for of an application *)

AppChanges == {"stop", "stopped", "activity?", "launch", "prior", "install", "clear", "uninstall", "start"}
AppsAsk ==
  cmd.name \in {"app", "open"} =>
    /\ exit = Running => problems = {}
    /\ at \in AppChanges => ~cmd.dryRun
    /\ at \in {"clear", "uninstall"} => cmd.approved

LEMMA AppGoesOn ==
  ASSUME AppsAsk, cmd' = cmd, exit = Running, exit' = Running => problems' = problems,
         at' \in AppChanges => ~cmd.dryRun, at' \in {"clear", "uninstall"} => cmd.approved
  PROVE  AppsAsk'
  BY DEF AppsAsk

LEMMA BeginningAsks ==
  ASSUME AppsAsk, NEW first, first \notin AppChanges, ReadyTarget(first) \/ RequireApp(first)
  PROVE  AppsAsk' /\ AsAsked
  <1>1. Beginning({"devices", "inspect", "packages", first, "ended"})
    BY ReadyTargetBegins, RequireAppBegins DEF Beginning
  <1>2. exit' = Running => problems' = problems
    <2>1. CASE ReadyTarget(first)
      BY <2>1, EndsAndGoes DEF ReadyTarget, Decide, Unready, StartInspect, MdnsStep,
         HardwareStep
    <2>2. CASE RequireApp(first)
      BY <2>2, EndsAndGoes DEF RequireApp, Decide, Read, Identified
    <2> QED BY <2>1, <2>2
  <1>3. UNCHANGED <<cmd, facts>> /\ exit = Running /\ at' \notin AppChanges
    BY <1>1 DEF Beginning, AppChanges
  <1> QED BY <1>2, <1>3, AppGoesOn, NothingIsAsAsked DEF AppChanges

\* A change of the one application that is no destruction.
OfTheApp(new) ==
  \A f \in (facts \ new) \cup (new \ facts) :
    f[2] \in {mem.app, cmd.artifact} \/ (f[1] = "foreground" /\ f \notin new)

LEMMA OneApp ==
  /\ OfTheApp(Stopped(mem.app)) /\ OfTheApp(Started(mem.app))
  /\ OfTheApp({f \in Stopped(mem.app) : f # <<"data", mem.app>>})
  /\ OfTheApp({f \in facts : f[2] # mem.app})
  /\ OfTheApp(Without({"installed", "running", "foreground"}, cmd.artifact) \cup {<<"installed", cmd.artifact, "new">>})
  BY DEF OfTheApp, Stopped, Started, Without

LEMMA ChangeOfApp ==
  ASSUME AppsAsk, cmd.name \in {"app", "open"}, exit = Running, at \in AppChanges,
         NEW new, facts' \in {facts, new},
         cmd.name = "app" => OfTheApp(new) /\ (cmd.action \in {"clear-data", "uninstall"} => cmd.approved)
  PROVE  AsAsked
  <1>1. CASE facts' = facts
    BY <1>1, NothingIsAsAsked
  <1>2. CASE facts' = new
    <2>1. problems = {} /\ ~cmd.dryRun
      BY DEF AppsAsk
    <2>2. cmd.name = "app" => AppAsked
      BY <1>2 DEF OfTheApp, AppAsked
    <2> QED BY <2>1, <2>2 DEF AsAsked, ChangeWasAsked
  <1> QED BY <1>1, <1>2

LEMMA CallAsks ==
  ASSUME AppsAsk, AppInv, cmd.name \in {"app", "open"}, NEW step \in {"stop", "launch", "install", "start"},
         step = "start" => cmd.name = "open", Awaiting(step), cmd' = cmd,
         NEW new, cmd.name = "app" => OfTheApp(new), facts' \in {facts, new},
         (\E ps : Finish(ps)) \/ (\E next \in {"stopped", "foreground", "after", "opened"} : GoTo(next))
  PROVE  AppsAsk' /\ AsAsked
  <1>1. exit = Running /\ at = step
    BY DEF Awaiting
  <1>2. cmd.name = "app" => cmd.action \notin {"clear-data", "uninstall"}
    BY <1>1 DEF AppInv, AppPlaces
  <1>3. ~cmd.dryRun /\ at \in AppChanges
    BY <1>1 DEF AppsAsk, AppChanges
  <1>4. AppsAsk'
    BY <1>1, <1>3, AppGoesOn, EndsAndGoes DEF AppChanges
  <1> QED BY <1>1, <1>2, <1>3, <1>4, ChangeOfApp

\* A step that leaves the device as it is.
LEMMA LookAsks ==
  ASSUME AppsAsk, UNCHANGED <<cmd, facts>>, exit = Running,
         \/ \E ps : Finish(ps)
         \/ \E next : /\ GoTo(next) /\ (next \in AppChanges => ~cmd.dryRun)
                      /\ next \in {"clear", "uninstall"} => cmd.approved
  PROVE  AppsAsk' /\ AsAsked
  <1>1. AppsAsk'
    BY AppGoesOn, EndsAndGoes DEF AppChanges
  <1> QED BY <1>1, NothingIsAsAsked

LEMMA StopAndLaunchAsk ==
  ASSUME AppsAsk, AppInv, cmd.name = "app",
         \/ StopApp((IF cmd.action = "stop" THEN Finish({}) ELSE GoTo("activity?")) /\ UNCHANGED mem)
         \/ LaunchApp
  PROVE  AppsAsk' /\ AsAsked
  <1>1. CASE Change("stop", Stopped(mem.app), GoTo("stopped") /\ UNCHANGED mem)
    <2>1. Awaiting("stop") /\ cmd' = cmd /\ facts' \in {facts, Stopped(mem.app)} /\ ((\E ps : Finish(ps)) \/ GoTo("stopped"))
      BY <1>1, EffectIsOneOf DEF Change
    <2> QED BY <2>1, OneApp, CallAsks
  <1>2. CASE Change("launch", Started(mem.app), GoTo("foreground") /\ UNCHANGED mem)
    <2>1. Awaiting("launch") /\ cmd' = cmd /\ facts' \in {facts, Started(mem.app)} /\ ((\E ps : Finish(ps)) \/ GoTo("foreground"))
      BY <1>2, EffectIsOneOf DEF Change
    <2> QED BY <2>1, OneApp, CallAsks
  <1>3. CASE /\ Awaiting("stopped") /\ UNCHANGED <<cmd, signal, facts>>
             /\ \E r \in Ends : Settles(r) /\
                  IF r = "ok" /\ <<"running", mem.app>> \notin facts
                  THEN (IF cmd.action = "stop" THEN Finish({}) ELSE GoTo("activity?")) /\ UNCHANGED mem
                  ELSE Finish({"adb"}) /\ UNCHANGED mem
    <2>1. ~cmd.dryRun
      BY <1>3 DEF Awaiting, AppsAsk, AppChanges
    <2>2. (\E ps : Finish(ps)) \/ GoTo("activity?")
      BY <1>3
    <2> QED BY <1>3, <2>1, <2>2, LookAsks DEF Awaiting
  <1>4. CASE Decide("activity?", GoTo(IF cmd.activity THEN "launch" ELSE "activity") /\ UNCHANGED mem)
    <2>1. ~cmd.dryRun
      BY <1>4 DEF Decide, Awaiting, AppsAsk, AppChanges
    <2>2. \E next \in {"launch", "activity"} : GoTo(next)
      BY <1>4 DEF Decide
    <2> QED BY <1>4, <2>1, <2>2, LookAsks DEF Decide, Awaiting
  <1>5. CASE \/ /\ Awaiting("activity") /\ UNCHANGED <<cmd, signal, facts, mem>>
                /\ \E r \in Ends, found \in BOOLEAN : Settles(r) /\
                     IF r = "ok" /\ found THEN IF cmd.dryRun THEN Finish({}) ELSE GoTo("launch") ELSE Finish({"adb"})
             \/ /\ Awaiting("foreground") /\ UNCHANGED <<cmd, signal, facts>>
                /\ \E r \in Ends : Settles(r) /\
                     IF r = "ok" /\ <<"foreground", mem.app>> \in facts THEN Finish({}) /\ UNCHANGED mem
                     ELSE GoTo(IF mem.tries < 4 THEN "foreground" ELSE "lock") /\ Keep([tries |-> mem.tries + 1])
             \/ /\ Awaiting("lock") /\ UNCHANGED <<cmd, signal, facts, mem>>
                /\ \E r \in Ends : Settles(r) /\ Finish({"adb"})
    <2>1. (\E ps : Finish(ps)) \/ (~cmd.dryRun /\ GoTo("launch")) \/ \E next \in {"foreground", "lock"} : GoTo(next)
      BY <1>5
    <2>2. {"foreground", "lock"} \cap AppChanges = {}
      BY DEF AppChanges
    <2> QED BY <1>5, <2>1, <2>2, LookAsks DEF Awaiting
  <1> QED BY <1>1, <1>2, <1>3, <1>4, <1>5 DEF StopApp, LaunchApp

LEMMA InstallAsks == ASSUME AppsAsk, AppInv, cmd.name = "app", InstallApp PROVE AppsAsk' /\ AsAsked
  <1> DEFINE new == Without({"installed", "running", "foreground"}, cmd.artifact) \cup {<<"installed", cmd.artifact, "new">>}
  <1>1. CASE Change("install", new, GoTo("after") /\ UNCHANGED mem)
    <2>1. Awaiting("install") /\ cmd' = cmd /\ facts' \in {facts, new} /\ ((\E ps : Finish(ps)) \/ GoTo("after"))
      BY <1>1, EffectIsOneOf DEF Change
    <2>2. OfTheApp(new)
      BY OneApp
    <2> HIDE DEF new
    <2> QED BY <2>1, <2>2, CallAsks
  <1>2. CASE Decide("artifact", UNCHANGED mem /\ IF cmd.validArtifacts THEN GoTo("before") ELSE Finish({"input"}))
    <2>1. UNCHANGED <<cmd, facts>> /\ exit = Running /\ ((\E ps : Finish(ps)) \/ GoTo("before"))
      BY <1>2 DEF Decide, Awaiting
    <2> QED BY <2>1, LookAsks DEF AppChanges
  <1>3. CASE Read("before", "adb",
       IF cmd.dryRun THEN Finish(IF cmd.local = "resolved" THEN {} ELSE {"input"}) /\ UNCHANGED mem
       ELSE GoTo(IF cmd.local = "resolved" THEN "prior" ELSE "install") /\ Keep([names |-> InstalledNames]))
    <2>1. UNCHANGED <<cmd, facts>> /\ exit = Running
      BY <1>3 DEF Read, Awaiting
    <2>2. (\E ps : Finish(ps)) \/ (~cmd.dryRun /\ \E next \in {"prior", "install"} : GoTo(next))
      BY <1>3 DEF Read
    <2> QED BY <2>1, <2>2, LookAsks
  <1>4. CASE /\ Awaiting("prior") /\ UNCHANGED <<cmd, signal, facts>>
             /\ \E r \in Ends : Settles(r) /\ GoTo("install") /\
                  Keep([prior |-> IF r # "ok" THEN "failed" ELSE IF Installed("want") THEN "installed" ELSE "absent"])
    <2>1. ~cmd.dryRun
      BY <1>4 DEF Awaiting, AppsAsk, AppChanges
    <2> QED BY <1>4, <2>1, LookAsks DEF Awaiting
  <1>5. CASE \/ /\ Awaiting("after") /\ UNCHANGED <<cmd, signal, facts>>
                /\ \E r \in Ends : Settles(r) /\
                     LET fresh == (IF r = "ok" THEN InstalledNames ELSE {}) \ mem.names
                     IN  IF IdAmong(fresh) = "resolved" THEN GoTo("info") /\ Keep([app |-> TheApp(fresh)])
                         ELSE Finish({"adb"}) /\ UNCHANGED mem
             \/ /\ Awaiting("info") /\ UNCHANGED <<cmd, signal, facts, mem>>
                /\ \E r \in Ends : Settles(r) /\ Finish(IF r = "ok" /\ InstallationChanged THEN {} ELSE {"adb"})
    <2>1. UNCHANGED <<cmd, facts>> /\ exit = Running
      BY <1>5 DEF Awaiting
    <2>2. (\E ps : Finish(ps)) \/ GoTo("info")
      BY <1>5
    <2> QED BY <2>1, <2>2, LookAsks DEF AppChanges
  <1> QED BY <1>1, <1>2, <1>3, <1>4, <1>5 DEF InstallApp

LEMMA RemovalAsks == ASSUME AppsAsk, AppInv, cmd.name = "app", ClearData \/ Uninstall PROVE AppsAsk' /\ AsAsked
  <1>1. ASSUME NEW new, OfTheApp(new), Awaiting("clear") \/ Awaiting("uninstall"), cmd' = cmd, facts' \in {facts, new},
               GoTo("cleared") \/ GoTo("removed")
        PROVE  AppsAsk' /\ AsAsked
    <2>1. exit = Running /\ at \in AppChanges /\ cmd.approved
      BY <1>1 DEF Awaiting, AppChanges, AppsAsk
    <2>2. AppsAsk'
      BY <1>1, <2>1, AppGoesOn, EndsAndGoes DEF AppChanges
    <2> QED BY <1>1, <2>1, <2>2, ChangeOfApp
  <1>2. CASE \E r \in Ends, refused \in BOOLEAN : Ended("clear", r,
       /\ IF r = "ok" /\ refused THEN UNCHANGED facts
          ELSE Effect(r, {f \in Stopped(mem.app) : f # <<"data", mem.app>>})
       /\ GoTo("cleared") /\ Keep([done |-> IF r = "ok" /\ refused THEN "failed" ELSE r]))
    <2> DEFINE new == {f \in Stopped(mem.app) : f # <<"data", mem.app>>}
    <2>1. Awaiting("clear") /\ cmd' = cmd /\ facts' \in {facts, new} /\ GoTo("cleared")
      BY <1>2, EffectIsOneOf DEF Ended
    <2>2. OfTheApp(new)
      BY OneApp
    <2> HIDE DEF new
    <2> QED BY <1>1, <2>1, <2>2
  <1>3. CASE \E r \in Ends, refused \in BOOLEAN : Ended("uninstall", r,
       /\ IF r = "ok" /\ refused THEN UNCHANGED facts
          ELSE Effect(r, {f \in facts : f[2] # mem.app})
       /\ GoTo("removed") /\ Keep([done |-> IF r = "ok" /\ refused THEN "failed" ELSE r]))
    <2> DEFINE new == {f \in facts : f[2] # mem.app}
    <2>1. Awaiting("uninstall") /\ cmd' = cmd /\ facts' \in {facts, new} /\ GoTo("removed")
      BY <1>3, EffectIsOneOf DEF Ended
    <2>2. OfTheApp(new)
      BY OneApp
    <2> HIDE DEF new
    <2> QED BY <1>1, <2>1, <2>2
  <1>4. CASE \/ \E r \in Ends : Ended("cleared", r,
                  /\ Finish(IF mem.done = "ok" /\ r = "ok" /\ Installed(mem.app) /\ <<"running", mem.app>> \notin facts
                            THEN {} ELSE {ProblemOf(mem.done, "adb")})
                  /\ UNCHANGED <<mem, facts>>)
             \/ \E r \in Ends : Ended("removed", r,
                  /\ Finish(IF mem.done = "ok" /\ (r = "ok" => ~Installed(mem.app)) THEN {} ELSE {ProblemOf(mem.done, "adb")})
                  /\ Keep([prior |-> r]) /\ UNCHANGED facts)
    <2>1. UNCHANGED <<cmd, facts>> /\ exit = Running /\ \E ps : Finish(ps)
      BY <1>4 DEF Ended, Awaiting
    <2> QED BY <2>1, LookAsks
  <1> QED BY <1>2, <1>3, <1>4 DEF ClearData, Uninstall

LEMMA AppAppearsAsks == ASSUME AppsAsk, AppAppears PROVE AppsAsk' /\ AsAsked
  BY NothingIsAsAsked DEF AppAppears, command, AppsAsk

LEMMA AppAsks == ASSUME AppsAsk, AppInv, App PROVE AppsAsk' /\ AsAsked
  <1>0. cmd.name = "app"
    BY DEF App
  <1>1. CASE \/ Decide("input",
                  /\ UNCHANGED mem
                  /\ IF cmd.action = "resolve" /\ cmd.local # "none"
                     THEN Finish(IF cmd.local = "resolved" THEN {} ELSE {"input"}) ELSE GoTo("adb"))
             \/ Read("list", "adb", Finish({}) /\ UNCHANGED mem) \/ Decide("resolved", Finish({}) /\ UNCHANGED mem)
    <2>1. UNCHANGED <<cmd, facts>> /\ exit = Running
      BY <1>1 DEF Decide, Read, Awaiting
    <2>2. (\E ps : Finish(ps)) \/ GoTo("adb")
      BY <1>1 DEF Decide, Read
    <2> QED BY <2>1, <2>2, LookAsks DEF AppChanges
  <1>2. CASE \/ ReadyTarget(CASE cmd.action = "install" -> "artifact" [] cmd.action = "list" -> "list" [] OTHER -> "identify")
             \/ cmd.action = "resolve" /\ RequireApp("resolved")
             \/ cmd.action # "resolve" /\ RequireApp("action")
    <2>1. \E first \in {"artifact", "list", "identify", "resolved", "action"} : ReadyTarget(first) \/ RequireApp(first)
      BY <1>2
    <2>2. {"artifact", "list", "identify", "resolved", "action"} \cap AppChanges = {}
      BY DEF AppChanges
    <2> QED BY <2>1, <2>2, BeginningAsks
  <1>3. CASE Decided
    <2>1. UNCHANGED <<cmd, facts>> /\ exit = Running
      BY <1>3 DEF Decided, Decide, Awaiting
    <2>2. \/ \E ps : Finish(ps)
          \/ \E next \in {"info-active", "activity"} : GoTo(next)
          \/ ~cmd.dryRun /\ \E next \in {"stop", "activity?"} : GoTo(next)
          \/ ~cmd.dryRun /\ cmd.approved /\ \E next \in {"clear", "uninstall"} : GoTo(next)
      BY <1>3 DEF Decided, Decide
    <2>3. {"info-active", "activity"} \cap AppChanges = {} /\ {"clear", "uninstall"} \cap {"info-active", "activity"} = {}
      BY DEF AppChanges
    <2> QED BY <2>1, <2>2, <2>3, LookAsks
  <1>4. CASE AppInfo
    <2>1. UNCHANGED <<cmd, facts>> /\ exit = Running
      BY <1>4 DEF AppInfo, Look, Awaiting
    <2>2. (\E ps : Finish(ps)) \/ GoTo("info-package")
      BY <1>4 DEF AppInfo, Look
    <2> QED BY <2>1, <2>2, LookAsks DEF AppChanges
  <1> QED BY <1>0, <1>1, <1>2, <1>3, <1>4, StopAndLaunchAsk, InstallAsks, RemovalAsks, AppAppearsAsks
             DEF App

LEMMA OpenAsks == ASSUME AppsAsk, AppInv, Open PROVE AppsAsk' /\ AsAsked
  <1>0. cmd.name = "open"
    BY DEF Open
  <1>1. CASE \/ Decide("input", UNCHANGED mem /\ IF cmd.validUrl THEN GoTo("adb") ELSE Finish({"input"}))
             \/ Decide("open", Keep([app |-> "want"]) /\ IF cmd.dryRun THEN Finish({}) ELSE GoTo("start"))
             \/ /\ Awaiting("opened") /\ UNCHANGED <<cmd, signal, facts, mem>>
                /\ \E r \in Ends : Settles(r) /\ Finish(IF r = "ok" /\ <<"foreground", "want">> \in facts THEN {} ELSE {"adb"})
    <2>1. UNCHANGED <<cmd, facts>> /\ exit = Running
      BY <1>1 DEF Decide, Awaiting
    <2>2. (\E ps : Finish(ps)) \/ GoTo("adb") \/ (~cmd.dryRun /\ GoTo("start"))
      BY <1>1 DEF Decide
    <2> QED BY <2>1, <2>2, LookAsks DEF AppChanges
  <1>2. CASE ReadyTarget("open")
    BY <1>2, BeginningAsks DEF AppChanges
  <1>3. CASE Change("start", Started("want"), UNCHANGED mem /\ IF cmd.named THEN GoTo("opened") ELSE Finish({}))
    <2>1. Awaiting("start") /\ cmd' = cmd /\ facts' \in {facts, Started("want")} /\ ((\E ps : Finish(ps)) \/ GoTo("opened"))
      BY <1>3, EffectIsOneOf DEF Change
    <2> QED BY <1>0, <2>1, CallAsks
  <1> QED BY <1>1, <1>2, <1>3, AppAppearsAsks DEF Open

-----------------------------------------------------------------------------
(* Nothing but what was asked for of the screen *)

Altering == {"ime-set", "send", "restore", "dismiss", "respond"}
Inputs == {"combination", "unicode", "ime-list", "ime-current", "plan", "ime-set", "send", "restore", "sent"}
UiAsk ==
  cmd.name = "ui" =>
    /\ exit = Running /\ problems # {} => at \in {"restore", "sent"}
    /\ at \in Altering => ~cmd.dryRun
    /\ mem.next \notin Altering \cup Inputs
    /\ cmd.action \in {"query", "wait", "inspect"} => {at, mem.next} \subseteq FirstPlaces \cup {"query", "waited"}
    /\ cmd.action # "permission" => {at, mem.next} \cap DialogPlaces = {}
    /\ cmd.by = "ref" /\ at \in Inputs => cmd.ref = mem.before

\* A step that leaves the device as it is and comes to no place of input.
UiGoesOn ==
  /\ cmd' = cmd /\ Lasting(facts') = Lasting(facts) /\ exit = Running /\ (exit' = Running => problems' = {})
  /\ at' \notin Altering \cup Inputs /\ mem'.next \notin Altering \cup Inputs
  /\ cmd.action \in {"query", "wait", "inspect"} => {at', mem'.next} \subseteq FirstPlaces \cup {"query", "waited"}
  /\ cmd.action # "permission" => {at', mem'.next} \cap DialogPlaces = {}

LEMMA UiGoingOn == ASSUME UiGoesOn PROVE UiAsk' /\ AsAsked
  <1>1. UiAsk'
    BY DEF UiGoesOn, UiAsk
  <1>2. AsAsked
    BY DEF UiGoesOn, AsAsked
  <1> QED BY <1>1, <1>2

LEMMA LastingLocks == Lasting(facts \cup {<<"ui-lock", "mine">>}) = Lasting(facts) /\ Lasting(facts \ {<<"ui-lock", "mine">>}) = Lasting(facts)
  BY DEF Lasting

LEMMA UiBeginningAsks == ASSUME UiAsk, UiInv, cmd.name = "ui", UiBegins PROVE UiAsk' /\ AsAsked
  <1>0. UiFields
    BY DEF UiInv
  <1>1. CASE Decide("input", UNCHANGED mem /\ IF cmd.action = "inspect" /\ ~cmd.validSelector THEN Finish({"input"}) ELSE GoTo("adb"))
    <2>1. UNCHANGED <<cmd, facts, mem>> /\ exit = Running /\ at = "input" /\ ((\E ps : Finish(ps)) \/ GoTo("adb"))
      BY <1>1 DEF Decide, Awaiting
    <2>2. UiGoesOn
      BY <2>1, EndsAndGoes DEF UiAsk, UiGoesOn, Altering, Inputs, FirstPlaces, DialogPlaces
    <2> QED BY <2>2, UiGoingOn
  <1>2. CASE ReadyTarget("selector")
    <2>1. Beginning({"devices", "inspect", "selector", "ended"})
      BY <1>2, ReadyTargetBegins
    <2>2. (exit' = Running => problems' = problems) /\ at \in {"adb", "devices", "inspect"}
      BY <1>2, EndsAndGoes DEF ReadyTarget, ResolveAdb, Read, Inspected, Decide, Awaiting,
         Unready, StartInspect, MdnsStep, HardwareStep
    <2>3. UNCHANGED <<cmd, facts>> /\ exit = Running /\ at' \in {"devices", "inspect", "selector", "ended"} /\ mem'.next = mem.next
      BY <1>0, <2>1 DEF Beginning, UiFields
    <2>4. UiGoesOn
      BY <2>2, <2>3 DEF UiAsk, UiGoesOn, Altering, Inputs, FirstPlaces, DialogPlaces
    <2> QED BY <2>4, UiGoingOn
  <1>3. CASE Decide("selector",
          CASE cmd.action = "keyboard" -> ReadKeyboard("key-before")
            [] cmd.action = "permission" -> Observe("dialog")
            [] cmd.action = "inspect" -> Observe("query")
            [] OTHER -> IF ~cmd.validSelector THEN Finish({"input"}) /\ UNCHANGED mem
                        ELSE Observe(CASE cmd.action = "query" -> "query" [] cmd.action = "wait" -> "waited" [] OTHER -> "before"))
    <2>1. UNCHANGED <<cmd, facts>> /\ exit = Running /\ at = "selector"
      BY <1>3 DEF Decide, Awaiting
    <2>2. \A next : /\ Observe(next) => at' = "ui-lock" /\ mem'.next = next /\ problems' = problems
                    /\ ReadKeyboard(next) => at' = "keyboard" /\ mem'.next = next /\ problems' = problems
      BY <1>0 DEF Observe, ReadKeyboard, GoTo, Keep, UiFields
    <2>3. \/ cmd.action = "keyboard" /\ ReadKeyboard("key-before")
          \/ cmd.action = "permission" /\ Observe("dialog")
          \/ cmd.action \notin {"keyboard", "permission"} /\ Observe("query")
          \/ (\E ps : Finish(ps)) /\ UNCHANGED mem
          \/ cmd.action \notin {"keyboard", "permission"} /\ Observe("waited")
          \/ cmd.action \notin {"keyboard", "permission", "query", "wait", "inspect"} /\ Observe("before")
      BY <1>3 DEF Decide
    <2>4. UiGoesOn
      BY <2>1, <2>2, <2>3, EndsAndGoes DEF UiAsk, UiGoesOn, Altering, Inputs, FirstPlaces,
         DialogPlaces
    <2> QED BY <2>4, UiGoingOn
  <1> QED BY <1>1, <1>2, <1>3 DEF UiBegins

LEMMA HierarchyAsks == ASSUME UiAsk, UiInv, cmd.name = "ui", UiLock \/ UiDump PROVE UiAsk' /\ AsAsked
  <1>0. UiFields
    BY DEF UiInv
  <1>1. CASE UiLock
    <2>1. cmd' = cmd /\ mem' = mem /\ exit = Running /\ at = "ui-lock" /\ Lasting(facts') = Lasting(facts)
      BY <1>1, LastingLocks DEF UiLock, Awaiting
    <2>2. (\E ps : Finish(ps)) \/ GoTo("ui-dump")
      BY <1>1 DEF UiLock
    <2>3. UiGoesOn
      BY <2>1, <2>2, EndsAndGoes DEF UiAsk, UiGoesOn, Altering, Inputs, FirstPlaces,
         DialogPlaces
    <2> QED BY <2>3, UiGoingOn
  <1>2. CASE UiDump
    <2>1. cmd' = cmd /\ exit = Running /\ at = "ui-dump" /\ Lasting(facts') = Lasting(facts)
      BY <1>2, LastingLocks DEF UiDump, Awaiting
    <2>2. \/ (\E ps : Finish(ps)) /\ UNCHANGED mem
          \/ GoTo(mem.next) /\ Keep([seen |-> Digest])
          \/ GoTo("ui-lock") /\ Keep([previous |-> Digest, snaps |-> mem.snaps + 1])
      BY <1>2 DEF UiDump
    <2>3. mem'.next = mem.next
      BY <1>0, <2>2 DEF Keep, UiFields
    <2>4. UiGoesOn
      BY <2>1, <2>2, <2>3, EndsAndGoes DEF UiAsk, UiGoesOn, Altering, Inputs, FirstPlaces,
         DialogPlaces
    <2> QED BY <2>4, UiGoingOn
  <1> QED BY <1>1, <1>2

\* A step to a place of input, which the reference is fresh at.
LEMMA InputGoesOn ==
  ASSUME UiAsk, cmd.name = "ui", UNCHANGED <<cmd, facts>>, exit = Running,
         cmd.action \notin {"query", "wait", "inspect", "permission"}, at \notin Altering \cup {"sent"},
         mem'.next = mem.next, exit' = Running => problems' = problems,
         at' \in Inputs \cup {"size", "ended"}, at' \in Altering => ~cmd.dryRun,
         cmd.by = "ref" /\ at' \in Inputs => cmd.ref = mem'.before
  PROVE  UiAsk' /\ AsAsked
  <1>1. UiAsk'
    BY DEF UiAsk, Altering, Inputs, DialogPlaces
  <1> QED BY <1>1, NothingIsAsAsked

LEMMA UiLooksAsk ==
  ASSUME UiAsk, UiInv, Askable, cmd.name = "ui", UiQuery \/ UiWait \/ UiBefore \/ ScreenSize \/ KeyCombination \/ UnicodeInput \/ UiPlan
  PROVE  UiAsk' /\ AsAsked
  <1>0. UiFields
    BY DEF UiInv
  <1>1. UNCHANGED <<cmd, facts>> /\ exit = Running
    BY DEF UiQuery, UiWait, UiBefore, ScreenSize, KeyCombination, UnicodeInput, UiPlan, Read,
           Decide, Awaiting
  <1>2. CASE UiQuery \/ UiWait
    <2>1. /\ at \in {"query", "waited"} /\ mem'.next = mem.next
          /\ (\E ps : Finish(ps)) \/ GoTo("ui-lock")
      BY <1>0, <1>2 DEF UiQuery, UiWait, Decide, Awaiting, Keep, UiFields
    <2>2. UiGoesOn
      BY <1>1, <2>1, EndsAndGoes DEF UiAsk, UiGoesOn, Altering, Inputs, FirstPlaces,
         DialogPlaces
    <2> QED BY <2>2, UiGoingOn
  <1>3. ASSUME at \in {"before", "size"} \cup (Inputs \ Altering)
        PROVE  cmd.action \notin {"query", "wait", "inspect", "permission"}
    BY <1>3 DEF UiAsk, UiInv, UiPlaces, FirstPlaces, DialogPlaces, Inputs, Altering
  <1>4. CASE UiBefore
    <2>1. at = "before" /\ mem'.next = mem.next
      BY <1>0, <1>4 DEF UiBefore, Decide, Awaiting, Keep, UiFields
    <2>2. (\E ps : Finish(ps)) \/ GoTo("size") \/ (cmd.action \in {"type", "press"} /\ GoTo("unicode"))
      BY <1>4 DEF UiBefore, Decide
    <2>3. cmd.by = "ref" => cmd.action \in {"tap", "long-press"}
      BY DEF Askable
    <2> QED BY <1>1, <1>3, <2>1, <2>2, <2>3, EndsAndGoes, InputGoesOn DEF Inputs, Altering
  <1>5. CASE ScreenSize
    <2>1. at = "size" /\ mem' = mem
      BY <1>5 DEF ScreenSize, Read, Awaiting
    <2>2. (\E ps : Finish(ps)) \/ (Resolved /\ \E next \in {"combination", "unicode"} : GoTo(next))
      BY <1>5 DEF ScreenSize, Read
    <2>3. cmd.by = "ref" /\ Resolved => cmd.ref = mem.before
      BY DEF Resolved, RefIsFresh
    <2> QED BY <1>1, <1>3, <2>1, <2>2, <2>3, EndsAndGoes, InputGoesOn DEF Inputs, Altering
  <1>6. CASE KeyCombination \/ UnicodeInput
    <2>1. at \in {"combination", "unicode", "ime-list", "ime-current"} /\ mem'.next = mem.next /\ mem'.before = mem.before
      BY <1>0, <1>6 DEF KeyCombination, UnicodeInput, Read, Decide, Awaiting, Keep, UiFields
    <2>2. (\E ps : Finish(ps)) \/ \E next \in {"unicode", "ime-list", "ime-current", "plan"} : GoTo(next)
      BY <1>6 DEF KeyCombination, UnicodeInput, Read, Decide
    <2>3. cmd.by = "ref" => cmd.ref = mem.before
      BY <2>1 DEF UiAsk, Inputs
    <2> QED BY <1>1, <1>3, <2>1, <2>2, <2>3, EndsAndGoes, InputGoesOn DEF Inputs, Altering
  <1>7. CASE UiPlan
    <2>1. at = "plan" /\ mem'.next = mem.next /\ mem'.before = mem.before
      BY <1>0, <1>7 DEF UiPlan, Decide, Awaiting, Keep, UiFields
    <2>2. (\E ps : Finish(ps)) \/ (~cmd.dryRun /\ \E next \in {"ime-set", "send"} : GoTo(next))
      BY <1>7 DEF UiPlan, Decide
    <2>3. cmd.by = "ref" => cmd.ref = mem.before
      BY <2>1 DEF UiAsk, Inputs
    <2> QED BY <1>1, <1>3, <2>1, <2>2, <2>3, EndsAndGoes, InputGoesOn DEF Inputs, Altering
  <1> QED BY <1>2, <1>4, <1>5, <1>6, <1>7

LEMMA SendingAsks ==
  ASSUME UiAsk, UiInv, cmd.name = "ui", ImeSet \/ Send \/ Restore PROVE UiAsk' /\ AsAsked
  <1>0. UiFields
    BY DEF UiInv
  <1>1. cmd' = cmd /\ exit = Running /\ at \in {"ime-set", "send", "restore"} /\ mem'.next = mem.next /\ mem'.before = mem.before
    <2>1. CASE ImeSet \/ Restore
      BY <2>1 DEF ImeSet, Restore, Awaiting
    <2>2. CASE Send
      BY <1>0, <2>2 DEF Send, Awaiting, Keep, UiFields
    <2> QED BY <2>1, <2>2
  <1>2. \/ (\E ps, next : next \in {"restore", "sent"} /\ Note(ps, next))
        \/ at # "restore" /\ \E next \in {"send", "restore", "sent"} : GoTo(next)
    <2>1. CASE ImeSet
      BY <1>1, <2>1 DEF ImeSet, Awaiting
    <2>2. CASE Send
      BY <1>1, <2>2 DEF Send, AfterInput, Awaiting
    <2>3. CASE Restore
      BY <2>3 DEF Restore
    <2> QED BY <2>1, <2>2, <2>3
  <1>3. /\ ~cmd.dryRun /\ (at # "restore" => problems = {}) /\ (cmd.by = "ref" => cmd.ref = mem.before)
        /\ cmd.action \notin {"query", "wait", "inspect"}
    BY <1>1 DEF UiAsk, Inputs, Altering, FirstPlaces
  <1>4. UiAsk'
    <2>1. at' \in {"restore", "sent"} \/ (at' = "send" /\ problems' = {})
      BY <1>1, <1>2, <1>3, EndsAndGoes DEF Note
    <2> QED BY <1>1, <1>3, <2>1 DEF UiAsk, DialogPlaces
  <1>5. AsAsked
    BY <1>1, <1>3 DEF AsAsked, ChangeWasAsked, UiAsked
  <1> QED BY <1>4, <1>5

LEMMA LastLookAsks == ASSUME UiAsk, UiInv, cmd.name = "ui", UiAfter PROVE UiAsk' /\ AsAsked
  <1>0. UiFields
    BY DEF UiInv
  <1>1. UNCHANGED <<cmd, facts>> /\ exit = Running /\ at \in {"sent", "after"}
    BY DEF UiAfter, Decide, Awaiting
  <1>2. \/ (\E ps : Finish(ps)) /\ mem'.next = mem.next
        \/ problems = {} /\ GoTo("ui-lock") /\ mem'.next = "after"
    BY <1>0 DEF UiAfter, Decide, Observe, Keep, UiFields
  <1>3. cmd.action \notin {"query", "wait", "inspect"}
    BY <1>1 DEF UiAsk, FirstPlaces
  <1>4. UiGoesOn
    BY <1>1, <1>2, <1>3, EndsAndGoes DEF UiAsk, UiGoesOn, Altering, Inputs, FirstPlaces,
       DialogPlaces
  <1> QED BY <1>4, UiGoingOn

\* What is done to the keyboard or to a dialog.
LEMMA ChangingAsks ==
  ASSUME UiAsk, Askable, cmd.name = "ui", NEW step \in {"dismiss", "respond"}, Awaiting(step), cmd' = cmd,
         cmd.action = (IF step = "dismiss" THEN "keyboard" ELSE "permission"),
         \/ (\E ps : Finish(ps)) /\ mem'.next = mem.next
         \/ at' \in {"keyboard", "ui-lock"} /\ problems' = problems
            /\ mem'.next = (IF step = "dismiss" THEN "key-after" ELSE "responded")
  PROVE  UiAsk' /\ AsAsked
  <1>1. exit = Running /\ at = step
    BY DEF Awaiting
  <1>2. ~cmd.dryRun /\ problems = {} /\ cmd.by # "ref" /\ cmd.action \notin {"query", "wait", "inspect"}
    BY <1>1 DEF UiAsk, Altering, Askable
  <1>3. AsAsked
    BY <1>2 DEF AsAsked, ChangeWasAsked, UiAsked
  <1>4. UiAsk'
    BY <1>1, <1>2, EndsAndGoes DEF UiAsk, Altering, Inputs, DialogPlaces
  <1> QED BY <1>3, <1>4

LEMMA KeyboardAsks == ASSUME UiAsk, UiInv, Askable, cmd.name = "ui", Keyboard PROVE UiAsk' /\ AsAsked
  <1>0. UiFields
    BY DEF UiInv
  <1>1. cmd' = cmd /\ exit = Running /\ at \in KeyPlaces
    BY DEF Keyboard, KeyboardReads, Change, Decide, Awaiting, KeyPlaces
  <1>2. cmd.action = "keyboard"
    BY <1>1 DEF UiInv, UiPlaces
  <1>3. CASE KeyboardReads
    <2>1. facts' = facts /\ mem'.next = mem.next /\ at = "keyboard"
      <3>1. CASE /\ Awaiting("keyboard") /\ UNCHANGED <<cmd, signal, facts, at, problems, exit>>
                 /\ \E r \in Ends, which \in {"method", "window"} :
                      mem[which] = None /\ Settles(r) /\ Keep([x \in {which} |-> IF r = "ok" THEN Of("keyboard") ELSE r])
        <4>1. PICK r \in Ends, which \in {"method", "window"} : Keep([x \in {which} |-> IF r = "ok" THEN Of("keyboard") ELSE r])
          BY <3>1
        <4> QED BY <1>0, <3>1, <4>1 DEF Keep, UiFields, Awaiting
      <3> QED BY <1>3, <3>1 DEF KeyboardReads, Decide, Awaiting
    <2>2. (at' = at /\ problems' = problems) \/ (\E ps : Finish(ps)) \/ GoTo(mem.next)
      BY <1>3 DEF KeyboardReads, Decide
    <2>3. UiGoesOn
      BY <1>1, <1>2, <2>1, <2>2, EndsAndGoes DEF UiAsk, UiGoesOn, Altering, Inputs, DialogPlaces
    <2> QED BY <2>3, UiGoingOn
  <1>4. CASE \/ Decide("key-before", UNCHANGED mem /\
                  IF ~cmd.supported \/ mem.method # mem.window THEN Finish({"adb"})
                  ELSE IF cmd.query = "status" \/ Agreed("hidden") \/ cmd.dryRun THEN Finish({}) ELSE GoTo("dismiss"))
             \/ Decide("key-after", UNCHANGED mem /\ Finish(IF Agreed("hidden") THEN {} ELSE {"adb"}))
    <2>1. UNCHANGED <<facts, mem>> /\ at \in {"key-before", "key-after"}
      BY <1>4 DEF Decide, Awaiting
    <2>2. (\E ps : Finish(ps)) \/ (~cmd.dryRun /\ GoTo("dismiss"))
      BY <1>4 DEF Decide
    <2>3. UiAsk'
      BY <1>1, <1>2, <2>1, <2>2, EndsAndGoes DEF UiAsk, Altering, Inputs, DialogPlaces
    <2> QED BY <2>1, <2>3, NothingIsAsAsked
  <1>5. CASE \E s \in Screens :
       Change("dismiss", IF Of("keyboard") = "visible" THEN With("keyboard", "hidden") ELSE With("screen", s),
              ReadKeyboard("key-after"))
    <2>1. Awaiting("dismiss") /\ (((\E ps : Finish(ps)) /\ UNCHANGED mem) \/ ReadKeyboard("key-after"))
      BY <1>5 DEF Change
    <2>2. ReadKeyboard("key-after") => at' = "keyboard" /\ problems' = problems /\ mem'.next = "key-after"
      BY <1>0 DEF ReadKeyboard, GoTo, Keep, UiFields
    <2> QED BY <1>1, <1>2, <2>1, <2>2, ChangingAsks
  <1> QED BY <1>3, <1>4, <1>5 DEF Keyboard

LEMMA PermissionAsks == ASSUME UiAsk, UiInv, Askable, cmd.name = "ui", Permission PROVE UiAsk' /\ AsAsked
  <1>0. UiFields
    BY DEF UiInv
  <1>1. cmd' = cmd /\ exit = Running /\ at \in DialogPlaces
    BY DEF Permission, Change, Decide, Awaiting, DialogPlaces
  <1>2. cmd.action = "permission"
    BY <1>1 DEF UiAsk
  <1>3. CASE \/ Decide("dialog",
                  /\ Keep([before |-> mem.seen])
                  /\ IF cmd.query = "inspect" THEN Finish(IF Dialog(mem.seen) = "unsupported" THEN {"adb"} ELSE {})
                     ELSE IF Dialog(mem.seen) \in {"absent", "unsupported"} THEN Finish({"adb"})
                     ELSE IF ~cmd.usable THEN Finish({"input"}) ELSE IF cmd.dryRun THEN Finish({}) ELSE GoTo("respond"))
             \/ Decide("responded", UNCHANGED mem /\
                  Finish(IF mem.seen # mem.before /\ Dialog(mem.seen) # Dialog(mem.before) THEN {} ELSE {"adb"}))
    <2>1. facts' = facts /\ mem'.next = mem.next /\ at \in {"dialog", "responded"}
      BY <1>0, <1>3 DEF Decide, Awaiting, Keep, UiFields
    <2>2. (\E ps : Finish(ps)) \/ (~cmd.dryRun /\ GoTo("respond"))
      BY <1>3 DEF Decide
    <2>3. UiAsk'
      BY <1>1, <1>2, <2>1, <2>2, EndsAndGoes DEF UiAsk, Altering, Inputs, DialogPlaces
    <2> QED BY <2>1, <2>3, NothingIsAsAsked
  <1>4. CASE \E s \in Screens : Change("respond", With("screen", s), Observe("responded"))
    <2>1. Awaiting("respond") /\ (((\E ps : Finish(ps)) /\ UNCHANGED mem) \/ Observe("responded"))
      BY <1>4 DEF Change
    <2>2. Observe("responded") => at' = "ui-lock" /\ problems' = problems /\ mem'.next = "responded"
      BY <1>0 DEF Observe, GoTo, Keep, UiFields
    <2> QED BY <1>1, <1>2, <2>1, <2>2, ChangingAsks
  <1> QED BY <1>3, <1>4 DEF Permission

LEMMA UiAsks == ASSUME UiAsk, UiInv, Askable, Ui PROVE UiAsk' /\ AsAsked
  <1>1. cmd.name = "ui"
    BY DEF Ui
  <1>2. CASE UiMoves
    BY <1>2, NothingIsAsAsked DEF UiMoves, command, UiAsk
  <1>3. UiMoves \/ UiBegins \/ (UiLock \/ UiDump)
        \/ (UiQuery \/ UiWait \/ UiBefore \/ ScreenSize \/ KeyCombination \/ UnicodeInput \/ UiPlan)
        \/ (ImeSet \/ Send \/ Restore) \/ UiAfter \/ Keyboard \/ Permission
    BY DEF Ui, UiBegins
  <1> QED BY <1>1, <1>2, <1>3, UiBeginningAsks, HierarchyAsks, UiLooksAsk, SendingAsks, LastLookAsks, KeyboardAsks, PermissionAsks

-----------------------------------------------------------------------------
(* Nothing but what was asked for of a file, and of the log *)

\* A file of another program goes only when it may be replaced.
LEMMA OthersFileStays ==
  ASSUME Capture PROVE EvidenceAsked
  <1>1. ASSUME NEW next, NEW thrown, Commit(next, thrown) PROVE EvidenceAsked
    BY <1>1 DEF Commit, MoveToName, Decide, EvidenceAsked, Foreign, Temp
  <1>2. CASE ForeignFile
    BY <1>2 DEF ForeignFile, EvidenceAsked
  <1>3. CASE \E step : Discard(step) \/ DiscardFails(step)
    BY <1>3 DEF Discard, DiscardFails, EvidenceAsked, Foreign, Temp
  <1>4. CASE Screenshot
    BY <1>4 DEF Screenshot, Decide, Discard, DiscardFails, EvidenceAsked, Foreign, Temp
  <1>5. CASE ScreenRecord
    <2>1. \/ facts' \in {facts, facts \cup {Remote}}
          \/ facts' \in {facts, facts \cup {Temp}}
          \/ facts' \in {facts, facts \ {Temp}}
          \/ facts' \in {facts, facts \ {Remote}}
      BY <1>5, EffectIsOneOf DEF ScreenRecord, Discard, DiscardFails, Decide
    <2> QED BY <2>1 DEF EvidenceAsked, Foreign, Temp, Remote
  <1>6. CASE \/ Decide("input", UNCHANGED mem /\ IF CaptureRefused THEN Finish({"input"}) ELSE GoTo("adb"))
             \/ ReadyTarget("prepare") \/ Prepare(cmd.action) \/ Decide("kept", Finish({}) /\ UNCHANGED mem)
    <2>1. facts' = facts
      BY <1>6, ReadyTargetBegins DEF Beginning, Prepare, Decide
    <2> QED BY <2>1 DEF EvidenceAsked
  <1> QED BY <1>1, <1>2, <1>3, <1>4, <1>5, <1>6 DEF Capture

LEMMA EvidenceAsks == ASSUME Askable, Evidence PROVE AsAsked
  <1>1. CASE Capture
    <2>1. cmd.name = "capture"
      BY <1>1 DEF Capture
    <2>2. ~cmd.dryRun /\ EvidenceAsked
      BY <1>1, <2>1, OthersFileStays DEF Askable
    <2> QED BY <2>1, <2>2 DEF AsAsked, ChangeWasAsked
  <1>2. CASE BundleBegins \/ BundleWritten
    BY <1>2 DEF BundleBegins, BundleWritten, Askable, AsAsked, ChangeWasAsked
  <1>3. CASE InspectApp \/ InspectFailures \/ FailureSources
    <2>1. ASSUME NEW Then, InspectedApp(Then) PROVE facts' = facts
      BY <2>1, ReadyTargetBegins, RequireAppBegins DEF InspectedApp, Beginning, Decide, Look
    <2>2. facts' = facts
      <3>1. CASE InspectedApp(GoTo("logs")) \/ InspectedApp(GoTo("clock"))
        BY <3>1, ReadyTargetBegins, RequireAppBegins DEF InspectedApp, Beginning, Decide, Look
      <3> QED BY <1>3, <3>1 DEF InspectApp, InspectFailures, FailureSources, Source
    <2> QED BY <2>2, NothingIsAsAsked
  <1> QED BY <1>1, <1>2, <1>3 DEF Evidence

\* The log grows by itself and a reader leaves it as it is.
LEMMA LogsAsk == ASSUME Logs PROVE AsAsked
  <1>1. facts' = facts \/ command' = command
    BY DEF Logs, DeviceLogs, ResolveAdb, MdnsStep, HardwareStep, Inspected, Selector, LogWindow,
           Boundary, Snapshot, Line, StreamEnds, Decide, Read
  <1> QED BY <1>1, NothingIsAsAsked

-----------------------------------------------------------------------------
(* Nothing but what was asked for, whichever command *)

CommandsAsk == Askable /\ TargetsAsk /\ AppsAsk /\ UiAsk

LEMMA CommandsAskInitially == Askable /\ CommandsInit => CommandsAsk
  <1> SUFFICES ASSUME Askable, CommandsInit PROVE CommandsAsk
    OBVIOUS
  <1>1. at \in {"input", "adb"} /\ problems = {}
    BY DEF CommandsInit, TargetInit, LogsInit, AppInit, EvidenceInit, CommandInit
  <1>2. TargetsAsk
    <2>1. CASE cmd.name = "ports"
      <3>1. mem = TargetMemory
        BY <2>1 DEF CommandsInit, TargetInit, LogsInit, AppInit, EvidenceInit, CommandInit
      <3>2. {"mdns", "asked", "target"} \subseteq DOMAIN mem /\ mem.asked = {}
        BY <3>1 DEF TargetMemory
      <3> QED BY <1>1, <2>1, <3>2 DEF TargetsAsk, MayChange
    <2> QED BY <1>1, <2>1 DEF TargetsAsk, MayChange
  <1>3. AppsAsk
    BY <1>1 DEF AppsAsk, AppChanges
  <1>4. UiAsk
    <2>1. CASE cmd.name = "ui"
      <3>1. mem = UiMemory
        BY <2>1 DEF CommandsInit, TargetInit, LogsInit, AppInit, EvidenceInit, CommandInit
      <3>2. mem.next = "none"
        BY <3>1 DEF UiMemory, AppMemory, TargetMemory, Amended
      <3> QED BY <1>1, <2>1, <3>2 DEF UiAsk, Altering, Inputs, FirstPlaces, DialogPlaces
    <2> QED BY <2>1 DEF UiAsk
  <1> QED BY <1>2, <1>3, <1>4 DEF CommandsAsk

LEMMA CommandsAskSteps ==
  ASSUME CommandsAsk, CutInv, Known, [TargetNext \/ Logs \/ App \/ Open \/ Ui \/ Evidence \/ Signal]_vars
  PROVE  CommandsAsk' /\ AsAsked
  <1>0. Askable /\ TargetsAsk /\ AppsAsk /\ UiAsk /\ AppInv /\ UiInv
    BY DEF CommandsAsk, Known
  <1>1. CASE App \/ Open
    <2>1. cmd' = cmd /\ cmd.name \in {"app", "open"}
      BY <1>1, AppsKeepTheCommand
    <2>2. AppsAsk' /\ AsAsked
      BY <1>0, <1>1, AppAsks, OpenAsks DEF App
    <2>3. Askable' /\ TargetsAsk' /\ UiAsk'
      BY <1>0, <2>1 DEF Askable, TargetsAsk, UiAsk
    <2> QED BY <2>2, <2>3 DEF CommandsAsk
  <1>2. CASE TargetNext \/ Logs
    <2>1. cmd' = cmd
      BY <1>2, TargetsAreCareful, LogsAreCareful DEF Careful
    <2>2. cmd.name \notin {"app", "open", "ui"} /\ (cmd.name \in {"ports", "connect", "pair"} => TargetNext)
      BY <1>2 DEF TargetNext, Doctor, Devices, Ports, Discover, Connect, Pair, Logs, TargetNames
    <2>3. AsAsked /\ TargetsAsk'
      BY <1>0, <1>2, <2>1, <2>2, TargetsAskSteps, LogsAsk DEF TargetsAsk
    <2>4. Askable' /\ AppsAsk' /\ UiAsk'
      BY <1>0, <2>1, <2>2 DEF Askable, AppsAsk, UiAsk
    <2> QED BY <2>3, <2>4 DEF CommandsAsk
  <1>3. CASE Ui
    <2>1. cmd' = cmd /\ cmd.name = "ui"
      BY <1>3, UiIsCareful DEF Ui
    <2>2. UiAsk' /\ AsAsked
      BY <1>0, <1>3, UiAsks
    <2>3. Askable' /\ TargetsAsk' /\ AppsAsk'
      BY <1>0, <2>1 DEF Askable, TargetsAsk, AppsAsk
    <2> QED BY <2>2, <2>3 DEF CommandsAsk
  <1>4. CASE Evidence
    <2>1. cmd' = cmd
      BY <1>4, CaptureIsCareful, InspectionsAreCareful, BundleIsCareful DEF Evidence, Careful
    <2>2. cmd.name \notin {"ports", "connect", "pair", "app", "open", "ui"}
      BY <1>4 DEF Evidence, Capture, InspectApp, InspectFailures, FailureSources, BundleBegins,
         BundleWritten
    <2>3. Askable' /\ TargetsAsk' /\ AppsAsk' /\ UiAsk'
      BY <1>0, <2>1, <2>2 DEF Askable, TargetsAsk, AppsAsk, UiAsk
    <2> QED BY <1>0, <1>4, <2>3, EvidenceAsks DEF CommandsAsk
  <1>5. CASE Signal \/ UNCHANGED vars
    <2>1. UNCHANGED <<cmd, at, mem, problems, exit, facts>> /\ command' = command
      BY <1>5 DEF Signal, vars, command
    <2>2. Askable' /\ TargetsAsk' /\ AppsAsk' /\ UiAsk'
      BY <1>0, <2>1 DEF Askable, TargetsAsk, AppsAsk, UiAsk, Usable
    <2> QED BY <2>1, <2>2, NothingIsAsAsked DEF CommandsAsk
  <1> QED BY <1>1, <1>2, <1>3, <1>4, <1>5

\* OnlyWhatWasAsked (commands.ts, app-commands.ts, src/evidence): whatever the options, the
\* inventory, the device, the failures and the moment of an interruption, a command changes
\* something only if it is no dry run and no problem came before, on the target that was
\* asked for (ChoiceIsSafe, with its exceptions), of the one application, on the screen of
\* its reference, and another's file only by force; an application's data only when that
\* was approved.
THEOREM CommandsDoWhatWasAsked == Askable /\ CommandsSpec => OnlyWhatWasAsked
  <1>1. CommandsInit => RemovalPlaces
    BY DEF CommandsInit, TargetInit, LogsInit, AppInit, EvidenceInit, CommandInit, RemovalPlaces
  <1> DEFINE All == CutInv /\ RemovalPlaces /\ Known /\ CommandsAsk
  <1>2. Askable /\ CommandsInit => All
    BY <1>1, CutInitially, KnownInitially, CommandsAskInitially
  <1>3. All /\ [TargetNext \/ Logs \/ App \/ Open \/ Ui \/ Evidence \/ Signal]_vars
        => All' /\ [Lasting(facts') # Lasting(facts) /\ command' # command => ChangeWasAsked]_vars
    BY CutSteps, KnownSteps, CommandsAskSteps DEF AsAsked
  <1> QED BY <1>2, <1>3, PTL DEF CommandsSpec, OnlyWhatWasAsked

-----------------------------------------------------------------------------
(* Nothing but what was asked for of a configuration and of a test *)

InitWriting == {"write", "set-aside", "install", "read-back", "remove-backup", "undo"}
InitAsk ==
  cmd.name = "init" => "exists" \in DOMAIN mem /\ (at \in InitWriting => ~cmd.dryRun /\ (cmd.force \/ ~mem.exists))

LEMMA InitAsks == ASSUME InitAsk, InitInv, InitConfig PROVE InitAsk' /\ AsAsked
  <1>1. cmd.name = "init" /\ cmd' = cmd /\ "exists" \in DOMAIN mem
    BY DEF InitConfig, ForeignFile, InitLooks, InitWrites, InitUndone, Decide, FileCall, InitAsk
  <1>2. CASE ForeignFile
    BY <1>2, NothingIsAsAsked DEF ForeignFile, command, InitAsk
  <1>3. CASE InitLooks
    <2>1. facts' = facts
      BY <1>3 DEF InitLooks, Decide
    <2>2. CASE Decide("input", UNCHANGED mem /\ IF cmd.validOptions THEN GoTo("stat") ELSE Finish({"input"}))
      BY <1>1, <2>1, <2>2, EndsAndGoes, NothingIsAsAsked DEF Decide, InitAsk, InitWriting
    <2>3. ASSUME NEW seen, Keep([exists |-> seen]),
                 IF seen /\ ~cmd.force THEN Finish({"input"}) ELSE IF cmd.dryRun THEN Finish({}) ELSE GoTo("write")
          PROVE  InitAsk'
      <3>1. "exists" \in DOMAIN mem' /\ mem'.exists = seen
        BY <1>1, <2>3 DEF Keep
      <3>2. (\E ps : Finish(ps)) \/ (~(seen /\ ~cmd.force) /\ ~cmd.dryRun)
        BY <2>3
      <3>3. CASE \E ps : Finish(ps)
        BY <1>1, <3>1, <3>3, EndsAndGoes DEF InitAsk, InitWriting
      <3>4. CASE ~(seen /\ ~cmd.force) /\ ~cmd.dryRun
        BY <1>1, <3>1, <3>4 DEF InitAsk
      <3> QED BY <3>2, <3>3, <3>4
    <2> QED BY <1>3, <2>1, <2>2, <2>3, NothingIsAsAsked DEF InitLooks, Decide
  <1>4. ASSUME NEW step \in InitWriting, at = step, at' \in InitWriting \cup {"written", "ended"}, mem' = mem, InitAsked PROVE InitAsk' /\ AsAsked
    <2>1. ~cmd.dryRun /\ (cmd.force \/ ~mem.exists)
      BY <1>1, <1>4 DEF InitAsk
    <2> QED BY <1>1, <1>4, <2>1 DEF InitAsk, AsAsked, ChangeWasAsked
  <1>5. at \in InitWriting => cmd.force \/ ~mem.exists
    BY <1>1 DEF InitAsk
  <1>6. CASE InitWrites
    <2>1. CASE FileCall("write", facts \cup {Temp}, IF mem.exists THEN "set-aside" ELSE "install")
      <3>1. InitAsked /\ mem' = mem /\ at = "write" /\ at' \in {"set-aside", "install", "undo"}
        BY <2>1 DEF FileCall, Awaiting, GoTo, InitAsked
      <3> QED BY <1>4, <3>1 DEF InitWriting
    <2>2. CASE FileCall("set-aside", (facts \ {Foreign}) \cup {Backup}, "install")
      <3>1. InitAsked /\ mem' = mem /\ at = "set-aside" /\ at' \in {"install", "undo"}
        BY <2>2 DEF FileCall, Awaiting, GoTo, InitAsked
      <3> QED BY <1>4, <3>1 DEF InitWriting
    <2>3. CASE FileCall("install", (facts \ {Temp, Foreign}) \cup {Ours}, "read-back")
      <3>1. mem' = mem /\ at = "install" /\ at' \in {"read-back", "undo"}
        BY <2>3 DEF FileCall, Awaiting, GoTo
      <3>2. facts' = facts \/ Ours \in facts'
        BY <2>3 DEF FileCall
      <3>3. InitAsked
        BY <1>5, <3>1, <3>2 DEF InitAsked, InitWriting
      <3> QED BY <1>4, <3>1, <3>3 DEF InitWriting
    <2>4. CASE FileCall("read-back", facts, "remove-backup")
      <3>1. InitAsked /\ mem' = mem /\ at = "read-back" /\ at' \in {"remove-backup", "undo"}
        BY <2>4 DEF FileCall, Awaiting, GoTo, InitAsked
      <3> QED BY <1>4, <3>1 DEF InitWriting
    <2>5. CASE FileCall("remove-backup", facts \ {Backup}, "written")
      <3>1. mem' = mem /\ at = "remove-backup" /\ at' \in {"written", "undo"} /\ exit = Running
        BY <2>5 DEF FileCall, Awaiting, GoTo
      <3>2. Ours \in facts
        BY <1>1, <3>1 DEF InitInv
      <3>3. Ours \in facts'
        BY <2>5, <3>2 DEF FileCall, Ours, Backup
      <3>4. InitAsked
        BY <1>5, <3>1, <3>3 DEF InitAsked, InitWriting
      <3> QED BY <1>4, <3>1, <3>4 DEF InitWriting
    <2>6. CASE Decide("written", Finish({}) /\ UNCHANGED mem)
      <3>1. facts' = facts /\ mem' = mem /\ at' = "ended"
        BY <2>6, EndsAndGoes DEF Decide
      <3> QED BY <1>1, <3>1, NothingIsAsAsked DEF InitAsk, InitWriting
    <2> QED BY <1>6, <2>1, <2>2, <2>3, <2>4, <2>5, <2>6 DEF InitWrites
  <1>7. CASE InitUndone
    <2>1. mem' = mem /\ at = "undo" /\ at' = "ended"
      BY <1>7, EndsAndGoes DEF InitUndone, Awaiting
    <2>2. {Foreign, Backup} \cap facts # {} => {Foreign, Backup} \cap facts' # {}
      BY <1>7 DEF InitUndone, Foreign, Backup, Ours, Temp
    <2>3. InitAsked
      BY <2>2 DEF InitAsked
    <2> QED BY <1>4, <2>1, <2>3 DEF InitWriting
  <1> QED BY <1>2, <1>3, <1>6, <1>7 DEF InitConfig

\* Where a test stands on what it may do.
TestRuns == {"token", "post", "run", "observe", "preflight", "execute", "collect", "undo"} \cup Retaining
TestAsk ==
  cmd.name = "test" =>
    /\ exit = Running => problems = {}
    /\ at \in TestRuns => ~cmd.dryRun
    /\ cmd.kind = "firebase" /\ at \in {"models", "versions"} => cmd.action = "devices" \/ cmd.artifacts
    /\ cmd.kind = "firebase" /\ at = "run" => cmd.artifacts

LEMMA TestRunAsks ==
  ASSUME TestAsk, cmd.name = "test", cmd' = cmd, exit = Running, exit' = Running => problems' = problems,
         at \in TestRuns, at' \notin {"models", "versions", "run"}, TestAsked
  PROVE  TestAsk' /\ AsAsked
  <1>1. ~cmd.dryRun /\ problems = {}
    BY DEF TestAsk
  <1>2. TestAsk'
    BY <1>1 DEF TestAsk
  <1>3. AsAsked
    BY <1>1 DEF AsAsked, ChangeWasAsked
  <1> QED BY <1>2, <1>3

LEMMA TestLookAsks ==
  ASSUME TestAsk, cmd.name = "test", UNCHANGED <<cmd, facts>>, exit = Running, exit' = Running => problems' = problems,
         at' \in TestRuns => ~cmd.dryRun,
         cmd.kind = "firebase" /\ at' \in {"models", "versions"} => cmd.action = "devices" \/ cmd.artifacts,
         cmd.kind = "firebase" /\ at' = "run" => cmd.artifacts
  PROVE  TestAsk' /\ AsAsked
  <1>1. TestAsk'
    BY DEF TestAsk
  <1> QED BY <1>1, NothingIsAsAsked

\* What is kept of a run is no matrix.
LEMMA MatrixStays == ASSUME \A f \in (facts \ facts') \cup (facts' \ facts) : f[1] # "matrix" PROVE TestAsked
  BY DEF TestAsked

LEMMA RetentionAsks == ASSUME TestAsk, cmd.name = "test", RetainEvidence \/ RetainUndone PROVE TestAsk' /\ AsAsked
  <1>0. cmd' = cmd /\ exit = Running /\ Temp[1] # "matrix" /\ Ours[1] # "matrix"
    BY DEF RetainEvidence, RetainUndone, FileCall, Decide, Awaiting, Temp, Ours
  <1>1. at \in TestRuns
    BY DEF RetainEvidence, RetainUndone, FileCall, Decide, Awaiting, TestRuns, Retaining
  <1>2. (exit' = Running => problems' = problems) /\ at' \in TestRuns \cup {"ended"}
    BY EndsAndGoes DEF RetainEvidence, RetainUndone, FileCall, Decide, Running, TestRuns,
       Retaining
  <1>3. \A f \in (facts \ facts') \cup (facts' \ facts) : f[1] # "matrix"
    BY <1>0 DEF RetainEvidence, RetainUndone, FileCall, Decide
  <1>4. at' \notin {"models", "versions", "run"}
    BY EndsAndGoes DEF RetainEvidence, RetainUndone, FileCall, Decide
  <1> QED BY <1>0, <1>1, <1>2, <1>3, <1>4, MatrixStays, TestRunAsks

LEMMA CollectionAsks == ASSUME TestAsk, cmd.name = "test", CollectProviderEvidence PROVE TestAsk' /\ AsAsked
  <1>1. cmd' = cmd /\ exit = Running /\ at \in {"list", "provider", "copy", "chmod", "manifest"}
    BY DEF CollectProviderEvidence, FileCall, Decide, Awaiting
  <1>2. problems' = problems /\ at' \in {"provider", "texts", "copy", "chmod", "manifest", "undo"}
    BY DEF CollectProviderEvidence, FileCall, Decide, GoTo
  <1>3. facts' \in {facts, facts \cup {<<"provider", Head(mem.left)>>}}
    <2>1. CASE /\ Awaiting("copy") /\ mem.left # <<>> /\ UNCHANGED <<cmd, signal>>
               /\ \E r \in Ends :
                    /\ SettlesAlone(r) /\ Effect(r, facts \cup {<<"provider", Head(mem.left)>>})
                    /\ IF Arrived(r, Head(mem.left)) THEN GoTo("chmod") /\ UNCHANGED mem
                       ELSE GoTo("texts") /\ Keep([collection |-> "unavailable"])
      BY <2>1, EffectIsOneOf
    <2> QED BY <2>1 DEF CollectProviderEvidence, FileCall, Decide
  <1>4. TestAsked
    BY <1>3, MatrixStays
  <1> QED BY <1>1, <1>2, <1>4, TestRunAsks DEF TestRuns, Retaining

LEMMA FirebaseAsks == ASSUME TestAsk, TestInv, Firebase PROVE TestAsk' /\ AsAsked
  <1>0. cmd.name = "test" /\ cmd.kind = "firebase"
    BY DEF Firebase
  <1>1. CASE MatrixEnds
    BY <1>1, NothingIsAsAsked DEF MatrixEnds, command, TestAsk
  <1>2. CASE FirebaseInput
    <2>1. UNCHANGED <<cmd, facts>> /\ exit = Running
      BY <1>2 DEF FirebaseInput, Decide, Awaiting
    <2>2. \/ \E ps : Finish(ps)
          \/ ~cmd.dryRun /\ GoTo("token")
          \/ (cmd.action = "devices" \/ cmd.artifacts) /\ GoTo("models")
      BY <1>2 DEF FirebaseInput, CancelInput, RunInput, Decide
    <2> QED BY <1>0, <2>1, <2>2, EndsAndGoes, TestLookAsks DEF TestRuns, Retaining
  <1>3. CASE ReadCatalog
    <2>1. UNCHANGED <<cmd, facts>> /\ exit = Running /\ at \in {"models", "versions"}
      BY <1>3 DEF ReadCatalog, Ask, Awaiting
    <2>2. \/ \E ps : Finish(ps)
          \/ GoTo("versions")
          \/ ~cmd.dryRun /\ cmd.action # "devices" /\ GoTo("run")
      BY <1>3 DEF ReadCatalog, Ask
    <2>3. cmd.action = "devices" \/ cmd.artifacts
      BY <1>0, <2>1 DEF TestAsk
    <2> QED BY <1>0, <2>1, <2>2, <2>3, EndsAndGoes, TestLookAsks DEF TestRuns, Retaining
  <1>4. CASE CancelMatrix
    <2>1. CASE Ask("token", {"environment"}, GoTo("post"))
      <3>1. UNCHANGED <<cmd, facts>> /\ exit = Running /\ at = "token"
        BY <2>1 DEF Ask, Awaiting
      <3>2. (\E ps : Finish(ps)) \/ GoTo("post")
        BY <2>1 DEF Ask
      <3>3. ~cmd.dryRun
        BY <1>0, <3>1 DEF TestAsk, TestRuns
      <3> QED BY <1>0, <3>1, <3>2, <3>3, EndsAndGoes, TestLookAsks
    <2>2. CASE ~Ask("token", {"environment"}, GoTo("post"))
      <3>1. at = "post" /\ exit = Running /\ cmd' = cmd /\ (\E ps : Finish(ps))
            /\ \E r : HonestEffect(r, IF <<"matrix", "running">> \in facts THEN {<<"matrix", "cancelled">>} ELSE facts)
        BY <1>4, <2>2 DEF CancelMatrix, Awaiting
      <3>2. facts' \in {facts, IF <<"matrix", "running">> \in facts THEN {<<"matrix", "cancelled">>} ELSE facts}
        BY <3>1, EffectIsOneOf
      <3>3. <<"matrix", "running">> \notin facts' \ facts
        BY <3>2
      <3>4. cmd.action = "cancel"
        BY <1>0, <3>1 DEF TestInv, PlaceFits
      <3>5. TestAsked
        BY <3>3, <3>4 DEF TestAsked
      <3> QED BY <1>0, <3>1, <3>5, EndsAndGoes, TestRunAsks DEF TestRuns
    <2> QED BY <2>1, <2>2
  <1>5. CASE ObserveMatrix
    <2>1. cmd' = cmd /\ exit = Running /\ at \in {"run", "observe"} /\ problems' = problems /\ at' \in {"observe", "temp"}
      BY <1>5 DEF ObserveMatrix, Awaiting, GoTo
    <2>2. facts' = facts \/ (at = "run" /\ facts' = facts \cup {<<"matrix", "running">>})
      BY <1>5 DEF ObserveMatrix, Awaiting
    <2>3. at = "run" => Permitted /\ cmd.artifacts
      BY <1>0, <2>1 DEF TestInv, PlaceFits, TestAsk
    <2>4. TestAsked
      BY <2>2, <2>3 DEF TestAsked
    <2> QED BY <1>0, <2>1, <2>4, TestRunAsks DEF TestRuns
  <1> QED BY <1>0, <1>1, <1>2, <1>3, <1>4, <1>5, CollectionAsks, RetentionAsks DEF Firebase

LEMMA GradleAsks == ASSUME TestAsk, Gradle PROVE TestAsk' /\ AsAsked
  <1>0. cmd.name = "test" /\ cmd.kind = "gradle"
    BY DEF Gradle
  <1>1. CASE GradleReports
    BY <1>1, NothingIsAsAsked DEF GradleReports, command, TestAsk
  <1>2. CASE GradleInput \/ GradleAsked
    <2>1. UNCHANGED <<cmd, facts>> /\ exit = Running /\ (at = "preflight" => ~cmd.dryRun)
      BY <1>0, <1>2 DEF GradleInput, GradleAsked, Read, Decide, Awaiting, TestAsk, TestRuns
    <2>2. \/ \E ps : Finish(ps)
          \/ GoTo("discover") \/ (~cmd.dryRun /\ GoTo("preflight"))
          \/ at = "preflight" /\ GoTo("execute")
      BY <1>2 DEF GradleInput, GradleAsked, Read, Decide, Awaiting
    <2> QED BY <1>0, <2>1, <2>2, EndsAndGoes, TestLookAsks DEF TestRuns, Retaining
  <1>3. CASE GradleExecuted \/ GradleCollected
    <2>1. UNCHANGED <<cmd, facts>> /\ exit = Running /\ at \in {"execute", "collect"}
      BY <1>3 DEF GradleExecuted, GradleCollected, Decide, Awaiting
    <2>2. problems' = problems /\ at' \in {"collect", "temp"}
      BY <1>3 DEF GradleExecuted, GradleCollected, Decide, GoTo
    <2>3. ~cmd.dryRun
      BY <1>0, <2>1 DEF TestAsk, TestRuns
    <2> QED BY <1>0, <2>1, <2>2, <2>3, TestLookAsks
  <1> QED BY <1>0, <1>1, <1>2, <1>3, RetentionAsks DEF Gradle

LEMMA ConfigAsks == ASSUME Config PROVE cmd.name = "config" /\ UNCHANGED <<cmd, facts>>
  <1>1. Resolve => UNCHANGED <<cmd, facts>>
    BY DEF Resolve, Decide
  <1>2. ReadDocument("user", cmd.user, FALSE, "project") => UNCHANGED <<cmd, facts>>
    BY DEF ReadDocument, Decide
  <1>3. ReadProject => UNCHANGED <<cmd, facts>>
    BY DEF ReadProject, ReadDocument, Decide
  <1>4. Decide("defaults", GoTo("user") /\ Keep(Apply([timeoutMs |-> 5000], "default"))) => UNCHANGED <<cmd, facts>>
    BY DEF Decide
  <1> QED BY <1>1, <1>2, <1>3, <1>4, Zenon DEF Config

LEMMA ResultsAskSteps ==
  ASSUME InitAsk, TestAsk, ResultsInv, [Config \/ InitConfig \/ Firebase \/ Gradle \/ Signal]_vars
  PROVE  InitAsk' /\ TestAsk' /\ AsAsked
  <1>0. InitInv /\ TestInv
    BY DEF ResultsInv
  <1>1. CASE Config
    BY <1>1, ConfigAsks, NothingIsAsAsked DEF InitAsk, TestAsk
  <1>2. CASE InitConfig
    <2>1. cmd.name = "init" /\ cmd' = cmd
      BY <1>2 DEF InitConfig, ForeignFile, InitLooks, InitWrites, InitUndone, Decide, FileCall
    <2> QED BY <1>0, <1>2, <2>1, InitAsks DEF TestAsk
  <1>3. CASE Firebase \/ Gradle
    <2>1. cmd.name = "test"
      BY <1>3 DEF Firebase, Gradle
    <2>2. cmd' = cmd
      <3>1. CASE Firebase
        BY <3>1 DEF Firebase, FirebaseInput, CancelMatrix, ReadCatalog, MatrixEnds,
           ObserveMatrix, CollectProviderEvidence, RetainEvidence, RetainUndone, Decide,
           FileCall, Ask
      <3>2. CASE Gradle
        BY <3>2 DEF Gradle, GradleInput, GradleAsked, GradleReports, GradleExecuted,
           GradleCollected, RetainEvidence, RetainUndone, Decide, FileCall, Read
      <3> QED BY <1>3, <3>1, <3>2
    <2>3. TestAsk' /\ AsAsked
      BY <1>0, <1>3, FirebaseAsks, GradleAsks
    <2> QED BY <2>1, <2>2, <2>3 DEF InitAsk
  <1>4. CASE Signal \/ UNCHANGED vars
    <2>1. UNCHANGED <<cmd, at, mem, problems, exit, facts>>
      BY <1>4 DEF Signal, vars, command
    <2> QED BY <2>1, NothingIsAsAsked DEF InitAsk, TestAsk
  <1> QED BY <1>1, <1>2, <1>3, <1>4

\* OnlyWhatWasAsked (config-commands.ts, firebase-test-lab.ts, gradle-managed-devices.ts):
\* another's configuration is given up only by force and for one that is in place, no matrix
\* is submitted that the policy does not permit, and only the action cancel ends one.
THEOREM ResultsDoWhatWasAsked == ResultsSpec => OnlyWhatWasAsked
  <1>1. ResultsInit => InitAsk /\ TestAsk
    <2> SUFFICES ASSUME ResultsInit PROVE InitAsk /\ TestAsk
      OBVIOUS
    <2>1. cmd.name = "init" => at = "input" /\ mem = ConfigMemory
      BY DEF ResultsInit, ConfigInit, InitConfigInit, TestInit, CommandInit
    <2>2. "exists" \in DOMAIN ConfigMemory
      BY DEF ConfigMemory, Amended
    <2>3. cmd.name = "test" => at = "input" /\ problems = {}
      BY DEF ResultsInit, ConfigInit, InitConfigInit, TestInit, CommandInit
    <2> QED BY <2>1, <2>2, <2>3 DEF InitAsk, InitWriting, TestAsk, TestRuns, Retaining
  <1>2. /\ ResultsInv /\ InitAsk /\ TestAsk
        /\ [Config \/ InitConfig \/ Firebase \/ Gradle \/ Signal]_vars
        => /\ (ResultsInv /\ InitAsk /\ TestAsk)'
           /\ [Lasting(facts') # Lasting(facts) /\ command' # command => ChangeWasAsked]_vars
    BY ResultsSteps, ResultsAskSteps DEF AsAsked
  <1> QED BY <1>1, <1>2, ResultsInitially, PTL DEF ResultsSpec, OnlyWhatWasAsked
=============================================================================
