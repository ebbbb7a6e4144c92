------------------------------ MODULE UiCommands ------------------------------
(***************************************************************************)
(* The UI commands of src/evidence: the hierarchy of the screen is read    *)
(* under a lease of the target's UI automation, a node is looked up in it, *)
(* input is sent to where the node was, and a second hierarchy tells what  *)
(* came of it.  The screen and the keyboard change by themselves meanwhile.*)
(*                                                                         *)
(* facts has <<"screen", s>>, <<"text", t>> of the one editable field,     *)
(* <<"keyboard", v>>, <<"ime", i>> for the input method selected ("own" or *)
(* ADBKeyBoard, "adb"), and <<"ui-lock", who>>.                            *)
(***************************************************************************)
EXTENDS AppCommands

Screens == {"s1", "s2"}

\* An input method that is not remembered is none.
ASSUME NoneAssumption == None # "own"

UiMemory ==
  Amended(AppMemory, [seen |-> None, previous |-> None, before |-> None, next |-> "none", snaps |-> 0, todo |-> <<>>,
                      ime |-> None, verified |-> FALSE, method |-> None, window |-> None])

Of(kind) == (CHOOSE f \in facts : f[1] = kind)[2]
With(kind, value) == {f \in facts : f[1] # kind} \cup {<<kind, value>>}

\* The device's own doing, and another process that reads the same screen.
UiMoves ==
  /\ exit = Running /\ UNCHANGED <<cmd, command, signal>>
  /\ \/ \E s \in Screens \ {Of("screen")} : facts' = With("screen", s)
     \/ cmd.action = "keyboard" /\ \E v \in {"visible", "hidden"} \ {Of("keyboard")} : facts' = With("keyboard", v)
     \/ <<"ui-lock", "mine">> \notin facts
        /\ facts' = IF <<"ui-lock", "other">> \in facts THEN facts \ {<<"ui-lock", "other">>}
                                                         ELSE facts \cup {<<"ui-lock", "other">>}

Note(ps, step) == problems' = problems \cup ps /\ at' = step /\ UNCHANGED exit

-----------------------------------------------------------------------------
(* The hierarchy *)

\* An empty field shows its hint in the place of a text.
ShownText(text) == IF text = "" /\ cmd.hint # None THEN cmd.hint ELSE text
Digest == [screen |-> Of("screen"), text |-> ShownText(Of("text"))]

Observe(next) == GoTo("ui-lock") /\ Keep([next |-> next, snaps |-> 0, previous |-> None])

\* captureUiHierarchy: the lease is tried until the budget is used up.
UiLock ==
  /\ Awaiting("ui-lock") /\ UNCHANGED <<cmd, signal, mem>> /\ cut' = (cut \/ signal)
  /\ IF signal THEN Finish({"adb"}) /\ UNCHANGED facts
     ELSE IF <<"ui-lock", "other">> \in facts THEN Finish({"adb"}) /\ UNCHANGED facts
     ELSE \/ GoTo("ui-dump") /\ facts' = facts \cup {<<"ui-lock", "mine">>}
          \/ "fail" \in Faults /\ Finish({"environment"}) /\ UNCHANGED facts

\* The dump, after which the lease is released, and what acquireUiSnapshot makes of
\* it: the strict profile wants two in a row that agree, out of three.
UiDump ==
  /\ Awaiting("ui-dump") /\ UNCHANGED <<cmd, signal>>
  /\ facts' = facts \ {<<"ui-lock", "mine">>}
  /\ \E r \in Ends, readable \in BOOLEAN : Settles(r) /\
       IF r # "ok" \/ ~readable THEN Finish({"adb"}) /\ UNCHANGED mem
       ELSE IF ~cmd.strict \/ mem.previous = Digest THEN GoTo(mem.next) /\ Keep([seen |-> Digest])
       ELSE IF mem.snaps < 2 THEN GoTo("ui-lock") /\ Keep([previous |-> Digest, snaps |-> mem.snaps + 1])
       ELSE Finish({"adb"}) /\ UNCHANGED mem

-----------------------------------------------------------------------------
(* Looking a node up *)

\* selectUniqueNode, and whether input can be sent to the node that is found.
Matches == cmd.matches[mem.seen.screen]
FoundOne == IF cmd.occurrence = None THEN Matches = 1 ELSE Matches >= cmd.occurrence

\* resolveRef: the reference carries the digest of the hierarchy it was taken from.
RefIsFresh == cmd.ref = mem.before

Resolved ==
  CASE cmd.by = "ref" -> RefIsFresh /\ cmd.usable
    [] cmd.by = "selector" -> FoundOne /\ cmd.usable
    [] OTHER -> cmd.usable

UiQuery ==
  Decide("query", UNCHANGED mem /\ Finish(
    CASE cmd.query = "get" -> IF FoundOne THEN {} ELSE {"input"}
      [] cmd.query = "visible" -> IF Matches > 0 THEN {} ELSE {"adb"}
      [] cmd.query = "gone" -> IF Matches = 0 THEN {} ELSE {"adb"}
      [] OTHER -> {}))

MaxPolls == 2   \* bound: a wait looks no more often than this before its time is up

UiWait ==
  Decide("waited",
    IF (Matches > 0) = (cmd.query = "visible") THEN Finish({}) /\ UNCHANGED mem
    ELSE \/ Finish({"adb"}) /\ UNCHANGED mem
         \/ /\ ~signal /\ mem.tries < MaxPolls /\ GoTo("ui-lock")
            /\ Keep([tries |-> mem.tries + 1, snaps |-> 0, previous |-> None]))

-----------------------------------------------------------------------------
(* Input *)

\* The calls an action consists of.
Calls ==
  LET typed == [i \in 1 .. cmd.chunks |-> "type"]
      submit == IF cmd.submit THEN <<"submit">> ELSE <<>>
  IN  CASE cmd.action = "fill" -> <<"tap", "select", "clear">> \o typed \o submit
        [] cmd.action = "clear" -> <<"tap", "select", "clear">>
        [] cmd.action = "type" -> typed \o submit
        [] OTHER -> <<"tap">>

\* textInputContract
TextRefused == cmd.action \in {"fill", "type"} /\ ~cmd.validText

UiBefore ==
  Decide("before",
    /\ Keep([before |-> mem.seen])
    /\ IF TextRefused \/ (cmd.action \in {"fill", "clear"} /\ ~FoundOne) THEN Finish({"input"})
       ELSE GoTo(IF cmd.action \in {"type", "press"} THEN "unicode" ELSE "size"))

\* The size of the display, within which the point must lie.
ScreenSize ==
  Read("size", "adb", UNCHANGED mem /\
    IF ~Resolved THEN Finish({"input"})
    ELSE GoTo(IF cmd.action \in {"fill", "clear"} /\ ~cmd.dryRun THEN "combination" ELSE "unicode"))

KeyCombination ==
  Read("combination", "adb", UNCHANGED mem /\ IF cmd.combination THEN GoTo("unicode") ELSE Finish({"adb"}))

\* unicodeInputCapability: which input method is to be put back is known beforehand.
UnicodeInput ==
  \/ Decide("unicode", UNCHANGED mem /\ GoTo(IF cmd.action \in {"fill", "type"} /\ cmd.unicode THEN "ime-list" ELSE "plan"))
  \/ Read("ime-list", "adb", UNCHANGED mem /\ IF cmd.imeEnabled THEN GoTo("ime-current") ELSE Finish({"adb"}))
  \/ /\ Awaiting("ime-current") /\ UNCHANGED <<cmd, signal, facts>>
     /\ \E r \in Ends, known \in BOOLEAN : Settles(r) /\
          IF r = "ok" /\ known THEN GoTo("plan") /\ Keep([ime |-> Of("ime")]) ELSE Finish({"adb"}) /\ UNCHANGED mem

UiPlan ==
  Decide("plan", IF cmd.dryRun THEN Finish({}) /\ UNCHANGED mem
                 ELSE GoTo(IF mem.ime = "own" THEN "ime-set" ELSE "send") /\ Keep([todo |-> Calls]))

\* Mutant: the input method that was selected for the text stays.
NoRestore == "sent"

\* The finally of runUiAction.
AfterInput == IF mem.ime = "own" THEN "restore" ELSE "sent"

ImeSet ==
  /\ Awaiting("ime-set") /\ UNCHANGED <<cmd, signal, mem>>
  /\ \E r \in Ends : /\ Settles(r) /\ HonestEffect(r, With("ime", "adb"))
                     /\ IF r = "ok" THEN GoTo("send") ELSE Note({ProblemOf(r, "adb")}, "restore")

\* What a call may do to the device: text goes to the field as it is.
Sent(call) ==
  CASE call = "clear" -> {With("text", "")}
    [] call = "type" -> {With("text", CASE Of("text") = "" -> IF cmd.chunks = 1 THEN "new" ELSE "part"
                                        [] Of("text") = "part" -> "new" [] OTHER -> "mixed")}
    [] call = "select" -> {facts}
    [] OTHER -> {With("screen", s) : s \in Screens}

\* A call that follows a delay is not sent when the delay is interrupted.
Send ==
  /\ Awaiting("send") /\ UNCHANGED <<cmd, signal>>
  /\ \/ \E r \in Ends, new \in Sent(Head(mem.todo)) :
          /\ Settles(r) /\ Effect(r, new)
          /\ IF r # "ok" THEN Note({ProblemOf(r, "adb")}, AfterInput) /\ UNCHANGED mem
             ELSE GoTo(IF Len(mem.todo) = 1 THEN AfterInput ELSE "send") /\ Keep([todo |-> Tail(mem.todo)])
     \/ /\ signal /\ cmd.chunks > 1 /\ Of("text") = "part" /\ UNCHANGED <<facts, mem>>
        /\ Note({"adb"}, AfterInput) /\ cut' = TRUE

\* The clean-up is given the signal of the caller as well.
Restore ==
  /\ Awaiting("restore") /\ UNCHANGED <<cmd, signal, mem>>
  /\ \E r \in Ends : /\ Settles(r) /\ HonestEffect(r, With("ime", mem.ime))
                     /\ Note(IF r = "ok" THEN {} ELSE {ProblemOf(r, "adb")}, "sent")

-----------------------------------------------------------------------------
(* What came of it *)

\* correspondingNode: the field itself on the screen it was found on.  On another screen
\* any node of its unique id, or of its class and place, passes for it, or none does.
OtherFields == [text : {"", "new", "hint"}, hint : {None, "new", "hint"}, observable : BOOLEAN]
SameScreen == mem.seen.screen = mem.before.screen
FieldsSeen ==
  IF SameScreen THEN {[text |-> mem.seen.text, hint |-> cmd.hint, observable |-> ~cmd.password]} ELSE OtherFields

\* Mutant: what the field shows is what it holds.
ShownIsHeld(field) ==
  IF ~field.observable THEN "unobservable" ELSE IF field.text = "new" THEN "verified" ELSE "mismatch"

\* textVerified of a fill, whose text may be the one the empty field shows.
FillVerified(field) ==
  IF ~field.observable \/ (field.text = field.hint /\ field.hint = "new") THEN "unobservable"
  ELSE IF field.text = "new" THEN "verified" ELSE "mismatch"

ClearVerified(field) ==
  IF ~field.observable THEN "unobservable" ELSE IF field.text \in {"", field.hint} THEN "verified" ELSE "mismatch"

UiAfter ==
  \/ Decide("sent", IF problems # {} THEN Finish({}) /\ UNCHANGED mem ELSE Observe("after"))
  \/ Decide("after",
       \E field \in FieldsSeen :
         LET outcome == CASE cmd.action = "fill" -> FillVerified(field) [] cmd.action = "clear" -> ClearVerified(field)
                          [] OTHER -> IF mem.seen # mem.before THEN "verified" ELSE "unchanged"
         IN  Keep([verified |-> outcome = "verified"]) /\ Finish(IF outcome = "mismatch" THEN {"adb"} ELSE {}))

-----------------------------------------------------------------------------
(* The keyboard and permission dialogs *)

\* keyboardObservation: two reads at once, which need not see the same.
ReadKeyboard(next) == GoTo("keyboard") /\ Keep([method |-> None, window |-> None, next |-> next])

Agreed(state) == mem.method = state /\ mem.window = state

KeyboardReads ==
  \/ /\ Awaiting("keyboard") /\ UNCHANGED <<cmd, signal, facts, at, problems, exit>>
     /\ \E r \in Ends, which \in {"method", "window"} :
          mem[which] = None /\ Settles(r) /\ Keep([x \in {which} |-> IF r = "ok" THEN Of("keyboard") ELSE r])
  \/ Decide("keyboard", mem.method # None /\ mem.window # None /\ UNCHANGED mem /\
       IF {mem.method, mem.window} \subseteq {"visible", "hidden"} THEN GoTo(mem.next) ELSE Finish({"adb"}))

Keyboard ==
  \/ KeyboardReads
  \/ Decide("key-before", UNCHANGED mem /\
       IF ~cmd.supported \/ mem.method # mem.window THEN Finish({"adb"})
       ELSE IF cmd.query = "status" \/ Agreed("hidden") \/ cmd.dryRun THEN Finish({}) ELSE GoTo("dismiss"))
  \/ \E s \in Screens :
       Change("dismiss", IF Of("keyboard") = "visible" THEN With("keyboard", "hidden") ELSE With("screen", s),
              ReadKeyboard("key-after"))
  \/ Decide("key-after", UNCHANGED mem /\ Finish(IF Agreed("hidden") THEN {} ELSE {"adb"}))

Dialog(snapshot) == cmd.dialogs[snapshot.screen]

Permission ==
  \/ Decide("dialog",
       /\ Keep([before |-> mem.seen])
       /\ IF cmd.query = "inspect" THEN Finish(IF Dialog(mem.seen) = "unsupported" THEN {"adb"} ELSE {})
          ELSE IF Dialog(mem.seen) \in {"absent", "unsupported"} THEN Finish({"adb"})
          ELSE IF ~cmd.usable THEN Finish({"input"}) ELSE IF cmd.dryRun THEN Finish({}) ELSE GoTo("respond"))
  \/ \E s \in Screens : Change("respond", With("screen", s), Observe("responded"))
  \/ Decide("responded", UNCHANGED mem /\
       Finish(IF mem.seen # mem.before /\ Dialog(mem.seen) # Dialog(mem.before) THEN {} ELSE {"adb"}))

-----------------------------------------------------------------------------
\* runUiAction, runUiSystemAction and runInspectUi.
Ui ==
  /\ cmd.name = "ui"
  /\ \/ UiMoves
     \/ Decide("input", UNCHANGED mem /\ IF cmd.action = "inspect" /\ ~cmd.validSelector THEN Finish({"input"}) ELSE GoTo("adb"))
     \/ ReadyTarget("selector")
     \/ Decide("selector",
          CASE cmd.action = "keyboard" -> ReadKeyboard("key-before")
            [] cmd.action = "permission" -> Observe("dialog")
            [] cmd.action = "inspect" -> Observe("query")
            [] OTHER -> IF ~cmd.validSelector THEN Finish({"input"}) /\ UNCHANGED mem
                        ELSE Observe(CASE cmd.action = "query" -> "query" [] cmd.action = "wait" -> "waited" [] OTHER -> "before"))
     \/ UiLock \/ UiDump \/ UiQuery \/ UiWait
     \/ UiBefore \/ ScreenSize \/ KeyCombination \/ UnicodeInput \/ UiPlan
     \/ ImeSet \/ Send \/ Restore \/ UiAfter \/ Keyboard \/ Permission

\* A fill that is reported as verified has put the text into the field, a clear has
\* emptied it, whatever was shown, unless it was verified by what passed for the field on
\* another screen; a dialog that was answered is no longer the one.
UiDone ==
  /\ mem.verified /\ SameScreen /\ cmd.action = "fill" => <<"text", "new">> \in facts
  /\ mem.verified /\ SameScreen /\ cmd.action = "clear" => <<"text", "">> \in facts
  /\ cmd.action = "permission" /\ cmd.query = "respond" => Dialog(mem.seen) # Dialog(mem.before)
  /\ cmd.action = "keyboard" /\ cmd.query = "dismiss" => Agreed("hidden")

\* Input is sent by actions only, to the screen the reference was taken from, and
\* after a problem only the input method is put back.
UiAsked ==
  /\ cmd.action \notin {"query", "wait", "inspect"}
  /\ problems = {} \/ at = "restore"
  /\ cmd.by = "ref" => cmd.ref = mem.before
=============================================================================
