----------------------------- MODULE AgentSetup -----------------------------
(***************************************************************************)
(* `adb-ready agent setup` (src/agent/setup.ts): it merges an MCP server   *)
(* into a client's configuration and installs a skill beside it, both or   *)
(* neither, by staging, renaming and, on an error, undoing.  The project's *)
(* files belong to the user; any call may fail and the process may die     *)
(* between two calls.                                                      *)
(***************************************************************************)
EXTENDS Naturals, Sequences

CONSTANTS SetupFaults   \* what may go wrong: a subset of {"look", "call", "undo", "crash"}

\* The two destinations, in the order in which they are written.
Files == {"config", "skill"}

\* What is at a destination: nothing, something that is no regular file, the wanted
\* content, content of the user into which ours can be merged (or an older skill of
\* ours), or content that must not be touched.
Kinds == {"absent", "irregular", "wanted", "mergeable", "foreign"}

VARIABLES
  spc,        \* where runAgentSetup stands
  kind,       \* what the destinations held at first
  looked,     \* what setup took them to hold
  dest,       \* what they hold: "absent", "user", "ours"
  temporary,  \* the destinations whose staged content lies beside them
  backup,     \* those whose old content lies beside them
  writes,     \* the planned writes still to be staged or installed, in order
  moved, installed, \* movedExisting and installed, of the files planned
  undoing,    \* what the clean-up after an error has left to undo
  failed,     \* a call of the clean-up, or the removal of a backup, has failed
  sexit       \* "none", "ok", "refused", "failed" or "unread"

setupVars == <<spc, kind, looked, dest, temporary, backup, writes, moved, installed, undoing, failed, sexit>>

SetupTypeOK ==
  /\ spc \in {"check", "stage", "moveOld", "install", "dropBackups", "reread", "undo",
           "done", "dead"}
  /\ {kind, looked} \subseteq [Files -> Kinds] /\ dest \in [Files -> {"absent", "user", "ours"}]
  /\ {temporary, backup, moved, installed} \subseteq SUBSET Files
  /\ writes \in Seq(Files) /\ undoing \in Seq(Files)
  /\ failed \in SUBSET Files /\ sexit \in {"none", "ok", "refused", "failed", "unread"}

Held(k) == CASE k = "absent" -> "absent" [] k = "wanted" -> "ours" [] OTHER -> "user"

SetupInit ==
  /\ spc = "check" /\ kind \in [Files -> Kinds] /\ looked = kind
  /\ dest = [f \in Files |-> Held(kind[f])]
  /\ temporary = {} /\ backup = {} /\ writes = <<>> /\ moved = {} /\ installed = {}
  /\ undoing = <<>> /\ failed = {} /\ sexit = "none"

----------------------------------------------------------------------------
\* planFor, the checks of runAgentSetup, and mergeJson or mergeToml.

\* What is known of a destination, and of its parents, is what lstat says: a look that
\* fails, for whatever reason, is taken for "nothing there".
LookFails(f) ==
  /\ spc = "check" /\ "look" \in SetupFaults /\ looked[f] # "absent"
  /\ looked' = [looked EXCEPT ![f] = "absent"]
  /\ UNCHANGED <<spc, kind, dest, temporary, backup, writes, moved, installed, undoing, failed, sexit>>

Refused == \E f \in Files : looked[f] \in {"irregular", "foreign"}

\* The writes of atomicWriteSet: only what is not there already.
Wanting(f) == IF looked[f] # "wanted" THEN <<f>> ELSE <<>>
Changed == Wanting("config") \o Wanting("skill")

Returns(exit) == spc' = "done" /\ sexit' = exit

\* A client whose configuration is edited by hand, a dry run, a skill that is not
\* packaged or a file that cannot be read, a refusal, or nothing to do: no file is
\* touched.
CheckOnly ==
  /\ spc = "check"
  /\ \/ Refused /\ Returns("refused")
     \/ ~Refused /\ Returns("ok")
     \/ "call" \in SetupFaults /\ Returns("refused")
  /\ UNCHANGED <<kind, looked, dest, temporary, backup, writes, moved, installed, undoing, failed>>

Plan ==
  /\ spc = "check" /\ ~Refused /\ Changed # <<>>
  /\ spc' = "stage" /\ writes' = Changed
  /\ UNCHANGED <<kind, looked, dest, temporary, backup, moved, installed, undoing, failed, sexit>>

----------------------------------------------------------------------------
\* atomicWriteSet: stage every file, then swap them one by one.

File == Head(writes)
Goes(there) == spc' = there

Stage ==
  /\ spc = "stage"
  /\ IF writes = <<>>
     THEN Goes("moveOld") /\ writes' = Changed /\ UNCHANGED temporary
     ELSE temporary' = temporary \cup {File} /\ writes' = Tail(writes) /\ UNCHANGED spc
  /\ UNCHANGED <<kind, looked, dest, backup, moved, installed, undoing, failed, sexit>>

MoveOld ==
  /\ spc = "moveOld"
  /\ IF writes = <<>>
     THEN Goes("dropBackups") /\ UNCHANGED <<dest, backup, moved>>
     ELSE /\ Goes("install")
          /\ IF looked[File] = "absent"
             THEN UNCHANGED <<dest, backup, moved>>
             ELSE /\ dest' = [dest EXCEPT ![File] = "absent"]
                  /\ backup' = backup \cup {File} /\ moved' = moved \cup {File}
  /\ UNCHANGED <<kind, looked, temporary, writes, installed, undoing, failed, sexit>>

\* The staged content is renamed over what is there: over what was overlooked, too.
Install ==
  /\ spc = "install" /\ Goes("moveOld")
  /\ dest' = [dest EXCEPT ![File] = "ours"] /\ temporary' = temporary \ {File}
  /\ installed' = installed \cup {File} /\ writes' = Tail(writes)
  /\ UNCHANGED <<kind, looked, backup, moved, undoing, failed, sexit>>

\* The backups are removed in parallel: some removals may fail while others are done.
DropBackups ==
  /\ spc = "dropBackups"
  /\ \E kept \in IF "call" \in SetupFaults THEN SUBSET backup ELSE {{}} :
       /\ backup' = kept /\ failed' = failed \cup kept
       /\ IF kept = {} THEN Goes("reread") /\ UNCHANGED <<undoing, sexit>>
          ELSE Goes("undo") /\ undoing' = Changed /\ UNCHANGED sexit
  /\ UNCHANGED <<kind, looked, dest, temporary, writes, moved, installed>>

\* The new configuration is read back; if that fails the command reports an error
\* although both files are in place.
Reread ==
  /\ spc = "reread"
  /\ Returns("ok") \/ ("call" \in SetupFaults /\ Returns("unread"))
  /\ UNCHANGED <<kind, looked, dest, temporary, backup, writes, moved, installed, undoing, failed>>

\* Any call of the first two loops fails, also between the two renames of a file.
Fails ==
  /\ "call" \in SetupFaults /\ spc \in {"stage", "moveOld", "install"} /\ writes # <<>>
  /\ Goes("undo") /\ undoing' = Changed
  /\ UNCHANGED <<kind, looked, dest, temporary, backup, writes, moved, installed, failed, sexit>>

\* Mutant: what was installed stays, and the backup is put over it no more.
UndoKeepsInstalled ==
  /\ spc = "undo" /\ undoing # <<>>
  /\ undoing' = SubSeq(undoing, 1, Len(undoing) - 1)
  /\ temporary' = temporary \ {undoing[Len(undoing)]}
  /\ UNCHANGED <<spc, kind, looked, dest, backup, writes, moved, installed, failed, sexit>>

\* The clean-up, last file first: the staged file, the installed one, and the old
\* one back, if it is still there.  A call that fails is passed over.
Undo ==
  /\ spc = "undo" /\ undoing # <<>>
  /\ LET f == undoing[Len(undoing)]
         back == f \in moved /\ f \in backup
         restored == IF back THEN "user" ELSE IF f \in installed THEN "absent" ELSE dest[f]
     IN /\ undoing' = SubSeq(undoing, 1, Len(undoing) - 1)
        /\ temporary' = temporary \ {f}
        /\ \/ /\ dest' = [dest EXCEPT ![f] = restored]
              /\ backup' = IF back THEN backup \ {f} ELSE backup
              /\ UNCHANGED failed
           \/ /\ "undo" \in SetupFaults /\ (f \in installed \/ back)
              /\ \/ UNCHANGED <<dest, backup>>
                 \/ f \in installed /\ dest' = [dest EXCEPT ![f] = "absent"] /\ UNCHANGED backup
              /\ failed' = failed \cup {f}
  /\ UNCHANGED <<spc, kind, looked, writes, moved, installed, sexit>>

Undone ==
  /\ spc = "undo" /\ undoing = <<>> /\ Returns("failed")
  /\ UNCHANGED <<kind, looked, dest, temporary, backup, writes, moved, installed, undoing, failed>>

Dies ==
  /\ "crash" \in SetupFaults /\ spc \notin {"check", "done", "dead"} /\ Goes("dead")
  /\ UNCHANGED <<kind, looked, dest, temporary, backup, writes, moved, installed, undoing, failed, sexit>>

SetupNext ==
  \/ (\E f \in Files : LookFails(f)) \/ CheckOnly \/ Plan \/ Stage \/ MoveOld \/ Install \/ DropBackups \/ Reread
  \/ Fails \/ Undo \/ Undone \/ Dies

----------------------------------------------------------------------------

\* What a failed look has made setup take for absent.
Overlooked == {f \in Files : looked[f] # kind[f]}

\* Setup changes both files or none, and what it reports is what it did: after an
\* error the user's files are back as they were, unless a call of the clean-up or
\* the removal of a backup failed as well; and until then no old content is gone,
\* wherever the process dies (atomicWriteSet).  A destination that setup took for
\* absent because the look at it failed has no backup: it is replaced, and an error
\* leaves nothing at it, or what was there, but never ours; the other is none the
\* worse for it.
SetupIsAtomic ==
  failed = {} =>
    /\ sexit \in {"refused", "failed"} =>
         \A f \in Files : dest[f] = Held(kind[f]) \/ (f \in Overlooked /\ dest[f] = "absent")
    /\ sexit \in {"ok", "unread"} /\ installed # {} => \A f \in Files : dest[f] = "ours"
    /\ sexit \in {"ok", "failed", "unread"} => temporary = {} /\ backup = {}
    /\ \A f \in Files \ Overlooked :
         Held(kind[f]) = "user" => dest[f] # "absent" \/ f \in backup
=============================================================================
