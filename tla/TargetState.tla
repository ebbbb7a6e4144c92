---------------------------- MODULE TargetState ----------------------------
(***************************************************************************)
(* The remembered targets (src/state/target-state.ts): one JSON file of    *)
(* the user, with an entry for each adb server, that every process reads,  *)
(* changes and replaces without a lock.                                    *)
(***************************************************************************)
EXTENDS Naturals, FiniteSets

CONSTANTS
  Writers,    \* processes that remember a target at the end of a command
  Scope,      \* the adb server each of them uses (adbServerScope)
  MaxServers, \* MAX_REMEMBERED_SERVERS
  StateFaults \* a subset of {"io", "crash", "garbage"}

Servers == {Scope[w] : w \in Writers}
NoEntry == [by |-> 0, at |-> 0]

ASSUME StateAssumption ==
  /\ Writers \subseteq Nat \ {0} /\ IsFiniteSet(Writers) /\ MaxServers \in Nat \ {0}
  /\ DOMAIN Scope = Writers

VARIABLES
  tpc,      \* where each writer stands
  state,    \* the file: an entry of each server, NoEntry when it has none
  valid,    \* it has the shape parseState accepts
  read,     \* the document a writer has read
  tclock    \* the time, one tick per write

stateVars == <<tpc, state, valid, read, tclock>>

Documents == [Servers -> {NoEntry} \cup [by : Writers, at : Nat \ {0}]]
Empty == [s \in Servers |-> NoEntry]

StateTypeOK ==
  /\ tpc \in [Writers -> {"idle", "read", "renamed", "refused", "dead"}]
  /\ state \in Documents /\ valid \in BOOLEAN
  /\ read \in [Writers -> Documents] /\ tclock \in Nat

\* Something else may have written the file.
StateInit ==
  /\ tpc = [w \in Writers |-> "idle"] /\ state = Empty
  /\ valid \in IF "garbage" \in StateFaults THEN BOOLEAN ELSE {TRUE}
  /\ read = [w \in Writers |-> Empty] /\ tclock = 0

Entries(document) == {s \in Servers : document[s] # NoEntry}

\* readTargetState; what cannot be read or parsed is not replaced.
ReadState(w) ==
  /\ tpc[w] = "idle"
  /\ \/ valid /\ tpc' = [tpc EXCEPT ![w] = "read"] /\ read' = [read EXCEPT ![w] = state]
     \/ /\ ~valid \/ "io" \in StateFaults
        /\ tpc' = [tpc EXCEPT ![w] = "refused"] /\ UNCHANGED read
  /\ UNCHANGED <<state, valid, tclock>>

\* Mutant: the file is written with the own entry alone.
OnlyOwn(document, w, at) ==
  [s \in Servers |-> IF s = Scope[w] THEN [by |-> w, at |-> at] ELSE NoEntry]

\* The document a writer writes: its own entry among those it read, the newest
\* MaxServers of them.
Remembering(document, w, at) ==
  LET all == [document EXCEPT ![Scope[w]] = [by |-> w, at |-> at]]
  IN [s \in Servers |->
        IF Cardinality({o \in Servers : all[o].at > all[s].at}) < MaxServers
        THEN all[s] ELSE NoEntry]

\* The temporary file and the rename, or one of them fails and the temporary file
\* is removed.
WriteState(w) ==
  /\ tpc[w] = "read"
  /\ \/ /\ tclock' = tclock + 1
        /\ state' = Remembering(read[w], w, tclock + 1)
        /\ tpc' = [tpc EXCEPT ![w] = "renamed"]
     \/ "io" \in StateFaults /\ tpc' = [tpc EXCEPT ![w] = "refused"] /\ UNCHANGED <<state, tclock>>
  /\ UNCHANGED <<valid, read>>

WriterDies(w) ==
  /\ "crash" \in StateFaults /\ tpc[w] \in {"idle", "read"}
  /\ tpc' = [tpc EXCEPT ![w] = "dead"]
  /\ UNCHANGED <<state, valid, read, tclock>>

StateNext == \E w \in Writers : ReadState(w) \/ WriteState(w) \/ WriterDies(w)

----------------------------------------------------------------------------

\* An entry is lost only to an overlap: a writer that began after it was written
\* keeps it, or its own server's newer one, unless as many newer ones fill the file,
\* and a file that is not understood is left alone (writeRememberedTarget).
KeepsEntries ==
  /\ ~valid => UNCHANGED state
  /\ \A s \in Servers : state[s] # NoEntry /\ state'[s] = NoEntry =>
       \/ \E w \in Writers : tpc[w] = "read" /\ tpc'[w] = "renamed" /\ read[w][s] # state[s]
       \/ Cardinality({o \in Servers : state'[o].at > state[s].at}) >= MaxServers
=============================================================================
