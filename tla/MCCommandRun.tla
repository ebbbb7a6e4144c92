---------------------------- MODULE MCCommandRun ----------------------------
(* TLC instance of CommandRun: a pool beside a run of another terminal, or two  *)
(* runs of other terminals that want different AVDs and find one console port.  *)
EXTENDS CommandRun

CONSTANTS other, second, avd, tablet, phone   \* two runs, two AVDs and a phone

\* Pools that run one member at a time or both at once, which all must pass and the
\* first failure ends, and one whose second member is optional, which goes on to it
\* when the first is over.
LocalPools ==
  {p \in [required : {{1}, {1, 2}}, maxConcurrency : {1, 2}, failFast : BOOLEAN,
          cancelRunning : {TRUE}] :
     IF p.required = {1} THEN p.maxConcurrency = 1 /\ ~p.failFast ELSE p.failFast}

\* The pool of the two runs of other terminals: it is cancelled before it begins.
NoPool == [required |-> {}, maxConcurrency |-> 1, failFast |-> FALSE, cancelRunning |-> TRUE]

MCPools == LocalPools \cup {NoPool}

\* The second member and a run outside want one AVD, the other run outside wants
\* another; the first member wants a phone, which is announced on the network and
\* has to be connected to.
MCWants == [r \in {1, 2, other, second} |->
              IF r = 1 THEN phone ELSE IF r = second THEN tablet ELSE avd]

\* Bounds: beside a pool nobody wants the tablet, and every identity is read.
Beside == pool # NoPool
MCInit ==
  /\ Init
  /\ IF Beside THEN \A p \in Ports : emulator[p].avd # tablet ELSE signalled
MCNext == Next /\ (Beside => pc'[second] = "idle" /\ ~killed'[second] /\ UNCHANGED identity)
MCSpec == MCInit /\ [][MCNext]_vars
=============================================================================
