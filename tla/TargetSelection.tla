--------------------------- MODULE TargetSelection ---------------------------
(***************************************************************************)
(* From the transports adb lists to the one a command acts on:             *)
(* src/target/model.ts groups the transports of one device by its observed *)
(* hardware identity, src/target/selection.ts chooses a target and one of  *)
(* its transports.                                                         *)
(*                                                                         *)
(* A transport is a record: tid, its transport id; serial; kind; ready,    *)
(* its state is "device"; stable, its serial is not an mDNS service name;  *)
(* hw, the device behind it.                                               *)
(***************************************************************************)
EXTENDS Naturals, FiniteSets

CONSTANTS None   \* an option that was not given, an identity that was not observed

Usable(d) == d.ready /\ d.stable
Network(d) == d.kind \in {"tls", "tcp"}

-----------------------------------------------------------------------------
(* Identity *)

\* targetIdentityScope: which transports are asked for their hardware serial.
InScope(d, all, o) ==
  IF o.transportId # None THEN d.tid = o.transportId
  ELSE o.selector \in {None, d.serial} \cup {e.hw : e \in all}

Probed(all, o) == {d \in all : Usable(d) /\ InScope(d, all, o)}

\* correlateMdnsTransportIdentities: a transport that is named by an mDNS service
\* has the one identity its services and their endpoints stand for.  A service is
\* a record of its name, the hardware it advertises (or None) and its endpoints.
Correlated(d, asked, services) ==
  LET mine == {s \in services : s.name = d.serial}
      ids == ({s.hw : s \in mine} \ {None})
               \cup {e.hw : e \in {e \in asked : Network(e) /\ \E s \in mine : e.serial \in s.endpoints}}
  IN  IF Cardinality(ids) = 1 THEN CHOOSE id \in ids : TRUE ELSE None

\* The identity each transport is known by; asked are those that answered.  The
\* answers are kept by serial: of two transports with one serial the last counts.
IdentityOf(d, asked, services) ==
  LET alike == {e \in asked : e.serial = d.serial}
  IN  IF alike # {} THEN (CHOOSE e \in alike : \A f \in alike : f.tid =< e.tid).hw
      ELSE IF d.stable THEN None ELSE Correlated(d, asked, services)

-----------------------------------------------------------------------------
(* Targets: the transports of one identity, or of one serial without any *)

Key(d, identity) == IF identity[d] = None THEN <<"adb", d.serial>> ELSE <<"hardware", identity[d]>>

TargetsOf(all, identity) == {{e \in all : Key(e, identity) = Key(d, identity)} : d \in all}

\* compareTransports: usable ones first, by kind; equal ones in adb's order.
KindRank(d) == CASE d.kind = "usb" -> 0 [] d.kind = "emulator" -> 1
                 [] d.kind = "tls" -> 2 [] d.kind = "tcp" -> 3 [] OTHER -> 4
Before(d, e) ==
  IF d.ready # e.ready THEN d.ready
  ELSE IF d.stable # e.stable THEN d.stable
  ELSE IF KindRank(d) # KindRank(e) THEN KindRank(d) < KindRank(e) ELSE d.tid < e.tid
First(ds) == CHOOSE d \in ds : \A e \in ds \ {d} : Before(d, e)

-----------------------------------------------------------------------------
(* selectTarget *)

Selected(d, reason) == [kind |-> "selected", transport |-> d, reason |-> reason]
Refused(kind) == [kind |-> kind]

ReadyOf(target) == {d \in target : Usable(d)}
SameSerial(ds) == Cardinality(ds) > 1 /\ Cardinality({d.serial : d \in ds}) = 1
WithSerial(all, serial) == {d \in all : d.serial = serial}

ByTransportId(all, o) ==
  LET ds == {d \in all : d.tid = o.transportId}
  IN  IF ds = {} THEN Refused("not-found")
      ELSE IF Usable(First(ds)) THEN Selected(First(ds), "transport-id") ELSE Refused("unavailable")

\* By the id of a target, else by a serial; two ready transports of one serial
\* cannot be told apart by it.
BySelector(all, targets, identity, o) ==
  LET exact == {t \in targets : \E d \in t : identity[d] = o.selector}
      ready == IF exact # {} THEN ReadyOf(CHOOSE t \in exact : TRUE)
               ELSE ReadyOf(WithSerial(all, o.selector))
  IN  IF exact = {} /\ WithSerial(all, o.selector) = {} THEN Refused("not-found")
      ELSE IF SameSerial(ready) THEN Refused("duplicate")
      ELSE IF ready = {} THEN Refused("unavailable") ELSE Selected(First(ready), "explicit")

\* transportMatchingRememberedKind
OfRememberedKind(ready, network) ==
  LET alike == {d \in ready : IF network THEN Network(d) ELSE d.kind \in {"usb", "emulator"}}
  IN  First(IF alike # {} THEN alike ELSE ready)

OnlyReady(targets) ==
  LET ready == {t \in targets : ReadyOf(t) # {}}
      ds == ReadyOf(CHOOSE t \in ready : TRUE)
  IN  IF ready = {} THEN Refused("none")
      ELSE IF Cardinality(ready) > 1 THEN Refused("ambiguous")
      ELSE IF SameSerial(ds) THEN Refused("duplicate") ELSE Selected(First(ds), "only-ready")

\* The remembered serial, then the remembered identity; without --last anything
\* that cannot be resolved falls back to the only ready target.
ByMemory(all, targets, identity, o) ==
  LET mine == WithSerial(all, o.rememberedSerial)
      same == {t \in targets : o.rememberedHw # None /\ \E d \in t : identity[d] = o.rememberedHw}
      ready == UNION {ReadyOf(t) : t \in same}
  IN  IF o.rememberedSerial # None /\ Cardinality(mine) > 1 THEN Refused("duplicate")
      ELSE IF o.rememberedSerial # None /\ ReadyOf(mine) # {} THEN Selected(First(ReadyOf(mine)), "remembered")
      ELSE IF ready # {} THEN
        Selected(OfRememberedKind(ready, o.rememberedSerial # None /\ o.rememberedNetwork), "remembered-identity")
      ELSE IF o.rememberedOnly THEN
        Refused(IF same # {} \/ (o.rememberedSerial # None /\ mine # {}) THEN "unavailable" ELSE "not-found")
      ELSE OnlyReady(targets)

\* Mutant: the transports of a serial that is listed twice are all alike.
SelectFirst(all, identity, o) ==
  LET targets == TargetsOf(all, identity)
  IN  IF o.transportId # None THEN ByTransportId(all, o)
      ELSE IF o.selector # None /\ ReadyOf(WithSerial(all, o.selector)) # {}
        THEN Selected(First(ReadyOf(WithSerial(all, o.selector))), "explicit")
      ELSE IF o.selector # None THEN BySelector(all, targets, identity, o)
      ELSE ByMemory(all, targets, identity, o)

SelectTarget(all, identity, o) ==
  LET targets == TargetsOf(all, identity)
  IN  IF o.transportId # None THEN ByTransportId(all, o)
      ELSE IF o.selector # None THEN BySelector(all, targets, identity, o)
      ELSE ByMemory(all, targets, identity, o)

\* What adb lists: every transport has an id of its own.
Inventory(all) ==
  /\ IsFiniteSet(all)
  /\ \A d \in all : d.tid \in Nat /\ d.ready \in BOOLEAN /\ d.stable \in BOOLEAN
  /\ \A d, e \in all : d.tid = e.tid => d = e

\* The usable transports of one serial, of which one belongs to a device with a transport
\* of another serial: that one's answer stands for all of them.
Bearers(all, d) == ReadyOf(WithSerial(all, d.serial))
Mistakable(all, d) ==
  /\ Bearers(all, d) \ {d} # {}
  /\ \E e \in Bearers(all, d), f \in all : Usable(f) /\ f.serial # d.serial /\ f.hw = e.hw

\* The choice is not mistaken: the transport is usable, it is what was asked for, and its
\* serial names no other ready transport unless its transport id was given.  (A remembered
\* identity is resolved without that last check, and among mistakable transports it is
\* the identity of another one that was asked for, or all there is.)
ChoiceIsSafe(all, choice, o) ==
  LET d == choice.transport
  IN  /\ Usable(d)
      /\ choice.reason \notin {"transport-id", "remembered-identity"} => ~SameSerial(Bearers(all, d)) \/ Mistakable(all, d)
      /\ o.transportId # None => d.tid = o.transportId
      /\ o.transportId = None /\ o.selector # None =>
           \/ o.selector \in {d.serial, d.hw}
           \/ Mistakable(all, d) /\ o.selector \in {e.hw : e \in Bearers(all, d)}
      /\ o.transportId = None /\ o.selector = None =>
           \/ o.rememberedSerial = d.serial
           \/ o.rememberedHw \in {e.hw : e \in Bearers(all, d)}
           \/ /\ ~o.rememberedOnly
              /\ \A e \in all : Usable(e) => e.hw = d.hw \/ Mistakable(all, d) \/ Mistakable(all, e)
=============================================================================
