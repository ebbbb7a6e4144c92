---------------------------- MODULE MCMcpServer ----------------------------
(* TLC instance of McpServer: devices A and B, whose transport ids begin again *)
(* when their adb server does, and the paired network endpoint of B.           *)
EXTENDS McpServer

Usb(tid, device, hw) == [tid |-> tid, serial |-> "s" \o device, device |-> device, hw |-> hw]
MCInventories ==
  {{}, {Usb("1", "A", TRUE)}, {Usb("1", "B", TRUE)}, {Usb("1", "A", TRUE), Usb("2", "B", TRUE)},
   {Usb("1", "A", FALSE)}}
MCAdvertised == {[tid |-> "3", serial |-> "ip", device |-> "B", hw |-> TRUE]}

Asks(c, tool) == [conn |-> c, tool |-> tool, handle |-> Unasked, serial |-> Unasked, tid |-> Unasked, base |-> "x"]
Ready(c) ==
  {Asks(c, "ensure_ready")} \cup {[Asks(c, "ensure_ready") EXCEPT !.serial = s] : s \in {"sA", "sB", "ip"}}
  \cup {[Asks(c, "ensure_ready") EXCEPT !.tid = i] : i \in {"1", "2"}}
Handed(c, tool) == [Asks(c, tool) EXCEPT !.handle = "m1"]

NoPlan == <<>>

MCPlans == {NoPlan} \cup
  {<<r, Asks("m2", "ensure_ready"), Asks("m1", "tap_ui"), Asks("m2", "tap_ui")>> : r \in Ready("m1")}
  \cup {<<r, Asks("m1", "inspect_ui"), q, Asks("m1", "compare_ui")>> : r \in Ready("m1"), q \in Ready("m1")}
  \cup {<<[Asks("m1", "ensure_ready") EXCEPT !.serial = "sA", !.tid = "1"], Asks("m1", "ensure_ready"), Handed("m1", t), Handed("m2", t)>> :
           t \in {"start_dev_session", "fill_ui", "audit_ui"}}
  \cup {<<Asks("m1", "doctor"), Asks("m1", "tap_ui"), Asks("m2", "ensure_ready"), Asks("m2", "inspect_ui")>>}
=============================================================================
