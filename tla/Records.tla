------------------------------- MODULE Records -------------------------------
(* What the modules of the commands and of the MCP server do with records.      *)
EXTENDS Naturals

\* A record with the fields of another added or put over its own.
Amended(record, fields) ==
  [x \in DOMAIN record \cup DOMAIN fields |-> IF x \in DOMAIN fields THEN fields[x] ELSE record[x]]
=============================================================================
