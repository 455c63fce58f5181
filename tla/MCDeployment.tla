--------------------------- MODULE MCDeployment ---------------------------
(* Instances of Deployment for TLC. *)
EXTENDS Deployment

\* the last file has two statements
MCStatements == [f \in 1..Files |-> IF f = Files THEN 2 ELSE 1]

\* an index of messages, then ALTER of another table, and of messages itself:
\* 001_init.sql and 002_agent_gateway.sql meet the tables in different orders
MCLocks == [o \in {<<f, i>> : f \in 1..Files, i \in 1..2} |->
    CASE o = <<1, 1>> -> {<<"messages", "share">>}
      [] o = <<2, 1>> -> {<<"conversations", "exclusive">>}
      [] o = <<3, 1>> -> {<<"messages", "exclusive">>}
      [] OTHER -> {<<"conversations", "share">>}]

===========================================================================
