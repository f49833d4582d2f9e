----------------------------- MODULE AtomicLog -----------------------------
(***************************************************************************)
(* What the commit path promises, with no file and no records: a           *)
(* transaction becomes durable in one step, is then published and          *)
(* acknowledged, and every open shows the whole durable sequence.          *)
(***************************************************************************)
EXTENDS Integers, Sequences

CONSTANTS Txns

Closed == -1

VARIABLES
  log,    \* the durable transactions, in commit order
  head,   \* how many of them the open store shows, or Closed
  acked   \* the positions acknowledged to a committer

Init == log = <<>> /\ head = 0 /\ acked = {}

\* At most one durable commit is ahead of the head: the writer is serialized.
MakeDurable(t) ==
  /\ head = Len(log)
  /\ \A i \in DOMAIN log : log[i] # t
  /\ log' = Append(log, t)
  /\ UNCHANGED <<head, acked>>

Publish ==
  /\ head = Len(log) - 1 /\ head # Closed
  /\ head' = Len(log)
  /\ acked' = acked \union {Len(log)}
  /\ UNCHANGED log

Die ==
  /\ head # Closed
  /\ head' = Closed
  /\ UNCHANGED <<log, acked>>

Open ==
  /\ head = Closed
  /\ head' = Len(log)
  /\ UNCHANGED <<log, acked>>

Next == (\E t \in Txns : MakeDurable(t)) \/ Publish \/ Die \/ Open

Spec == Init /\ [][Next]_<<log, head, acked>>
=============================================================================
