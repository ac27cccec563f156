----------------------------- MODULE IssueLedger -----------------------------
(***************************************************************************)
(* What the issues promise an operator: an episode of a condition has one  *)
(* row; there is one open episode of a condition at a time; a resolved one *)
(* stays resolved; the acknowledgement belongs to its episode and only an  *)
(* operator changes it.                                                    *)
(***************************************************************************)
EXTENDS Naturals, Sequences

CONSTANTS Conditions  \* the pairs of an ASIC and a code

VARIABLE issues       \* the rows, in the order of their ids

Episode(c, status, acked) == [condition |-> c, status |-> status, acked |-> acked]

IsOpen(c) ==
  \E i \in DOMAIN issues : issues[i].condition = c /\ issues[i].status = "ACTIVE"

Init == issues = <<>>

Open(c) ==
  /\ ~IsOpen(c)
  /\ issues' = Append(issues, Episode(c, "ACTIVE", FALSE))

Resolve(i) ==
  /\ issues[i].status = "ACTIVE"
  /\ issues' = [issues EXCEPT ![i].status = "RESOLVED"]

Acknowledge(i) == \E acked \in BOOLEAN : issues' = [issues EXCEPT ![i].acked = acked]

Next ==
  \/ \E c \in Conditions : Open(c)
  \/ \E i \in DOMAIN issues : Resolve(i) \/ Acknowledge(i)

Spec == Init /\ [][Next]_issues
=============================================================================
