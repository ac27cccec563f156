--------------------------- MODULE RuleStoreProofs ---------------------------
(***************************************************************************)
(* Theorems about RuleStore.  The inductive invariant IInv adds to the     *)
(* properties what a request in flight knows of the table as long as no    *)
(* other request has written since it began (RequestsFit), and that no     *)
(* schedule changed in the future.                                         *)
(***************************************************************************)
EXTENDS RuleStore, TLAPS

Row ==
  [enabled : BOOLEAN, action : ScheduleActions, time_minutes : 0 .. 1439,
   days : (SUBSET (0 .. 6)) \ {{}}, scope : {"FARM", "GROUP"},
   group_id : Groups \cup {None}, effective_from : Instants]

\* The positions of a request that has a body to write.
Checked == {"group", "conflict", "write"}

Creation ==
  [kind : {"create"}, id : {None}, pc : Checked, row : {None}, new : Normalized,
   dirty : BOOLEAN]

AwaitsBody ==
  [kind : {"update"}, id : RuleIds, pc : {"body"}, row : Row, new : {None},
   dirty : BOOLEAN]

Change ==
  [kind : {"update", "toggle"}, id : RuleIds, pc : Checked, row : Row,
   new : Normalized, dirty : BOOLEAN]

GroupDeletion ==
  [kind : {"group"}, id : Groups, pc : {"delete"}, row : {None}, new : {None},
   dirty : BOOLEAN]

Request == Creation \cup AwaitsBody \cup Change \cup GroupDeletion

TableTypes ==
  /\ now \in Instants
  /\ DOMAIN rules \subseteq RuleIds
  /\ rules \in [DOMAIN rules -> Row]
  /\ changed_at \in [DOMAIN rules -> Instants]
  /\ groups \in SUBSET Groups

TypeOK ==
  /\ TableTypes
  /\ next_id \in Nat
  /\ loop \in Requests \cup {None}
  /\ req \in [Requests -> Request \cup {None}]
  /\ raced \in SUBSET RuleIds

\* Rows of the table keep scope and group together.
ScopesFit ==
  \A i \in DOMAIN rules : rules[i].scope = "FARM" <=> rules[i].group_id = None

-----------------------------------------------------------------------------
(* What a request in flight knows                                          *)

Except(r) == IF r.id = None THEN {} ELSE {r.id}

\* A creation holds the event loop until it has used its id; a toggle writes
\* what it read but for enabled.
OwnFits(q, r) ==
  /\ r.kind = "create" => loop = q /\ next_id + 1 \in RuleIds
  /\ r.kind = "toggle" => r.new = [Without(r.row) EXCEPT !.enabled = ~r.row.enabled]

\* What holds as long as nobody has written: the row read is the row there
\* is, and what was checked is still true.
ReadFits(r) ==
  /\ r.kind \in {"update", "toggle"} => r.id \in DOMAIN rules /\ rules[r.id] = r.row
  /\ r.kind \in {"create", "update"} /\ r.pc \in {"conflict", "write"}
       => r.new.group_id \in groups \cup {None}
  /\ r.pc = "write" => schedule_conflicting_rule(r.new, Except(r)) = {}
  /\ r.kind = "group" => \A i \in DOMAIN rules : rules[i].group_id # r.id

RequestsFit ==
  \A q \in Requests : req[q] # None =>
    OwnFits(q, req[q]) /\ (req[q].dirty \/ ReadFits(req[q]))

PastChanges == \A i \in DOMAIN rules : changed_at[i] <= now

IInv ==
  /\ TypeOK /\ ScopesFit /\ RequestsFit /\ PastChanges
  /\ ConflictsOnlyFromRaces /\ RulesAreNotRetroactive /\ GroupRulesHaveTheirGroup

-----------------------------------------------------------------------------
(* What the operators return                                               *)

LEMMA RowOfBody ==
  ASSUME NEW n \in Normalized, NEW t \in Instants
  PROVE  /\ WithEffectiveFrom(n, t) \in Row
         /\ WithEffectiveFrom(n, t).scope = "FARM"
              <=> WithEffectiveFrom(n, t).group_id = None
  BY DEF Normalized, WithEffectiveFrom, Row

LEMMA BodyOfRow ==
  ASSUME NEW r \in Row, r.scope = "FARM" <=> r.group_id = None
  PROVE  [Without(r) EXCEPT !.enabled = ~r.enabled] \in Normalized
  <1>1. (~r.enabled) \in BOOLEAN
    OBVIOUS
  <1>2. \A b \in BOOLEAN : [Without(r) EXCEPT !.enabled = b] \in Normalized
    BY DEF Normalized, Without, Row
  <1> QED
    BY <1>1, <1>2, Zenon

LEMMA RowToggled ==
  ASSUME NEW r \in Row, r.scope = "FARM" <=> r.group_id = None
  PROVE  \A on \in BOOLEAN, t \in Instants :
           LET row == [r EXCEPT !.enabled = on, !.effective_from = t]
           IN  row \in Row /\ (row.scope = "FARM" <=> row.group_id = None)
  <1>1. \A on \in BOOLEAN, t \in Instants :
           [r EXCEPT !.enabled = on, !.effective_from = t] \in Row
    <2>1. \A x \in Row, on \in BOOLEAN : [x EXCEPT !.enabled = on] \in Row
      BY DEF Row
    <2>2. \A x \in Row, t \in Instants : [x EXCEPT !.effective_from = t] \in Row
      BY DEF Row
    <2>3. \A on, t : [r EXCEPT !.enabled = on, !.effective_from = t]
                       = [[r EXCEPT !.enabled = on] EXCEPT !.effective_from = t]
      BY DEF Row
    <2> QED
      BY <2>1, <2>2, <2>3, Zenon
  <1>2. ASSUME NEW on, NEW t
        PROVE  LET row == [r EXCEPT !.enabled = on, !.effective_from = t]
               IN  row.scope = r.scope /\ row.group_id = r.group_id
    BY DEF Row
  <1> QED
    BY <1>1, <1>2, Zenon

LEMMA NewRequestTypes ==
  /\ \A n \in Normalized : NewRequest("create", None, "group", None, n) \in Request
  /\ \A i \in RuleIds, r \in Row : NewRequest("update", i, "body", r, None) \in Request
  /\ \A i \in RuleIds, r \in Row, n \in Normalized, pc \in Checked :
       NewRequest("toggle", i, pc, r, n) \in Request
  /\ \A g \in Groups : NewRequest("group", g, "delete", None, None) \in Request
  BY DEF NewRequest, Request, Creation, AwaitsBody, Change, GroupDeletion, Checked

LEMMA RequestTypes ==
  ASSUME NEW r \in Request
  PROVE  /\ [r EXCEPT !.dirty = TRUE] \in Request
         /\ r.pc \in Checked => \A pc \in Checked : [r EXCEPT !.pc = pc] \in Request
         /\ r.pc = "body" => \A n \in Normalized :
              [r EXCEPT !.pc = "group", !.new = n] \in Request
         /\ r.pc \in Checked => r.new \in Normalized
         /\ r.pc \in Checked /\ r.kind # "create" =>
              r.id \in RuleIds /\ r.row \in Row /\ r.kind \in {"update", "toggle"}
         /\ r.pc = "body" <=> r \in AwaitsBody
         /\ r.pc = "delete" => r.kind = "group" /\ r.id \in Groups
  BY DEF Request, Creation, AwaitsBody, Change, GroupDeletion, Checked

-----------------------------------------------------------------------------
(* Types                                                                   *)

LEMMA StepTypes ==
  ASSUME TypeOK, NEW q \in Requests, NEW r \in Request \cup {None}, Step(q, r)
  PROVE  req' \in [Requests -> Request \cup {None}]
  BY DEF TypeOK, Step

\* The row of a new rule, or of the rule i, is written.
LEMMA TableWritten ==
  ASSUME TypeOK, ScopesFit, NEW i \in RuleIds, NEW row \in Row,
         row.scope = "FARM" <=> row.group_id = None,
         rules' = [j \in DOMAIN rules \cup {i} |-> IF j = i THEN row ELSE rules[j]],
         NEW t \in Instants,
         changed_at' = [j \in DOMAIN rules \cup {i} |-> IF j = i THEN t ELSE changed_at[j]],
         now' = now, groups' = groups
  PROVE  TableTypes' /\ ScopesFit'
  BY DEF TypeOK, TableTypes, ScopesFit

LEMMA FinishTypes ==
  ASSUME TypeOK, NEW q \in Requests, Finish(q)
  PROVE  req' \in [Requests -> Request \cup {None}]
  <1>1. \A p \in Requests : req[p] \in Request \cup {None}
    BY DEF TypeOK
  <1>2. \A p \in Requests : req[p] # None => [req[p] EXCEPT !.dirty = TRUE] \in Request
    BY <1>1, RequestTypes
  <1> QED
    BY <1>2 DEF Finish

\* A request that has a body writes the row it checked.
LEMMA WriterHasBody ==
  ASSUME TypeOK, NEW q \in Requests, req[q] # None, req[q].pc \in Checked
  PROVE  /\ req[q] \in Request /\ req[q].new \in Normalized
         /\ req[q].kind \in {"create", "update", "toggle"}
         /\ req[q].kind = "create" => req[q].id = None
         /\ req[q].kind # "create" => req[q].id \in RuleIds /\ req[q].row \in Row
  <1>1. req[q] \in Request
    BY DEF TypeOK
  <1> QED
    BY <1>1 DEF Request, Creation, AwaitsBody, Change, GroupDeletion, Checked

\* What WriteRow writes, if the row still exists.
LEMMA RowWritten ==
  ASSUME TypeOK, ScopesFit, NEW q \in Requests, req[q] # None, NEW row,
         req[q].id \in RuleIds, WriteRow(q, row),
         req[q].id \in DOMAIN rules =>
           row \in Row /\ (row.scope = "FARM" <=> row.group_id = None)
  PROVE  TypeOK' /\ ScopesFit'
  <1> DEFINE i == req[q].id
  <1>1. loop' \in Requests \cup {None} /\ next_id' \in Nat
    BY DEF WriteRow, TypeOK
  <1>2. CASE i \in DOMAIN rules
    <2>1. PICK t \in Instants :
            /\ rules' = [rules EXCEPT ![i] = row]
            /\ changed_at' = [changed_at EXCEPT ![i] = t]
            /\ now' = now /\ groups' = groups
      BY <1>2 DEF WriteRow, TypeOK, TableTypes
    <2>2. rules' = [j \in DOMAIN rules \cup {i} |-> IF j = i THEN row ELSE rules[j]]
      BY <1>2, <2>1 DEF TypeOK, TableTypes
    <2>5. changed_at' = [j \in DOMAIN rules \cup {i} |-> IF j = i THEN t ELSE changed_at[j]]
      BY <1>2, <2>1 DEF TypeOK, TableTypes
    <2>3. TableTypes' /\ ScopesFit'
      <3>1. i \in RuleIds /\ row \in Row /\ (row.scope = "FARM" <=> row.group_id = None)
        BY <1>2
      <3> HIDE DEF i
      <3> QED
        BY <2>1, <2>2, <2>5, <3>1, TableWritten, Zenon
    <2>4. Finish(q) /\ Raced(q, i)
      BY <1>2 DEF WriteRow
    <2> QED
      BY <1>1, <2>3, <2>4, FinishTypes DEF TypeOK, Raced
  <1>3. CASE i \notin DOMAIN rules
    <2>1. Step(q, None) /\ UNCHANGED <<rules, changed_at, raced, now, groups>>
      BY <1>3 DEF WriteRow
    <2> QED
      BY <1>1, <2>1, StepTypes DEF TypeOK, TableTypes, ScopesFit
  <1> QED
    BY <1>2, <1>3

\* A step of a request that writes nothing.
LEMMA ReadTypes ==
  ASSUME TypeOK, ScopesFit, NEW q \in Requests, NEW r \in Request \cup {None}, Step(q, r),
         UNCHANGED <<now, rules, next_id, groups, raced, changed_at>>,
         loop' \in Requests \cup {None}
  PROVE  TypeOK' /\ ScopesFit'
  BY StepTypes DEF TypeOK, TableTypes, ScopesFit

LEMMA TypesKept ==
  ASSUME TypeOK, ScopesFit, RequestsFit, [Next]_vars
  PROVE  TypeOK' /\ ScopesFit'
  <1>1. CASE Tick
    BY <1>1 DEF Tick, TypeOK, TableTypes, ScopesFit
  <1>2. ASSUME NEW q \in Requests, NEW n \in Bodies, Create(q, n)
        PROVE  TypeOK' /\ ScopesFit'
    <2>1. NewRequest("create", None, "group", None, n) \in Request
      BY RuleStoreAssumption, NewRequestTypes
    <2> QED
      BY <1>2, <2>1, ReadTypes DEF Create
  <1>3. ASSUME NEW q \in Requests, NEW n \in Bodies, UpdateBody(q, n)
        PROVE  TypeOK' /\ ScopesFit'
    <2>1. req[q] \in Request /\ req[q].pc = "body" /\ n \in Normalized
      BY <1>3, RuleStoreAssumption DEF UpdateBody, TypeOK
    <2>2. [req[q] EXCEPT !.pc = "group", !.new = n] \in Request
      BY <2>1, RequestTypes
    <2> QED
      BY <1>3, <2>2, ReadTypes DEF UpdateBody
  <1>4. ASSUME NEW q \in Requests, NEW i \in RuleIds, Update(q, i)
        PROVE  TypeOK' /\ ScopesFit'
    <2>1. rules[i] \in Row
      BY <1>4 DEF Update, TypeOK, TableTypes
    <2>2. NewRequest("update", i, "body", rules[i], None) \in Request
      BY <2>1, NewRequestTypes
    <2>3. loop' \in Requests \cup {None}
      BY <1>4 DEF Update, TypeOK
    <2> QED
      BY <1>4, <2>2, <2>3, ReadTypes DEF Update
  <1>5. ASSUME NEW q \in Requests, NEW i \in RuleIds, Toggle(q, i)
        PROVE  TypeOK' /\ ScopesFit'
    <2> DEFINE row == rules[i]
               n == [Without(row) EXCEPT !.enabled = ~row.enabled]
               pc == IF row.enabled THEN "write" ELSE "group"
    <2>1. row \in Row /\ n \in Normalized
      BY <1>5, BodyOfRow DEF Toggle, TypeOK, TableTypes, ScopesFit
    <2>2. pc \in Checked
      BY DEF Checked
    <2>3. Step(q, NewRequest("toggle", i, pc, row, n))
      BY <1>5 DEF Toggle
    <2>4. /\ UNCHANGED <<now, rules, next_id, groups, raced, changed_at>>
          /\ loop' \in Requests \cup {None}
      BY <1>5 DEF Toggle, TypeOK
    <2> HIDE DEF row, n, pc
    <2>5. NewRequest("toggle", i, pc, row, n) \in Request
      BY <2>1, <2>2, NewRequestTypes
    <2> QED
      BY <2>3, <2>4, <2>5, ReadTypes
  <1>6. ASSUME NEW q \in Requests, Refuse(q)
        PROVE  TypeOK' /\ ScopesFit'
    <2>1. loop' \in Requests \cup {None}
      BY <1>6 DEF Refuse, TypeOK
    <2> QED
      BY <1>6, <2>1, ReadTypes DEF Refuse
  <1>7. ASSUME NEW q \in Requests, req[q] # None, req[q].pc \in Checked,
               NEW pc \in Checked, Step(q, [req[q] EXCEPT !.pc = pc]),
               UNCHANGED <<now, rules, next_id, groups, loop, raced, changed_at>>
        PROVE  TypeOK' /\ ScopesFit'
    <2>1. req[q] \in Request /\ loop' \in Requests \cup {None}
      BY <1>7 DEF TypeOK
    <2>2. [req[q] EXCEPT !.pc = pc] \in Request
      BY <1>7, <2>1, RequestTypes
    <2> QED
      BY <1>7, <2>1, <2>2, ReadTypes
  <1>8. ASSUME NEW q \in Requests, CheckGroup(q)
        PROVE  TypeOK' /\ ScopesFit'
    BY <1>6, <1>7, <1>8 DEF CheckGroup, Checked
  <1>9. ASSUME NEW q \in Requests, CheckConflict(q)
        PROVE  TypeOK' /\ ScopesFit'
    BY <1>6, <1>7, <1>9 DEF CheckConflict, Checked
  <1>10. ASSUME NEW q \in Requests, create_schedule_rule(q)
         PROVE  TypeOK' /\ ScopesFit'
    <2> DEFINE i == next_id + 1
               row == WithEffectiveFrom(req[q].new, now)
    <2>1. req[q].new \in Normalized /\ i \in RuleIds /\ now \in Instants
      BY <1>10, WriterHasBody DEF create_schedule_rule, Checked, RequestsFit, OwnFits, TypeOK,
                            TableTypes
    <2>2. row \in Row /\ (row.scope = "FARM" <=> row.group_id = None)
      BY <2>1, RowOfBody
    <2>3. /\ rules' = [j \in DOMAIN rules \cup {i} |-> IF j = i THEN row ELSE rules[j]]
          /\ changed_at' = [j \in DOMAIN rules \cup {i} |-> IF j = i THEN now ELSE changed_at[j]]
          /\ now' = now /\ groups' = groups
      BY <1>10 DEF create_schedule_rule
    <2>4. Finish(q) /\ Raced(q, i) /\ loop' = None /\ next_id' \in Nat
      BY <1>10 DEF create_schedule_rule, TypeOK
    <2>5. TableTypes' /\ ScopesFit'
      <3> HIDE DEF i, row
      <3> QED
        BY <2>1, <2>2, <2>3, TableWritten, Zenon
    <2> QED
      BY <2>1, <2>4, <2>5, FinishTypes DEF TypeOK, Raced
  <1>11. ASSUME NEW q \in Requests, update_schedule_rule(q)
         PROVE  TypeOK' /\ ScopesFit'
    <2>1. /\ req[q].new \in Normalized /\ req[q].id \in RuleIds
          /\ req[q].row.effective_from \in Instants /\ now \in Instants
      BY <1>11, WriterHasBody DEF update_schedule_rule, Checked, Row, TypeOK, TableTypes
    <2>2. PICK t \in Instants : WriteRow(q, WithEffectiveFrom(req[q].new, t))
      BY <1>11, <2>1 DEF update_schedule_rule
    <2>3. req[q] # None
      BY <1>11 DEF update_schedule_rule
    <2> QED
      BY <2>1, <2>2, <2>3, RowOfBody, RowWritten
  <1>12. ASSUME NEW q \in Requests, set_schedule_rule_enabled(q)
         PROVE  TypeOK' /\ ScopesFit'
    <2> DEFINE i == req[q].id
    <2>1. /\ req[q] # None /\ req[q].new \in Normalized /\ i \in RuleIds
          /\ req[q].row.effective_from \in Instants /\ now \in Instants
      BY <1>12, WriterHasBody DEF set_schedule_rule_enabled, Checked, Row, TypeOK, TableTypes
    <2>2. PICK t \in Instants :
            WriteRow(q, IF i \notin DOMAIN rules THEN None
                        ELSE [rules[i] EXCEPT !.enabled = req[q].new.enabled,
                                              !.effective_from = t])
      BY <1>12, <2>1 DEF set_schedule_rule_enabled
    <2>3. ASSUME i \in DOMAIN rules
          PROVE  LET row == [rules[i] EXCEPT !.enabled = req[q].new.enabled,
                                              !.effective_from = t]
                 IN  row \in Row /\ (row.scope = "FARM" <=> row.group_id = None)
      <3>1. rules[i] \in Row /\ (rules[i].scope = "FARM" <=> rules[i].group_id = None)
        BY <2>3 DEF TypeOK, TableTypes, ScopesFit
      <3>2. req[q].new.enabled \in BOOLEAN
        BY <2>1 DEF Normalized
      <3> QED
        BY <3>1, <3>2, RowToggled, Zenon
    <2> QED
      BY <2>1, <2>2, <2>3, RowWritten
  <1>13. ASSUME NEW q \in Requests, NEW g \in Groups, count_group_schedule_rules(q, g)
         PROVE  TypeOK' /\ ScopesFit'
    <2>1. NewRequest("group", g, "delete", None, None) \in Request
      BY NewRequestTypes
    <2>2. loop' \in Requests \cup {None}
      BY <1>13 DEF count_group_schedule_rules, TypeOK
    <2> QED
      BY <1>13, <2>1, <2>2, ReadTypes DEF count_group_schedule_rules
  <1>14. ASSUME NEW q \in Requests, delete_group(q)
         PROVE  TypeOK' /\ ScopesFit'
    BY <1>14, FinishTypes DEF delete_group, TypeOK, TableTypes, ScopesFit
  <1>15. ASSUME NEW i \in RuleIds, delete_schedule_rule(i)
         PROVE  TypeOK' /\ ScopesFit'
    <2>1. req' \in [Requests -> Request \cup {None}]
      <3>1. \A p \in Requests : req[p] # None => [req[p] EXCEPT !.dirty = TRUE] \in Request
        BY RequestTypes DEF TypeOK
      <3> QED
        BY <1>15, <3>1 DEF delete_schedule_rule
    <2>2. TableTypes' /\ ScopesFit'
      BY <1>15 DEF delete_schedule_rule, TypeOK, TableTypes, ScopesFit
    <2> QED
      BY <1>15, <2>1, <2>2 DEF delete_schedule_rule, TypeOK
  <1>16. CASE UNCHANGED vars
    BY <1>16 DEF vars, TypeOK, TableTypes, ScopesFit
  <1> QED
    BY <1>1, <1>2, <1>3, <1>4, <1>5, <1>8, <1>9, <1>10, <1>11, <1>12, <1>13, <1>14,
       <1>15, <1>16 DEF Next

-----------------------------------------------------------------------------
(* What a request knows stays true until another one writes                *)

\* The write of q, or of nobody's request, marks the requests it overtakes.
Overtaken(q) ==
  \A p \in Requests :
    \/ req'[p] = None
    \/ /\ p # q /\ req[p] # None
       /\ req'[p] = [req[p] EXCEPT !.dirty = TRUE]

\* Requests that are overtaken keep what concerns themselves alone.
LEMMA OvertakenFit ==
  ASSUME TypeOK, RequestsFit, NEW q, Overtaken(q),
         loop' = loop \/ loop = q,
         next_id' = next_id \/ loop = q
  PROVE  RequestsFit'
  <1> SUFFICES ASSUME NEW p \in Requests, req'[p] # None
               PROVE  OwnFits(p, req[p])' /\ req'[p].dirty
    BY DEF RequestsFit
  <1>1. /\ p # q /\ req[p] # None /\ req[p] \in Request
        /\ req'[p] = [req[p] EXCEPT !.dirty = TRUE]
    BY DEF Overtaken, TypeOK
  <1>2. /\ req'[p].dirty
        /\ req'[p].kind = req[p].kind /\ req'[p].row = req[p].row /\ req'[p].new = req[p].new
    BY <1>1 DEF Request, Creation, AwaitsBody, Change, GroupDeletion
  <1>3. OwnFits(p, req[p])
    BY <1>1 DEF RequestsFit
  <1> QED
    BY <1>1, <1>2, <1>3 DEF OwnFits

\* In a step that writes nothing, the requests other than q are as they were;
\* what q knows has to be shown.
LEMMA ReadFit ==
  ASSUME TypeOK, RequestsFit, NEW q \in Requests, NEW r, Step(q, r),
         UNCHANGED <<rules, next_id, groups>>,
         loop' = loop \/ loop \in {q, None},
         r # None => OwnFits(q, r)' /\ (r.dirty \/ ReadFits(r))
  PROVE  RequestsFit'
  <1> SUFFICES ASSUME NEW p \in Requests, req'[p] # None
               PROVE  OwnFits(p, req[p])' /\ (req[p].dirty \/ ReadFits(req[p]))'
    BY DEF RequestsFit
  <1>1. \A x : ReadFits(x)' <=> ReadFits(x)
    BY DEF ReadFits, schedule_conflicting_rule
  <1>2. CASE p = q
    <2>1. req'[p] = r
      BY <1>2 DEF Step, TypeOK
    <2> QED
      BY <1>1, <1>2, <2>1 DEF OwnFits, ReadFits, schedule_conflicting_rule
  <1>3. CASE p # q
    <2>1. req'[p] = req[p]
      BY <1>3 DEF Step, TypeOK
    <2>2. OwnFits(p, req[p]) /\ (req[p].dirty \/ ReadFits(req[p]))
      BY <2>1 DEF RequestsFit
    <2>3. (req[p].dirty \/ ReadFits(req[p]))'
      BY <2>1, <2>2 DEF ReadFits, schedule_conflicting_rule
    <2>4. OwnFits(p, req[p])'
      BY <1>3, <2>1, <2>2, RuleStoreAssumption DEF OwnFits
    <2> QED
      BY <2>3, <2>4
  <1> QED
    BY <1>2, <1>3

\* Finish(q) marks the requests that it overtakes.
LEMMA FinishOvertakes ==
  ASSUME NEW q, Finish(q)
  PROVE  Overtaken(q)
  BY DEF Finish, Overtaken

LEMMA WriteRowFits ==
  ASSUME TypeOK, RequestsFit, NEW q \in Requests, NEW row, WriteRow(q, row)
  PROVE  RequestsFit'
  <1>1. loop' = loop \/ loop = q
    BY DEF WriteRow
  <1>2. next_id' = next_id /\ groups' = groups
    BY DEF WriteRow
  <1>3. CASE req[q].id \in DOMAIN rules
    <2>1. Overtaken(q)
      BY <1>3, FinishOvertakes DEF WriteRow
    <2> QED
      BY <1>1, <1>2, <2>1, OvertakenFit
  <1>4. CASE req[q].id \notin DOMAIN rules
    <2>1. Step(q, None) /\ rules' = rules
      BY <1>4 DEF WriteRow
    <2>2. loop' = loop \/ loop \in {q, None}
      BY <1>1
    <2> QED
      BY <1>2, <2>1, <2>2, ReadFit
  <1> QED
    BY <1>3, <1>4

LEMMA RequestsKept ==
  ASSUME TypeOK, RequestsFit, [Next]_vars
  PROVE  RequestsFit'
  <1>1. CASE UNCHANGED <<rules, next_id, groups, loop, req>>
    <2> SUFFICES ASSUME NEW q \in Requests, req[q] # None
                 PROVE  OwnFits(q, req[q])' /\ (req[q].dirty \/ ReadFits(req[q]))'
      BY <1>1 DEF RequestsFit
    <2>1. OwnFits(q, req[q]) /\ (req[q].dirty \/ ReadFits(req[q]))
      BY DEF RequestsFit
    <2> QED
      BY <1>1, <2>1 DEF OwnFits, ReadFits, schedule_conflicting_rule
  <1>2. ASSUME NEW q \in Requests, NEW n \in Bodies, Create(q, n)
        PROVE  RequestsFit'
    <2>1. PICK r : r = NewRequest("create", None, "group", None, n)
      OBVIOUS
    <2>2. OwnFits(q, r)' /\ ReadFits(r)
      BY <1>2, <2>1 DEF Create, OwnFits, ReadFits, NewRequest
    <2> QED
      BY <1>2, <2>1, <2>2, ReadFit DEF Create
  <1>3. ASSUME NEW q \in Requests, NEW n \in Bodies, UpdateBody(q, n)
        PROVE  RequestsFit'
    <2>1. PICK r : r = [req[q] EXCEPT !.pc = "group", !.new = n]
      OBVIOUS
    <2>2. /\ req[q] \in AwaitsBody
          /\ req[q].dirty \/ ReadFits(req[q])
      BY <1>3, RequestTypes DEF UpdateBody, TypeOK, RequestsFit
    <2>3. /\ r.kind = "update" /\ r.pc = "group" /\ r.id = req[q].id /\ r.row = req[q].row
          /\ r.dirty = req[q].dirty /\ req[q].kind = "update"
      BY <2>1, <2>2 DEF AwaitsBody
    <2>4. OwnFits(q, r)' /\ (r.dirty \/ ReadFits(r))
      BY <2>2, <2>3 DEF OwnFits, ReadFits
    <2> QED
      BY <1>3, <2>1, <2>4, ReadFit DEF UpdateBody
  <1>4. ASSUME NEW q \in Requests, NEW i \in RuleIds, Update(q, i)
        PROVE  RequestsFit'
    <2>1. PICK r : r = NewRequest("update", i, "body", rules[i], None)
      OBVIOUS
    <2>2. OwnFits(q, r)' /\ ReadFits(r)
      BY <1>4, <2>1 DEF Update, OwnFits, ReadFits, NewRequest
    <2> QED
      BY <1>4, <2>1, <2>2, ReadFit DEF Update
  <1>5. ASSUME NEW q \in Requests, NEW i \in RuleIds, Toggle(q, i)
        PROVE  RequestsFit'
    <2>1. PICK r : r = NewRequest("toggle", i, IF rules[i].enabled THEN "write" ELSE "group",
                                  rules[i],
                                  [Without(rules[i]) EXCEPT !.enabled = ~rules[i].enabled])
      OBVIOUS
    <2>2. /\ r.kind = "toggle" /\ r.id = i /\ r.row = rules[i] /\ i \in DOMAIN rules
          /\ r.pc = IF rules[i].enabled THEN "write" ELSE "group"
          /\ r.new = [Without(rules[i]) EXCEPT !.enabled = ~rules[i].enabled]
      BY <1>5, <2>1 DEF NewRequest, Toggle
    <2>3. r.pc = "write" => schedule_conflicting_rule(r.new, Except(r)) = {}
      <3>1. r.pc = "write" => rules[i].enabled
        BY <2>2
      <3>2. r.new.enabled = ~rules[i].enabled
        BY <2>2 DEF Without
      <3> QED
        BY <3>1, <3>2 DEF schedule_conflicting_rule
    <2>4. OwnFits(q, r)' /\ ReadFits(r)
      BY <2>2, <2>3 DEF OwnFits, ReadFits
    <2> QED
      BY <1>5, <2>1, <2>4, ReadFit DEF Toggle
  <1>6. ASSUME NEW q \in Requests, Refuse(q)
        PROVE  RequestsFit'
    <2>1. loop' = loop \/ loop \in {q, None}
      BY <1>6 DEF Refuse
    <2> QED
      BY <1>6, <2>1, ReadFit DEF Refuse
  <1>7. ASSUME NEW q \in Requests, CheckGroup(q)
        PROVE  RequestsFit'
    <2>1. CASE Refuse(q)
      BY <1>6, <2>1
    <2>2. CASE ~Refuse(q)
      <3>1. PICK r : r = [req[q] EXCEPT !.pc = "conflict"]
        OBVIOUS
      <3>2. /\ req[q] \in Request /\ req[q].pc = "group" /\ OwnFits(q, req[q])
            /\ req[q].dirty \/ ReadFits(req[q])
            /\ req[q].new.group_id \in groups \cup {None}
            /\ Step(q, r) /\ UNCHANGED <<now, rules, next_id, groups, loop, raced, changed_at>>
        BY <1>7, <2>2, <3>1 DEF CheckGroup, TypeOK, RequestsFit
      <3>3. /\ r.kind = req[q].kind /\ r.pc = "conflict" /\ r.id = req[q].id
            /\ r.row = req[q].row /\ r.new = req[q].new /\ r.dirty = req[q].dirty
        BY <3>1, <3>2 DEF Request, Creation, AwaitsBody, Change, GroupDeletion
      <3>4. OwnFits(q, r)' /\ (r.dirty \/ ReadFits(r))
        BY <3>2, <3>3 DEF OwnFits, ReadFits
      <3> QED
        BY <3>2, <3>4, ReadFit
    <2> QED
      BY <2>1, <2>2
  <1>8. ASSUME NEW q \in Requests, CheckConflict(q)
        PROVE  RequestsFit'
    <2>1. CASE Refuse(q)
      BY <1>6, <2>1
    <2>2. CASE ~Refuse(q)
      <3>1. PICK r : r = [req[q] EXCEPT !.pc = "write"]
        OBVIOUS
      <3>2. /\ req[q] \in Request /\ req[q].pc = "conflict" /\ OwnFits(q, req[q])
            /\ req[q].dirty \/ ReadFits(req[q])
            /\ schedule_conflicting_rule(req[q].new, Except(req[q])) = {}
            /\ Step(q, r) /\ UNCHANGED <<now, rules, next_id, groups, loop, raced, changed_at>>
        BY <1>8, <2>2, <3>1 DEF CheckConflict, TypeOK, RequestsFit, Except
      <3>3. /\ r.kind = req[q].kind /\ r.pc = "write" /\ r.id = req[q].id
            /\ r.row = req[q].row /\ r.new = req[q].new /\ r.dirty = req[q].dirty
        BY <3>1, <3>2 DEF Request, Creation, AwaitsBody, Change, GroupDeletion
      <3>4. Except(r) = Except(req[q])
        BY <3>3 DEF Except
      <3>5. OwnFits(q, r)' /\ (r.dirty \/ ReadFits(r))
        BY <3>2, <3>3, <3>4 DEF OwnFits, ReadFits
      <3> QED
        BY <3>2, <3>5, ReadFit
    <2> QED
      BY <2>1, <2>2
  <1>9. ASSUME NEW q \in Requests, create_schedule_rule(q)
        PROVE  RequestsFit'
    <2>1. loop = q
      BY <1>9 DEF create_schedule_rule, RequestsFit, OwnFits
    <2>2. Overtaken(q)
      BY <1>9, FinishOvertakes DEF create_schedule_rule
    <2> QED
      BY <2>1, <2>2, OvertakenFit
  <1>10. ASSUME NEW q \in Requests, update_schedule_rule(q) \/ set_schedule_rule_enabled(q)
         PROVE  RequestsFit'
    <2>1. \E row : WriteRow(q, row)
      BY <1>10 DEF update_schedule_rule, set_schedule_rule_enabled
    <2> QED
      BY <2>1, WriteRowFits
  <1>11. ASSUME NEW q \in Requests, NEW g \in Groups, count_group_schedule_rules(q, g)
         PROVE  RequestsFit'
    <2>1. PICK r : r = NewRequest("group", g, "delete", None, None)
      OBVIOUS
    <2>2. OwnFits(q, r)' /\ ReadFits(r)
      BY <1>11, <2>1 DEF count_group_schedule_rules, OwnFits, ReadFits, NewRequest
    <2> QED
      BY <1>11, <2>1, <2>2, ReadFit DEF count_group_schedule_rules
  <1>12. ASSUME NEW q \in Requests, delete_group(q)
         PROVE  RequestsFit'
    BY <1>12, FinishOvertakes, OvertakenFit DEF delete_group
  <1>13. ASSUME NEW i \in RuleIds, delete_schedule_rule(i)
         PROVE  RequestsFit'
    <2>1. PICK q : q \notin Requests
      BY RuleStoreAssumption
    <2>2. Overtaken(q)
      BY <1>13, <2>1 DEF delete_schedule_rule, Overtaken
    <2> QED
      BY <1>13, <2>2, OvertakenFit DEF delete_schedule_rule
  <1> QED
    BY <1>1, <1>2, <1>3, <1>4, <1>5, <1>7, <1>8, <1>9, <1>10, <1>11, <1>12, <1>13
       DEF Next, Tick, vars

-----------------------------------------------------------------------------
(* What a write does to the table                                          *)

\* Rows other than i stay as they are; i itself is written by a request that
\* nobody overtook, or is among the rows that were raced for.
WritesRow(i) ==
  /\ DOMAIN rules' = DOMAIN rules \cup {i}
  /\ \A j \in DOMAIN rules \ {i} : rules'[j] = rules[j] /\ changed_at'[j] = changed_at[j]
  /\ raced \subseteq raced' /\ groups' = groups /\ now' = now

\* The write of a row, by a request that was not overtaken.
CleanWrite(q, i) ==
  /\ WritesRow(i)
  /\ ~req[q].dirty /\ ReadFits(req[q]) /\ OwnFits(q, req[q]) /\ req[q].pc = "write"
  /\ \/ /\ create_schedule_rule(q) /\ req[q].id = None /\ req[q].kind = "create"
        /\ rules'[i] = WithEffectiveFrom(req[q].new, now) /\ changed_at'[i] = now
     \/ /\ req[q].id = i /\ i \in DOMAIN rules /\ rules[i] = req[q].row
        /\ changed_at'[i] = IF schedule_changed(rules[i], rules'[i]) THEN now
                            ELSE changed_at[i]
        /\ \/ /\ req[q].kind = "update"
              /\ rules'[i] = WithEffectiveFrom(req[q].new,
                   IF req[q].new.enabled /\ schedule_changed(req[q].row, req[q].new)
                   THEN now ELSE req[q].row.effective_from)
           \/ /\ req[q].kind = "toggle"
              /\ rules'[i] = [rules[i] EXCEPT
                   !.enabled = req[q].new.enabled,
                   !.effective_from = IF req[q].new.enabled THEN now
                                      ELSE req[q].row.effective_from]

TableSame ==
  UNCHANGED <<rules, changed_at, groups, raced>> /\ now' \in Int /\ now <= now'

\* The four things that a step can do to the table.
LEMMA TableSteps ==
  ASSUME TypeOK, RequestsFit, PastChanges, [Next]_vars
  PROVE  \/ TableSame
         \/ \E i \in RuleIds : WritesRow(i) /\ i \in raced' /\ changed_at'[i] <= now
         \/ \E q \in Requests, i \in RuleIds : CleanWrite(q, i)
         \/ \E i \in RuleIds : delete_schedule_rule(i)
         \/ \E q \in Requests : delete_group(q)
  <1>0. now \in Int /\ now <= now
    BY RuleStoreAssumption DEF TypeOK, TableTypes
  <1>1. ASSUME UNCHANGED <<rules, changed_at, groups, raced, now>> PROVE TableSame
    BY <1>0, <1>1 DEF TableSame
  <1>2. ASSUME Tick PROVE TableSame
    BY <1>2, RuleStoreAssumption DEF Tick, TableSame, TypeOK, TableTypes
  <1>3. ASSUME NEW q \in Requests, create_schedule_rule(q)
        PROVE  LET i == next_id + 1
               IN  /\ i \in RuleIds
                   /\ \/ WritesRow(i) /\ i \in raced' /\ changed_at'[i] <= now
                      \/ CleanWrite(q, i)
    <2> DEFINE i == next_id + 1
    <2>1. /\ req[q] # None /\ req[q] \in Request /\ req[q].kind = "create" /\ req[q].pc = "write"
          /\ OwnFits(q, req[q]) /\ (req[q].dirty \/ ReadFits(req[q]))
      BY <1>3 DEF create_schedule_rule, TypeOK, RequestsFit
    <2>2. req[q].id = None /\ i \in RuleIds
      BY <2>1, WriterHasBody DEF Checked, OwnFits
    <2>3. /\ WritesRow(i) /\ rules'[i] = WithEffectiveFrom(req[q].new, now)
          /\ changed_at'[i] = now /\ Raced(q, i)
      BY <1>3 DEF create_schedule_rule, WritesRow, Raced
    <2> HIDE DEF i
    <2>4. CASE req[q].dirty
      BY <1>0, <2>2, <2>3, <2>4 DEF Raced, i
    <2>5. CASE ~req[q].dirty
      BY <1>3, <2>1, <2>2, <2>3, <2>5 DEF CleanWrite, i
    <2> QED
      BY <2>4, <2>5
  <1>4. ASSUME NEW q \in Requests, NEW row, WriteRow(q, row), req[q].id \in DOMAIN rules
        PROVE  LET i == req[q].id
               IN  /\ i \in RuleIds /\ WritesRow(i) /\ Raced(q, i)
                   /\ rules'[i] = row
                   /\ changed_at'[i] = IF schedule_changed(rules[i], row) THEN now
                                       ELSE changed_at[i]
    BY <1>4 DEF WriteRow, WritesRow, Raced, TypeOK, TableTypes
  <1>5. ASSUME NEW q \in Requests, NEW row, WriteRow(q, row), req[q].id \notin DOMAIN rules
        PROVE  TableSame
    <2>1. UNCHANGED <<rules, changed_at, groups, raced, now>>
      BY <1>5 DEF WriteRow
    <2> QED
      BY <1>1, <2>1
  <1>6. ASSUME NEW q \in Requests, update_schedule_rule(q)
        PROVE  \/ TableSame
               \/ \E i \in RuleIds : WritesRow(i) /\ i \in raced' /\ changed_at'[i] <= now
               \/ \E i \in RuleIds : CleanWrite(q, i)
    <2> DEFINE i == req[q].id
               row == WithEffectiveFrom(req[q].new,
                        IF req[q].new.enabled /\ schedule_changed(req[q].row, req[q].new)
                        THEN now ELSE req[q].row.effective_from)
    <2>1. /\ req[q].kind = "update" /\ req[q].pc = "write"
          /\ OwnFits(q, req[q]) /\ (req[q].dirty \/ ReadFits(req[q]))
          /\ WriteRow(q, row)
      BY <1>6 DEF update_schedule_rule, RequestsFit
    <2> HIDE DEF row
    <2>2. CASE i \notin DOMAIN rules
      BY <1>5, <2>1, <2>2
    <2>3. CASE i \in DOMAIN rules
      <3>1. /\ i \in RuleIds /\ WritesRow(i) /\ Raced(q, i) /\ rules'[i] = row
            /\ changed_at'[i] = IF schedule_changed(rules[i], row) THEN now ELSE changed_at[i]
        BY <1>4, <2>1, <2>3
      <3>2. CASE req[q].dirty
        BY <1>0, <2>3, <3>1, <3>2 DEF Raced, PastChanges
      <3>3. CASE ~req[q].dirty
        <4>1. ReadFits(req[q]) /\ rules[i] = req[q].row
          BY <2>1, <3>3 DEF ReadFits
        <4> QED
          BY <2>1, <2>3, <3>1, <3>3, <4>1 DEF CleanWrite, row
      <3> QED
        BY <3>2, <3>3
    <2> QED
      BY <2>2, <2>3
  <1>7. ASSUME NEW q \in Requests, set_schedule_rule_enabled(q)
        PROVE  \/ TableSame
               \/ \E i \in RuleIds : WritesRow(i) /\ i \in raced' /\ changed_at'[i] <= now
               \/ \E i \in RuleIds : CleanWrite(q, i)
    <2> DEFINE i == req[q].id
               row == [rules[i] EXCEPT
                         !.enabled = req[q].new.enabled,
                         !.effective_from = IF req[q].new.enabled THEN now
                                            ELSE req[q].row.effective_from]
    <2>1. /\ req[q].kind = "toggle" /\ req[q].pc = "write"
          /\ OwnFits(q, req[q]) /\ (req[q].dirty \/ ReadFits(req[q]))
          /\ WriteRow(q, IF i \notin DOMAIN rules THEN None ELSE row)
      BY <1>7 DEF set_schedule_rule_enabled, RequestsFit
    <2> HIDE DEF row
    <2>2. CASE i \notin DOMAIN rules
      BY <1>5, <2>1, <2>2
    <2>3. CASE i \in DOMAIN rules
      <3>1. /\ i \in RuleIds /\ WritesRow(i) /\ Raced(q, i) /\ rules'[i] = row
            /\ changed_at'[i] = IF schedule_changed(rules[i], row) THEN now ELSE changed_at[i]
        BY <1>4, <2>1, <2>3
      <3>2. CASE req[q].dirty
        BY <1>0, <2>3, <3>1, <3>2 DEF Raced, PastChanges
      <3>3. CASE ~req[q].dirty
        <4>1. ReadFits(req[q]) /\ rules[i] = req[q].row
          BY <2>1, <3>3 DEF ReadFits
        <4> QED
          BY <2>1, <2>3, <3>1, <3>3, <4>1 DEF CleanWrite, row
      <3> QED
        BY <3>2, <3>3
    <2> QED
      BY <2>2, <2>3
  <1>8. ASSUME NEW q \in Requests,
               \/ \E n \in Bodies : Create(q, n) \/ UpdateBody(q, n)
               \/ \E i \in RuleIds : Update(q, i) \/ Toggle(q, i)
               \/ CheckGroup(q) \/ CheckConflict(q)
               \/ \E g \in Groups : count_group_schedule_rules(q, g)
        PROVE  TableSame
    BY <1>1, <1>8 DEF Create, UpdateBody, Update, Toggle, CheckGroup, CheckConflict, Refuse,
                      count_group_schedule_rules
  <1>9. CASE UNCHANGED vars
    BY <1>1, <1>9 DEF vars
  <1> QED
    BY <1>2, <1>3, <1>6, <1>7, <1>8, <1>9 DEF Next

-----------------------------------------------------------------------------
(* The properties                                                          *)

LEMMA PastChangesKept ==
  ASSUME TypeOK, RequestsFit, PastChanges, [Next]_vars
  PROVE  PastChanges'
  <1>0. /\ now \in Int /\ now <= now
        /\ \A i \in DOMAIN rules : changed_at[i] \in Int /\ changed_at[i] <= now
    BY RuleStoreAssumption DEF TypeOK, TableTypes, PastChanges
  <1>1. CASE TableSame
    BY <1>0, <1>1 DEF TableSame, PastChanges
  <1>2. ASSUME NEW i \in RuleIds, WritesRow(i), changed_at'[i] <= now
        PROVE  PastChanges'
    BY <1>0, <1>2 DEF WritesRow, PastChanges
  <1>3. ASSUME NEW q \in Requests, NEW i \in RuleIds, CleanWrite(q, i)
        PROVE  PastChanges'
    <2>1. changed_at'[i] <= now
      BY <1>0, <1>3 DEF CleanWrite
    <2> QED
      BY <1>2, <1>3, <2>1 DEF CleanWrite
  <1>4. ASSUME NEW i \in RuleIds, delete_schedule_rule(i)
        PROVE  PastChanges'
    BY <1>0, <1>4 DEF delete_schedule_rule, PastChanges
  <1>5. ASSUME NEW q \in Requests, delete_group(q)
        PROVE  PastChanges'
    BY <1>0, <1>5 DEF delete_group, PastChanges
  <1> QED
    BY <1>1, <1>2, <1>3, <1>4, <1>5, TableSteps

\* A request that was not overtaken writes what it checked.
LEMMA CleanRow ==
  ASSUME TypeOK, NEW q \in Requests, NEW i \in RuleIds, CleanWrite(q, i)
  PROVE  LET r == rules'[i]  n == req[q].new
         IN  /\ r.enabled = n.enabled
             /\ r.time_minutes = n.time_minutes /\ r.days = n.days
             /\ r.scope = n.scope /\ r.group_id = n.group_id
  <1> DEFINE r == rules'[i]
             n == req[q].new
  <1>1. ASSUME NEW t, r = WithEffectiveFrom(n, t)
        PROVE  /\ r.enabled = n.enabled
               /\ r.time_minutes = n.time_minutes /\ r.days = n.days
               /\ r.scope = n.scope /\ r.group_id = n.group_id
    BY <1>1 DEF WithEffectiveFrom
  <1>2. CASE req[q].kind = "toggle"
    <2>1. /\ i \in DOMAIN rules /\ rules[i] \in Row /\ req[q].row = rules[i]
          /\ n = [Without(req[q].row) EXCEPT !.enabled = ~req[q].row.enabled]
          /\ \E t : r = [rules[i] EXCEPT !.enabled = n.enabled, !.effective_from = t]
      BY <1>2 DEF CleanWrite, OwnFits, TypeOK, TableTypes
    <2>2. /\ n.time_minutes = rules[i].time_minutes /\ n.days = rules[i].days
          /\ n.scope = rules[i].scope /\ n.group_id = rules[i].group_id
      BY <2>1 DEF Without
    <2>3. /\ r.enabled = n.enabled
          /\ r.time_minutes = rules[i].time_minutes /\ r.days = rules[i].days
          /\ r.scope = rules[i].scope /\ r.group_id = rules[i].group_id
      <3> HIDE DEF n
      <3> QED
        BY <2>1 DEF Row
    <2> QED
      BY <2>2, <2>3
  <1>3. CASE req[q].kind # "toggle"
    BY <1>1, <1>3 DEF CleanWrite
  <1> QED
    BY <1>2, <1>3

LEMMA ConflictsKept ==
  ASSUME TypeOK, RequestsFit, PastChanges, ConflictsOnlyFromRaces, [Next]_vars
  PROVE  ConflictsOnlyFromRaces'
  <1>1. ASSUME NEW i \in RuleIds, WritesRow(i),
               i \in raced' \/ \A j \in DOMAIN rules \ {i} : ~Conflict(i, j)' /\ ~Conflict(j, i)'
        PROVE  ConflictsOnlyFromRaces'
    <2> SUFFICES ASSUME NEW a \in DOMAIN rules', NEW b \in DOMAIN rules', Conflict(a, b)',
                        a \notin raced', b \notin raced'
                 PROVE  FALSE
      BY DEF ConflictsOnlyFromRaces
    <2>1. a # b
      BY DEF Conflict
    <2>2. a # i /\ b # i
      BY <1>1, <2>1 DEF WritesRow
    <2>3. /\ a \in DOMAIN rules /\ b \in DOMAIN rules
          /\ rules'[a] = rules[a] /\ rules'[b] = rules[b]
          /\ a \notin raced /\ b \notin raced
      BY <1>1, <2>2 DEF WritesRow
    <2> QED
      BY <2>3 DEF ConflictsOnlyFromRaces, Conflict
  <1>2. ASSUME NEW q \in Requests, NEW i \in RuleIds, CleanWrite(q, i)
        PROVE  ConflictsOnlyFromRaces'
    <2>1. ASSUME NEW j \in DOMAIN rules \ {i}, Conflict(i, j)' \/ Conflict(j, i)'
          PROVE  FALSE
      <3> DEFINE n == req[q].new
      <3>1. /\ rules'[j] = rules[j]
            /\ rules'[i].enabled /\ rules[j].enabled
            /\ Overlap(rules[j], rules'[i])
            /\ rules[j].scope = rules'[i].scope /\ rules[j].group_id = rules'[i].group_id
        BY <1>2, <2>1 DEF CleanWrite, WritesRow, Conflict, Overlap
      <3>2. /\ n.enabled /\ Overlap(rules[j], n)
            /\ rules[j].scope = n.scope /\ rules[j].group_id = n.group_id
        BY <1>2, <3>1, CleanRow DEF Overlap
      <3>3. j \notin Except(req[q])
        BY <1>2 DEF Except, CleanWrite
      <3>4. schedule_conflicting_rule(n, Except(req[q])) = {}
        BY <1>2 DEF CleanWrite, ReadFits
      <3> HIDE DEF n
      <3> QED
        BY <3>1, <3>2, <3>3, <3>4 DEF schedule_conflicting_rule
    <2> QED
      BY <1>1, <1>2, <2>1 DEF CleanWrite
  <1>3. CASE TableSame
    BY <1>3 DEF TableSame, ConflictsOnlyFromRaces, Conflict
  <1>4. ASSUME NEW i \in RuleIds, delete_schedule_rule(i)
        PROVE  ConflictsOnlyFromRaces'
    <2>1. /\ DOMAIN rules' = DOMAIN rules \ {i} /\ raced' = raced \ {i}
          /\ \A j \in DOMAIN rules' : rules'[j] = rules[j]
      BY <1>4 DEF delete_schedule_rule
    <2> QED
      BY <2>1 DEF ConflictsOnlyFromRaces, Conflict
  <1>5. ASSUME NEW q \in Requests, delete_group(q)
        PROVE  ConflictsOnlyFromRaces'
    <2>1. rules' = rules /\ raced \subseteq raced'
      BY <1>5 DEF delete_group
    <2> QED
      BY <2>1 DEF ConflictsOnlyFromRaces, Conflict
  <1> QED
    BY <1>1, <1>2, <1>3, <1>4, <1>5, TableSteps

LEMMA EffectKept ==
  ASSUME TypeOK, RequestsFit, PastChanges, RulesAreNotRetroactive, [Next]_vars
  PROVE  RulesAreNotRetroactive'
  <1>0. /\ now \in Int
        /\ \A i \in DOMAIN rules : changed_at[i] \in Int /\ changed_at[i] <= now
    BY RuleStoreAssumption DEF TypeOK, TableTypes, PastChanges
  <1>1. ASSUME NEW i \in RuleIds, WritesRow(i),
               i \in raced' \/ (rules'[i].enabled => rules'[i].effective_from >= changed_at'[i])
        PROVE  RulesAreNotRetroactive'
    BY <1>1 DEF WritesRow, RulesAreNotRetroactive
  <1>2. ASSUME NEW q \in Requests, NEW i \in RuleIds, CleanWrite(q, i), i \notin raced',
               rules'[i].enabled
        PROVE  rules'[i].effective_from >= changed_at'[i]
    <2> DEFINE n == req[q].new
    <2>1. n.enabled
      BY <1>2, CleanRow
    <2>2. CASE req[q].kind = "create"
      BY <1>0, <1>2, <2>2 DEF CleanWrite, WithEffectiveFrom
    <2>3. CASE req[q].kind = "toggle"
      <3>1. /\ i \in DOMAIN rules /\ rules[i] \in Row
            /\ rules'[i] = [rules[i] EXCEPT
                 !.enabled = n.enabled,
                 !.effective_from = IF n.enabled THEN now ELSE req[q].row.effective_from]
            /\ changed_at'[i] = now \/ changed_at'[i] = changed_at[i]
        BY <1>2, <2>3 DEF CleanWrite, TypeOK, TableTypes
      <3>2. rules'[i].effective_from = now
        BY <2>1, <3>1 DEF Row
      <3> QED
        BY <1>0, <3>1, <3>2
    <2>4. CASE req[q].kind = "update"
      <3>1. /\ i \in DOMAIN rules /\ rules[i] = req[q].row
            /\ rules'[i] = WithEffectiveFrom(n,
                 IF n.enabled /\ schedule_changed(rules[i], n) THEN now
                 ELSE rules[i].effective_from)
            /\ changed_at'[i] = IF schedule_changed(rules[i], rules'[i]) THEN now
                                ELSE changed_at[i]
        BY <1>2, <2>4 DEF CleanWrite
      <3>2. schedule_changed(rules[i], rules'[i]) <=> schedule_changed(rules[i], n)
        BY <3>1 DEF schedule_changed, Schedule, WithEffectiveFrom
      <3>3. CASE schedule_changed(rules[i], n)
        BY <1>0, <2>1, <3>1, <3>2, <3>3 DEF WithEffectiveFrom
      <3>4. CASE ~schedule_changed(rules[i], n)
        <4>1. rules[i].enabled
          BY <2>1, <3>4 DEF schedule_changed
        <4>2. rules'[i].effective_from = rules[i].effective_from
          BY <3>1, <3>4 DEF WithEffectiveFrom
        <4>3. i \notin raced
          BY <1>2 DEF CleanWrite, WritesRow
        <4> QED
          BY <3>1, <3>2, <3>4, <4>1, <4>2, <4>3 DEF RulesAreNotRetroactive
      <3> QED
        BY <3>3, <3>4
    <2> QED
      BY <1>2, <2>2, <2>3, <2>4 DEF CleanWrite
  <1>3. CASE TableSame
    BY <1>3 DEF TableSame, RulesAreNotRetroactive
  <1>4. ASSUME NEW i \in RuleIds, delete_schedule_rule(i)
        PROVE  RulesAreNotRetroactive'
    BY <1>4 DEF delete_schedule_rule, RulesAreNotRetroactive
  <1>5. ASSUME NEW q \in Requests, delete_group(q)
        PROVE  RulesAreNotRetroactive'
    <2>1. rules' = rules /\ changed_at' = changed_at /\ raced \subseteq raced'
      BY <1>5 DEF delete_group
    <2> QED
      BY <2>1 DEF RulesAreNotRetroactive
  <1> QED
    BY <1>1, <1>2, <1>3, <1>4, <1>5, TableSteps DEF CleanWrite

LEMMA GroupsKept ==
  ASSUME TypeOK, RequestsFit, PastChanges, GroupRulesHaveTheirGroup, [Next]_vars
  PROVE  GroupRulesHaveTheirGroup'
  <1>1. ASSUME NEW i \in RuleIds, WritesRow(i),
               i \in raced' \/ rules'[i].group_id \in groups \cup {None}
        PROVE  GroupRulesHaveTheirGroup'
    BY <1>1 DEF WritesRow, GroupRulesHaveTheirGroup
  <1>2. ASSUME NEW q \in Requests, NEW i \in RuleIds, CleanWrite(q, i), i \notin raced'
        PROVE  rules'[i].group_id \in groups \cup {None}
    <2>1. CASE req[q].kind = "toggle"
      <3>1. /\ i \in DOMAIN rules /\ i \notin raced
            /\ req[q].row = rules[i]
            /\ req[q].new = [Without(req[q].row) EXCEPT !.enabled = ~req[q].row.enabled]
        BY <1>2, <2>1 DEF CleanWrite, WritesRow, OwnFits
      <3>2. req[q].new.group_id = rules[i].group_id
        BY <3>1 DEF Without
      <3>3. rules'[i].group_id = rules[i].group_id
        BY <1>2, <3>2, CleanRow
      <3> QED
        BY <3>1, <3>3 DEF GroupRulesHaveTheirGroup
    <2>2. CASE req[q].kind # "toggle"
      <3>1. req[q].new.group_id \in groups \cup {None}
        BY <1>2, <2>2 DEF CleanWrite, ReadFits
      <3> QED
        BY <1>2, <3>1, CleanRow
    <2> QED
      BY <2>1, <2>2
  <1>3. CASE TableSame
    BY <1>3 DEF TableSame, GroupRulesHaveTheirGroup
  <1>4. ASSUME NEW i \in RuleIds, delete_schedule_rule(i)
        PROVE  GroupRulesHaveTheirGroup'
    BY <1>4 DEF delete_schedule_rule, GroupRulesHaveTheirGroup
  <1>5. ASSUME NEW q \in Requests, delete_group(q)
        PROVE  GroupRulesHaveTheirGroup'
    <2>1. /\ rules' = rules /\ groups' = groups \ {req[q].id}
          /\ raced' = IF req[q].dirty
                      THEN raced \cup {i \in DOMAIN rules : rules[i].group_id = req[q].id}
                      ELSE raced
      BY <1>5 DEF delete_group
    <2>2. req[q] \in Request /\ req[q].kind = "group" /\ (req[q].dirty \/ ReadFits(req[q]))
      BY <1>5, RequestTypes DEF delete_group, TypeOK, RequestsFit
    <2>3. \A i \in DOMAIN rules' \ raced' : rules[i].group_id # req[q].id
      BY <2>1, <2>2 DEF ReadFits
    <2>4. raced \subseteq raced'
      BY <2>1
    <2> QED
      BY <2>1, <2>3, <2>4 DEF GroupRulesHaveTheirGroup
  <1> QED
    BY <1>1, <1>2, <1>3, <1>4, <1>5, TableSteps DEF CleanWrite

-----------------------------------------------------------------------------
LEMMA InductiveInvariant == Spec => []IInv
  <1>1. Init => IInv
    <2> SUFFICES ASSUME Init PROVE IInv
      OBVIOUS
    <2>1. DOMAIN rules = {} /\ DOMAIN changed_at = {}
      BY DEF Init
    <2>2. TypeOK
      BY <2>1 DEF Init, TypeOK, TableTypes
    <2> QED
      BY <2>1, <2>2 DEF Init, IInv, ScopesFit, RequestsFit, PastChanges, ConflictsOnlyFromRaces,
                        RulesAreNotRetroactive, GroupRulesHaveTheirGroup
  <1>2. IInv /\ [Next]_vars => IInv'
    BY TypesKept, RequestsKept, PastChangesKept, ConflictsKept, EffectKept, GroupsKept DEF IInv
  <1> QED
    BY <1>1, <1>2, PTL DEF Spec

\* The table holds rows that schedule_normalize_input lets through, with ids
\* that were handed out, and every request what its route puts together.
THEOREM TypeCorrect == Spec => [](TypeOK /\ ScopesFit)
  <1>1. IInv => TypeOK /\ ScopesFit
    BY DEF IInv
  <1> QED
    BY <1>1, InductiveInvariant, PTL

\* schedule_conflicting_rule looks before the write and in a transaction of
\* its own; two enabled rules contradict each other only if one of them was
\* written by a request that another one overtook in between.
THEOREM NoConflictWithoutRace == Spec => []ConflictsOnlyFromRaces
  <1>1. IInv => ConflictsOnlyFromRaces
    BY DEF IInv
  <1> QED
    BY <1>1, InductiveInvariant, PTL

\* Saving, enabling or changing a rule never gives it an occurrence of the
\* past, but for an update whose row had changed since it was read.
THEOREM NoRetroactiveRule == Spec => []RulesAreNotRetroactive
  <1>1. IInv => RulesAreNotRetroactive
    BY DEF IInv
  <1> QED
    BY <1>1, InductiveInvariant, PTL

\* _validated_schedule_group and count_group_schedule_rules together keep the
\* group of every rule, but for requests that were overtaken.
THEOREM GroupsOutliveTheirRules == Spec => []GroupRulesHaveTheirGroup
  <1>1. IInv => GroupRulesHaveTheirGroup
    BY DEF IInv
  <1> QED
    BY <1>1, InductiveInvariant, PTL
=============================================================================
