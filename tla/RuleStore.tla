------------------------------ MODULE RuleStore ------------------------------
(***************************************************************************)
(* The schedule_rules table under the requests of api/scheduler.py and the *)
(* group deletion of api/miner_groups.py.                                  *)
(*                                                                         *)
(* Create and update are coroutines: from their last await to their write  *)
(* they run on the event loop without interruption by each other.  Toggle, *)
(* delete and the deletion of a group run in threads, so their statements  *)
(* interleave with everything.  One action is one statement on the         *)
(* database, or a read together with the tests that follow it.             *)
(***************************************************************************)
EXTENDS ScheduleRules

CONSTANTS RuleIds,     \* AUTOINCREMENT ids, used once, in order
          Groups,      \* operational groups that exist at first
          Requests,    \* requests in flight, at most
          Instants,    \* bound: the instants at which anything happens
          Bodies       \* what schedule_normalize_input returns for the bodies sent

\* A valid body, with the fields it leaves out filled in.
Normalized ==
  {n \in [enabled : BOOLEAN, action : ScheduleActions, time_minutes : 0 .. 1439,
          days : (SUBSET (0 .. 6)) \ {{}}, scope : {"FARM", "GROUP"},
          group_id : Groups \cup {None}] :
     n.scope = "FARM" <=> n.group_id = None}

ASSUME RuleStoreAssumption ==
  /\ RuleIds \subseteq Nat /\ Instants \subseteq Int /\ Instants # {}
  /\ Bodies \subseteq Normalized
  /\ None \notin Int \cup Groups \cup Requests

VARIABLES
  now,          \* the clock
  rules,        \* schedule_rules: from ids in use to rows
  next_id,      \* ids handed out so far
  groups,       \* miner_groups
  loop,         \* the coroutine that holds the event loop
  req,          \* the requests in flight
  raced,        \* history: rows written by a request during which another
                \* request wrote
  changed_at    \* history: when a rule's schedule last changed, by rule

vars == <<now, rules, next_id, groups, loop, req, raced, changed_at>>

Init ==
  /\ now \in Instants
  /\ rules = [i \in {} |-> None]
  /\ next_id = 0
  /\ groups = Groups
  /\ loop = None
  /\ req = [q \in Requests |-> None]
  /\ raced = {}
  /\ changed_at = [i \in {} |-> now]

Tick ==
  /\ now' \in {t \in Instants : t > now}
  /\ UNCHANGED <<rules, next_id, groups, loop, req, raced, changed_at>>

-----------------------------------------------------------------------------
Overlap(r, n) == r.time_minutes = n.time_minutes /\ r.days \cap n.days # {}

\* Mutant: only rules of the same action conflict.
ConflictOfSameAction(n, except) ==
  {i \in DOMAIN rules \ except :
     /\ rules[i].enabled /\ n.enabled /\ Overlap(rules[i], n)
     /\ rules[i].scope = n.scope /\ rules[i].group_id = n.group_id
     /\ rules[i].action = n.action}

schedule_conflicting_rule(n, except) ==
  IF ~n.enabled THEN {}
  ELSE {i \in DOMAIN rules \ except :
          /\ rules[i].enabled /\ Overlap(rules[i], n)
          /\ rules[i].scope = n.scope /\ rules[i].group_id = n.group_id}

Step(q, r) == req' = [req EXCEPT ![q] = r]

\* A write ends request q and marks the requests it overlaps.
Finish(q) ==
  req' = [p \in Requests |-> IF p = q THEN None
                             ELSE IF req[p] = None THEN None
                             ELSE [req[p] EXCEPT !.dirty = TRUE]]

Raced(q, i) == raced' = IF req[q].dirty THEN raced \cup {i} ELSE raced

NewRequest(kind, id, pc, row, new) ==
  [kind |-> kind, id |-> id, pc |-> pc, row |-> row, new |-> new, dirty |-> FALSE]

\* POST rules: the body has arrived and is valid; the coroutine runs.
Create(q, n) ==
  /\ req[q] = None /\ loop = None
  /\ next_id + 1 \in RuleIds
  /\ loop' = q
  /\ Step(q, NewRequest("create", None, "group", None, n))
  /\ UNCHANGED <<now, rules, next_id, groups, raced, changed_at>>

\* PUT rules: reads the row, then awaits the body.
Update(q, i) ==
  /\ req[q] = None /\ loop = None
  /\ i \in DOMAIN rules
  /\ Step(q, NewRequest("update", i, "body", rules[i], None))
  /\ UNCHANGED <<now, rules, next_id, groups, loop, raced, changed_at>>

\* The body arrives: fields it leaves out come from the row read before.
UpdateBody(q, n) ==
  /\ req[q] # None /\ req[q].pc = "body" /\ loop = None
  /\ loop' = q
  /\ Step(q, [req[q] EXCEPT !.pc = "group", !.new = n])
  /\ UNCHANGED <<now, rules, next_id, groups, raced, changed_at>>

Without(r) == [enabled |-> r.enabled, action |-> r.action,
               time_minutes |-> r.time_minutes, days |-> r.days,
               scope |-> r.scope, group_id |-> r.group_id]

\* POST toggle: a disabled rule passes the checks first.
Toggle(q, i) ==
  LET row == rules[i] IN
  /\ req[q] = None /\ i \in DOMAIN rules
  /\ Step(q, NewRequest("toggle", i, IF row.enabled THEN "write" ELSE "group",
                        row, [Without(row) EXCEPT !.enabled = ~row.enabled]))
  /\ UNCHANGED <<now, rules, next_id, groups, loop, raced, changed_at>>

Refuse(q) ==
  /\ Step(q, None)
  /\ loop' = IF loop = q THEN None ELSE loop
  /\ UNCHANGED <<now, rules, next_id, groups, raced, changed_at>>

\* _validated_schedule_group
CheckGroup(q) ==
  /\ req[q] # None /\ req[q].pc = "group"
  /\ \/ /\ req[q].new.group_id \in groups \cup {None}
        /\ Step(q, [req[q] EXCEPT !.pc = "conflict"])
        /\ UNCHANGED <<now, rules, next_id, groups, loop, raced, changed_at>>
     \/ /\ req[q].new.group_id \notin groups \cup {None}
        /\ Refuse(q)

CheckConflict(q) ==
  LET found == schedule_conflicting_rule(req[q].new,
                 IF req[q].id = None THEN {} ELSE {req[q].id})
  IN
  /\ req[q] # None /\ req[q].pc = "conflict"
  /\ \/ /\ found = {}
        /\ Step(q, [req[q] EXCEPT !.pc = "write"])
        /\ UNCHANGED <<now, rules, next_id, groups, loop, raced, changed_at>>
     \/ /\ found # {}
        /\ Refuse(q)

WithEffectiveFrom(n, t) ==
  [enabled |-> n.enabled, action |-> n.action, time_minutes |-> n.time_minutes,
   days |-> n.days, scope |-> n.scope, group_id |-> n.group_id,
   effective_from |-> t]

create_schedule_rule(q) ==
  LET i == next_id + 1 IN
  /\ req[q] # None /\ req[q].pc = "write" /\ req[q].kind = "create"
  /\ rules' = [j \in DOMAIN rules \cup {i} |->
                 IF j = i THEN WithEffectiveFrom(req[q].new, now) ELSE rules[j]]
  /\ next_id' = i
  /\ changed_at' = [j \in DOMAIN rules \cup {i} |->
                      IF j = i THEN now ELSE changed_at[j]]
  /\ loop' = None
  /\ Finish(q) /\ Raced(q, i)
  /\ UNCHANGED <<now, groups>>

\* The columns whose change is a change of the schedule.
Schedule(r) == <<r.action, r.time_minutes, r.days, r.scope, r.group_id>>

schedule_changed(row, n) ==
  Schedule(row) # Schedule(n) \/ (~row.enabled /\ n.enabled)

\* UPDATE ... WHERE id: of a row deleted meanwhile nothing is written.
WriteRow(q, row) ==
  LET i == req[q].id IN
  /\ IF i \in DOMAIN rules
     THEN /\ rules' = [rules EXCEPT ![i] = row]
          /\ changed_at' = [changed_at EXCEPT ![i] =
                              IF schedule_changed(rules[i], row) THEN now ELSE @]
          /\ Finish(q) /\ Raced(q, i)
     ELSE Step(q, None) /\ UNCHANGED <<rules, changed_at, raced>>
  /\ loop' = IF loop = q THEN None ELSE loop
  /\ UNCHANGED <<now, next_id, groups>>

\* Mutant: an update always keeps effective_from.
UpdateKeepsEffectiveFrom(q) ==
  /\ req[q] # None /\ req[q].pc = "write" /\ req[q].kind = "update"
  /\ WriteRow(q, WithEffectiveFrom(req[q].new, req[q].row.effective_from))

update_schedule_rule(q) ==
  LET row == req[q].row  n == req[q].new IN
  /\ req[q] # None /\ req[q].pc = "write" /\ req[q].kind = "update"
  /\ WriteRow(q, WithEffectiveFrom(n,
                   IF n.enabled /\ schedule_changed(row, n) THEN now
                   ELSE row.effective_from))

\* Writes enabled and effective_from only.
set_schedule_rule_enabled(q) ==
  LET i == req[q].id  on == req[q].new.enabled IN
  /\ req[q] # None /\ req[q].pc = "write" /\ req[q].kind = "toggle"
  /\ WriteRow(q, IF i \notin DOMAIN rules THEN None
                 ELSE [rules[i] EXCEPT !.enabled = on, !.effective_from =
                         IF on THEN now ELSE req[q].row.effective_from])

delete_schedule_rule(i) ==
  /\ i \in DOMAIN rules
  /\ rules' = [j \in DOMAIN rules \ {i} |-> rules[j]]
  /\ req' = [p \in Requests |-> IF req[p] = None THEN None
                                ELSE [req[p] EXCEPT !.dirty = TRUE]]
  /\ raced' = raced \ {i}
  /\ changed_at' = [j \in DOMAIN rules \ {i} |-> changed_at[j]]
  /\ UNCHANGED <<now, next_id, groups, loop>>

-----------------------------------------------------------------------------
(* DELETE groups                                                           *)

\* Mutant: only enabled rules keep their group.
CountEnabledOnly(q, g) ==
  /\ req[q] = None /\ g \in groups
  /\ GroupRules(rules, g) = {}
  /\ Step(q, NewRequest("group", g, "delete", None, None))
  /\ UNCHANGED <<now, rules, next_id, groups, loop, raced, changed_at>>

\* count_group_schedule_rules counts disabled rules too.
count_group_schedule_rules(q, g) ==
  /\ req[q] = None /\ g \in groups
  /\ \A i \in DOMAIN rules : rules[i].group_id # g
  /\ Step(q, NewRequest("group", g, "delete", None, None))
  /\ UNCHANGED <<now, rules, next_id, groups, loop, raced, changed_at>>

delete_group(q) ==
  /\ req[q] # None /\ req[q].pc = "delete"
  /\ groups' = groups \ {req[q].id}
  /\ Finish(q)
  /\ raced' = IF req[q].dirty
              THEN raced \cup {i \in DOMAIN rules : rules[i].group_id = req[q].id}
              ELSE raced
  /\ UNCHANGED <<now, rules, next_id, loop, changed_at>>

-----------------------------------------------------------------------------
Next ==
  \/ Tick
  \/ \E q \in Requests :
       \/ \E n \in Bodies : Create(q, n) \/ UpdateBody(q, n)
       \/ \E i \in RuleIds : Update(q, i) \/ Toggle(q, i)
       \/ CheckGroup(q)
       \/ CheckConflict(q)
       \/ create_schedule_rule(q)
       \/ update_schedule_rule(q)
       \/ set_schedule_rule_enabled(q)
       \/ \E g \in Groups : count_group_schedule_rules(q, g)
       \/ delete_group(q)
  \/ \E i \in RuleIds : delete_schedule_rule(i)

Spec == Init /\ [][Next]_vars

-----------------------------------------------------------------------------
(* Properties                                                              *)

Conflict(i, j) ==
  /\ i # j /\ rules[i].enabled /\ rules[j].enabled
  /\ Overlap(rules[i], rules[j])
  /\ rules[i].scope = rules[j].scope /\ rules[i].group_id = rules[j].group_id

\* "overlapping rules for the same effective scope are rejected"
\* (CHANGELOG.md) but for rules that two requests wrote at the same time:
\* whatever sequence of creates, updates, toggles and deletes runs, a pair of
\* conflicting rules comes only from a toggle or a create whose check was
\* overtaken by another write.
ConflictsOnlyFromRaces ==
  \A i, j \in DOMAIN rules : Conflict(i, j) => {i, j} \cap raced # {}

\* A rule never applies to an occurrence that precedes its creation, its last
\* enabling or the last change of its schedule, so that saving a rule does
\* not command the farm at once - unless the write was overtaken.
RulesAreNotRetroactive ==
  \A i \in DOMAIN rules \ raced :
    rules[i].enabled => rules[i].effective_from >= changed_at[i]

\* A group is not deleted from under the rules that name it - unless the
\* count of those rules was overtaken.
GroupRulesHaveTheirGroup ==
  \A i \in DOMAIN rules \ raced : rules[i].group_id \in groups \cup {None}
=============================================================================
