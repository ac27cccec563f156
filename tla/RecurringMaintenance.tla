------------------------ MODULE RecurringMaintenance ------------------------
(***************************************************************************)
(* Recurring maintenance over the windows of MaintenanceWindows: the rules *)
(* that operators write, and the thread that turns their occurrences into  *)
(* windows and claims the events of each occurrence's life.                *)
(*                                                                         *)
(* A rule's weekdays and start_minutes are the set of instants at which it *)
(* starts; the occurrence_key of an occurrence is its start.               *)
(***************************************************************************)
EXTENDS MaintenanceWindows

CONSTANTS RuleIds,      \* AUTOINCREMENT ids, used once
          Bodies,       \* what normalize_recurring_rule returns
          CatchUp       \* MATERIALIZER_CATCHUP_DAYS

BodyOK(b) ==
  /\ b.enabled \in BOOLEAN /\ b.target \in Targets
  /\ b.starts \subseteq Instants /\ b.duration \in 1 .. MaxDuration

ASSUME RecurringAssumption ==
  /\ RuleIds \subseteq Nat /\ CatchUp \in Nat
  /\ \A b \in Bodies : BodyOK(b)

VARIABLES
  rules,          \* recurring_maintenance_rules, None before the row exists
  deleted,        \* the ids whose row has deleted_at
  occurrences,    \* recurring_maintenance_occurrences: pairs of a rule and an
                  \* occurrence_key to the window and the planned end
  lifecycle,      \* recurring_maintenance_lifecycle: the events of each one
  iter            \* the materializer thread

ruleVars == <<rules, deleted>>
vars == <<wvars, ruleVars, occurrences, lifecycle, iter>>

Idle == [pc |-> "idle", now |-> 0, todo |-> {}]

RuleRow(b, t) == [enabled |-> b.enabled, target |-> b.target, starts |-> b.starts,
                  duration |-> b.duration, effective |-> t]

Init ==
  /\ WindowsInit
  /\ rules \in [RuleIds -> {RuleRow(b, now) : b \in Bodies} \cup {None}]
  /\ deleted = {}
  /\ occurrences = [o \in {} |-> None]
  /\ lifecycle = [o \in {} |-> {}]
  /\ iter = Idle

-----------------------------------------------------------------------------
(* The rules                                                               *)

TargetExists(target) == target[1] = "GROUP" => target[2] \in groups

create_recurring_rule(r, b) ==
  /\ Event
  /\ rules[r] = None /\ r \notin deleted /\ TargetExists(b.target)
  /\ rules' = [rules EXCEPT ![r] = RuleRow(b, now)]
  /\ UNCHANGED <<now, groups, windowVars, req, deleted, occurrences, lifecycle, iter>>

\* Fields that the body leaves out are those of a row read before; any valid
\* row may result.
update_recurring_rule(r, b) ==
  /\ Event
  /\ rules[r] # None /\ TargetExists(b.target)
  /\ rules' = [rules EXCEPT ![r] = RuleRow(b, now)]
  /\ UNCHANGED <<now, groups, windowVars, req, deleted, occurrences, lifecycle, iter>>

delete_recurring_rule(r) ==
  /\ Event
  /\ rules[r] # None
  /\ rules' = [rules EXCEPT ![r] = None]
  /\ deleted' = deleted \cup {r}
  /\ UNCHANGED <<now, groups, windowVars, req, occurrences, lifecycle, iter>>

\* POST, PUT and DELETE: each writes in one transaction, which looks again
\* whether the rule is there.
RuleSteps ==
  \/ \E r \in RuleIds, b \in Bodies :
       create_recurring_rule(r, b) \/ update_recurring_rule(r, b)
  \/ \E r \in RuleIds : delete_recurring_rule(r)

-----------------------------------------------------------------------------
(* recurring_maintenance_iteration                                         *)

\* The starts that are not older than the rule's version or the catch-up.
due_occurrences(rule, t) ==
  {s \in rule.starts : rule.effective <= s /\ t - CatchUp <= s /\ s <= t}

\* Reads the clock and lists the enabled rules.
IterationStarts ==
  /\ iter = Idle
  /\ iter' = [pc |-> "materialize", now |-> now,
              todo |-> UNION {{<<r, s, s + rules[r].duration>> :
                                 s \in due_occurrences(rules[r], now)} :
                              r \in {i \in RuleIds : rules[i] # None /\ rules[i].enabled}}]
  /\ UNCHANGED <<wvars, ruleVars, occurrences, lifecycle>>

\* Rules in the order of their ids, occurrences in that of their starts.
Current(o) ==
  /\ iter.pc = "materialize" /\ o \in iter.todo
  /\ \A p \in iter.todo : o[1] < p[1] \/ (o[1] = p[1] /\ o[2] <= p[2])

Key(o) == <<o[1], o[2]>>

Rest(o) == iter' = [iter EXCEPT !.todo = @ \ {o}]

MaterializeCurrent(o) ==
  LET keys == DOMAIN occurrences \cup {Key(o)} IN
  /\ Insert(Row(rules[o[1]].target, o[2], o[3], "RECURRING"))
  /\ occurrences' = [k \in keys |-> IF k = Key(o)
                                    THEN [window |-> NextWindow, ends_at |-> o[3]]
                                    ELSE occurrences[k]]

\* The rule as it is now is enabled and not deleted.
CurrentRule(o) == rules[o[1]] # None /\ rules[o[1]].enabled

\* Mutant: the occurrence is not looked up, and its row is replaced.
MaterializeAgain(o) ==
  /\ Current(o)
  /\ CurrentRule(o) /\ TargetExists(rules[o[1]].target)
  /\ MaterializeCurrent(o) /\ Rest(o)
  /\ UNCHANGED <<now, groups, req, events, ruleVars, lifecycle>>

\* One transaction: the target and the note are those of the rule as it is
\* now, the times those of the rule when it was listed.  No conflict is looked
\* for, and a group without members is covered too.
materialize_occurrence(o) ==
  /\ Current(o) /\ Key(o) \notin DOMAIN occurrences
  /\ CurrentRule(o) /\ TargetExists(rules[o[1]].target)
  /\ MaterializeCurrent(o) /\ Rest(o)
  /\ UNCHANGED <<now, groups, req, events, ruleVars, lifecycle>>

\* The occurrence is there already, or its rule is not.
NothingToMaterialize(o) ==
  /\ Current(o)
  /\ Key(o) \in DOMAIN occurrences \/ ~CurrentRule(o)
  /\ Rest(o)
  /\ UNCHANGED <<wvars, ruleVars, occurrences, lifecycle>>

Raises(o) ==
  /\ Current(o) /\ Key(o) \notin DOMAIN occurrences
  /\ CurrentRule(o) /\ ~TargetExists(rules[o[1]].target)

\* Mutant: an occurrence that raises ends the iteration.
MaterializeRaisesToTheEnd(o) ==
  /\ Raises(o)
  /\ iter' = Idle
  /\ UNCHANGED <<wvars, ruleVars, occurrences, lifecycle>>

\* Group not found: the error is kept and the loop goes on.
MaterializeRaises(o) ==
  /\ Raises(o)
  /\ Rest(o)
  /\ UNCHANGED <<wvars, ruleVars, occurrences, lifecycle>>

Window(o) == windows[occurrences[o].window]

\* Mutant: whatever was ended was cancelled.
CancelledIfEnded(o) == Window(o).ended_at # None

Cancelled(o) ==
  Window(o).ended_at # None /\ Window(o).ended_at < occurrences[o].ends_at

\* The events that an occurrence has had by the instant t.
Claim(o, t) ==
  IF Cancelled(o) THEN {"started", "cancelled"}
  ELSE IF occurrences[o].ends_at <= t THEN {"started", "completed"}
  ELSE IF Window(o).ended_at = None /\ Window(o).starts_at <= t THEN {"started"}
  ELSE {}

\* One transaction, after all occurrences of the iteration.
claim_lifecycle_events ==
  LET Had(o) == IF o \in DOMAIN lifecycle THEN lifecycle[o] ELSE {} IN
  /\ iter.pc = "materialize" /\ iter.todo = {}
  /\ lifecycle' = [o \in DOMAIN occurrences |->
                     Had(o) \cup Claim(o, iter.now)]
  /\ iter' = Idle
  /\ UNCHANGED <<wvars, ruleVars, occurrences>>

\* An exception outside the loop's try: the next iteration comes later.
IterationFails ==
  /\ Event
  /\ iter # Idle
  /\ iter' = Idle
  /\ UNCHANGED <<now, groups, windowVars, req, ruleVars, occurrences, lifecycle>>

\* The process ends and starts again.
Restart ==
  /\ Event
  /\ req' = [q \in Requests |-> None]
  /\ iter' = Idle
  /\ UNCHANGED <<now, groups, windowVars, ruleVars, occurrences, lifecycle>>

-----------------------------------------------------------------------------
MaterializerStep ==
  \/ \E o \in iter.todo :
       materialize_occurrence(o) \/ NothingToMaterialize(o) \/ MaterializeRaises(o)
  \/ claim_lifecycle_events

Next ==
  \/ WindowsNext /\ UNCHANGED <<ruleVars, occurrences, lifecycle, iter>>
  \/ RuleSteps
  \/ IterationStarts \/ MaterializerStep \/ IterationFails \/ Restart

Spec == Init /\ [][Next]_vars

\* The thread's loop starts iterations, and goes on in one.
FairSpec == Spec /\ WF_vars(IterationStarts) /\ WF_vars(MaterializerStep)

-----------------------------------------------------------------------------
(* Properties                                                              *)

RuleOf == [enabled : BOOLEAN, target : Targets, starts : SUBSET Instants,
           duration : 1 .. MaxDuration, effective : Instants]

TypeOK ==
  /\ WindowsTypeOK
  /\ rules \in [RuleIds -> RuleOf \cup {None}]
  /\ \A r \in RuleIds : rules[r] # None => r \notin deleted
  /\ DOMAIN occurrences \subseteq RuleIds \X Instants
  /\ occurrences \in [DOMAIN occurrences -> [window : Nat, ends_at : Nat]]
  /\ DOMAIN lifecycle \subseteq DOMAIN occurrences
  /\ lifecycle \in [DOMAIN lifecycle -> SUBSET {"started", "completed", "cancelled"}]
  /\ iter \in [pc : {"idle", "materialize"}, now : Nat,
              todo : SUBSET (RuleIds \X Instants \X Nat)]
  /\ iter.now <= now
  /\ \A o \in iter.todo : o[3] - o[2] \in 1 .. MaxDuration

\* "Idempotent occurrence identity so retries and delayed background
\* iterations do not create duplicate windows" (docs/RELEASE_0.9.0.md): the
\* windows of recurring rules and the occurrences correspond one to one, over
\* failed iterations, restarts and edits.
OneWindowPerOccurrence ==
  /\ \A i \in DOMAIN windows : windows[i].created_by = "RECURRING" =>
       \E o \in DOMAIN occurrences : occurrences[o].window = i
  /\ \A o \in DOMAIN occurrences :
       /\ occurrences[o].window \in DOMAIN windows
       /\ Window(o).created_by = "RECURRING" /\ Window(o).starts_at = o[2]
  /\ \A o, p \in DOMAIN occurrences :
       occurrences[o].window = occurrences[p].window => o = p

\* An occurrence that is reported cancelled was ended before its planned end,
\* and is not reported completed as well - unless the request that ended it
\* had read the clock before that end and wrote after it.
CancelledOrCompleted ==
  \A o \in DOMAIN lifecycle :
    "cancelled" \in lifecycle[o] =>
      /\ Window(o).ended_at # None /\ Window(o).ended_at < occurrences[o].ends_at
      /\ "completed" \in lifecycle[o] =>
           ended_when[occurrences[o].window] >= occurrences[o].ends_at

Due(r, s) ==
  /\ rules[r] # None /\ rules[r].enabled /\ TargetExists(rules[r].target)
  /\ s \in due_occurrences(rules[r], now)

\* An occurrence that is due becomes a window, whatever becomes of the
\* occurrences and rules before it, of failed iterations and of restarts.
DueOccurrencesAreMaterialized ==
  \A r \in RuleIds, s \in Instants :
    <>[]Due(r, s) => <>(<<r, s>> \in DOMAIN occurrences)
=============================================================================
