---------------------- MODULE RecurringMaintenanceProofs ----------------------
(***************************************************************************)
(* Theorems about RecurringMaintenance.  The inductive invariant IInv says *)
(* what a request in flight knows of the windows (RequestsFit, OneWriter,  *)
(* NoConflict), and how windows, occurrences and their events fit.         *)
(***************************************************************************)
EXTENDS RecurringMaintenance, FiniteSetTheorems, TLAPS

\* A row of at most the maximum duration.
Bounded(row) == row.ends_at - row.starts_at \in 1 .. MaxDuration

\* The new row of a creation is a manual one.
CreateFits(r) ==
  /\ r.id = None /\ r.pc \in {"body", "write"}
  /\ r.pc = "write" => r.new \in WindowRow /\ Bounded(r.new) /\ r.new.ended_at = None
                       /\ r.new.created_by = "MANUAL"

\* An extension has read its window of w; unless another request wrote to it
\* since, the window still ends when it did.
ExtendFits(r, w) ==
  /\ r.id \in DOMAIN w /\ r.pc \in {"body", "write"}
  /\ r.row \in WindowRow /\ Bounded(r.row)
  /\ r.row.target = w[r.id].target
  /\ r.row.starts_at = w[r.id].starts_at
  /\ ~r.dirty => r.row.ends_at = w[r.id].ends_at
  /\ r.pc = "write" =>
       /\ r.new = [r.row EXCEPT !.ends_at = r.new.ends_at]
       /\ r.new \in WindowRow /\ Bounded(r.new)
       /\ r.row.ends_at < r.new.ends_at

EndFits(r, w) == r.id \in DOMAIN w /\ r.pc = "end"

Fits(r, w) ==
  /\ r.kind = "create" => CreateFits(r)
  /\ r.kind = "extend" => ExtendFits(r, w)
  /\ r.kind = "end" => EndFits(r, w)

RequestsFit == \A q \in Requests : req[q] # None => Fits(req[q], windows)

Writes(q) == req[q] # None /\ req[q].pc = "write"

\* The event loop runs one coroutine at a time.
OneWriter == \A p, q \in Requests : Writes(p) /\ Writes(q) => p = q

Apart(a, b) == a.ends_at <= b.starts_at \/ b.ends_at <= a.starts_at

\* What is about to be written does not overlap a manual window.
NoConflict ==
  \A q \in Requests, i \in DOMAIN windows :
    /\ Writes(q) /\ i # req[q].id
    /\ windows[i].target = req[q].new.target
    /\ windows[i].created_by = "MANUAL" /\ windows[i].ended_at = None
    => Apart(req[q].new, windows[i])

\* What the events of an occurrence say of its window and of the clock.
EventsFit ==
  \A o \in DOMAIN lifecycle :
    /\ "cancelled" \in lifecycle[o] => Cancelled(o)
    /\ "completed" \in lifecycle[o] =>
         /\ occurrences[o].ends_at <= now
         /\ Cancelled(o) => ended_when[occurrences[o].window] >= occurrences[o].ends_at

IInv ==
  /\ TypeOK
  /\ IsFiniteSet(DOMAIN windows)
  /\ RequestsFit
  /\ OneWriter
  /\ NoConflict
  /\ ManualWindowsAreDisjoint
  /\ OneWindowPerOccurrence
  /\ EventsFit

-----------------------------------------------------------------------------
\* A new row takes the next id; the others stay.
LEMMA InsertFits ==
  ASSUME TypeOK, IsFiniteSet(DOMAIN windows), NEW row, Insert(row)
  PROVE  /\ NextWindow \in Nat /\ NextWindow \notin DOMAIN windows
         /\ DOMAIN windows \subseteq Nat
         /\ DOMAIN windows' = DOMAIN windows \cup {NextWindow}
         /\ IsFiniteSet(DOMAIN windows')
         /\ DOMAIN windows' = 1 .. Cardinality(DOMAIN windows')
         /\ windows' = [i \in DOMAIN windows' |->
                          IF i = NextWindow THEN row ELSE windows[i]]
         /\ ended_when' = [i \in DOMAIN windows' |->
                             IF i = NextWindow THEN None ELSE ended_when[i]]
<1> DEFINE n == Cardinality(DOMAIN windows)
<1>1. n \in Nat
  BY FS_CardinalityType
<1>2. DOMAIN windows = 1 .. n
  BY DEF TypeOK, WindowsTypeOK
<1>3. NextWindow = n + 1
  BY DEF NextWindow
<1> HIDE DEF n
<1>4. DOMAIN windows' = DOMAIN windows \cup {NextWindow}
  BY DEF Insert
<1>5. DOMAIN windows' = 1 .. (n + 1)
  BY <1>1, <1>2, <1>3, <1>4
<1>6. IsFiniteSet(1 .. (n + 1)) /\ Cardinality(1 .. (n + 1)) = n + 1
  BY <1>1, FS_Interval
<1>7. /\ windows' = [i \in DOMAIN windows' |->
                       IF i = NextWindow THEN row ELSE windows[i]]
      /\ ended_when' = [i \in DOMAIN windows' |->
                          IF i = NextWindow THEN None ELSE ended_when[i]]
  BY <1>4 DEF Insert
<1>8. NextWindow \in Nat /\ NextWindow \notin DOMAIN windows /\ DOMAIN windows \subseteq Nat
  BY <1>1, <1>2, <1>3
<1>9. IsFiniteSet(DOMAIN windows')
  BY <1>5, <1>6
<1>10. Cardinality(DOMAIN windows') = n + 1
  BY <1>5, <1>6
<1>11. DOMAIN windows' = 1 .. Cardinality(DOMAIN windows')
  BY <1>5, <1>10
<1> QED
  BY <1>4, <1>7, <1>8, <1>9, <1>11

\* The row that a request or the materializer writes is a window.
LEMMA MaterializedRow ==
  ASSUME TypeOK, NEW o \in iter.todo, CurrentRule(o)
  PROVE  LET row == Row(rules[o[1]].target, o[2], o[3], "RECURRING") IN
         /\ row \in WindowRow /\ Bounded(row)
         /\ o[1] \in RuleIds /\ o[2] \in Instants /\ o[3] \in Nat
<1>1. o \in RuleIds \X Instants \X Nat /\ o[3] - o[2] \in 1 .. MaxDuration
  BY DEF TypeOK
<1>2. o[1] \in RuleIds /\ o[2] \in Instants /\ o[3] \in Nat /\ o[2] \in Nat
  BY <1>1, WindowsAssumption
<1>3. rules[o[1]].target \in Targets
  BY <1>2 DEF TypeOK, CurrentRule, RuleOf
<1> QED
  BY <1>1, <1>2, <1>3 DEF Row, WindowRow, Bounded

-----------------------------------------------------------------------------
(* Which steps write what                                                  *)

RequestSteps(q) ==
  \/ CreateArrives(q)
  \/ \E t \in Targets, iv \in Intervals : CreateBody(q, t, iv[1], iv[2])
  \/ create_maintenance_window(q) \/ CreateRefused(q)
  \/ \E i \in DOMAIN windows : ExtendArrives(q, i) \/ EndArrives(q, i)
  \/ \E iv \in Intervals : ExtendBody(q, iv[2])
  \/ extend_maintenance_window(q)
  \/ end_maintenance_window(q)

\* The materializer and the process write neither requests' rows nor rules.
OtherSteps ==
  IterationStarts \/ MaterializerStep \/ IterationFails \/ Restart

recurringVars == <<ruleVars, occurrences, lifecycle, iter>>

LEMMA Steps ==
  ASSUME [Next]_vars
  PROVE  \/ Tick /\ UNCHANGED recurringVars
         \/ \E q \in Requests : RequestSteps(q) /\ UNCHANGED recurringVars
         \/ \E g \in Groups : delete_group(g) /\ UNCHANGED recurringVars
         \/ RuleSteps \/ OtherSteps
         \/ UNCHANGED vars
  BY DEF Next, WindowsNext, RequestSteps, RuleSteps, OtherSteps, recurringVars

\* The windows are written by four actions only.
LEMMA WindowWrites ==
  ASSUME [Next]_vars
  PROVE  \/ \E q \in Requests :
              \/ create_maintenance_window(q) \/ extend_maintenance_window(q)
              \/ end_maintenance_window(q)
         \/ \E o \in iter.todo : materialize_occurrence(o)
         \/ UNCHANGED windowVars
<1>1. CASE Tick /\ UNCHANGED recurringVars
  BY <1>1 DEF Tick
<1>2. CASE \E q \in Requests : RequestSteps(q) /\ UNCHANGED recurringVars
  BY <1>2 DEF RequestSteps, CreateArrives, CreateBody, CreateRefused, ExtendArrives,
              EndArrives, ExtendBody
<1>3. CASE \E g \in Groups : delete_group(g) /\ UNCHANGED recurringVars
  BY <1>3 DEF delete_group
<1>4. CASE RuleSteps
  BY <1>4 DEF RuleSteps, create_recurring_rule, update_recurring_rule,
              delete_recurring_rule
<1>5. CASE OtherSteps
  BY <1>5 DEF OtherSteps, MaterializerStep, IterationStarts, NothingToMaterialize,
              MaterializeRaises, claim_lifecycle_events, IterationFails, Restart, wvars
<1>6. CASE UNCHANGED vars
  BY <1>6 DEF vars, wvars
<1> QED
  BY <1>1, <1>2, <1>3, <1>4, <1>5, <1>6, Steps

\* The requests are written by their own steps and by a restart.
LEMMA RequestWrites ==
  ASSUME [Next]_vars
  PROVE  \/ \E q \in Requests : RequestSteps(q)
         \/ req' = [q \in Requests |-> None]
         \/ UNCHANGED req
<1>1. CASE Tick /\ UNCHANGED recurringVars
  BY <1>1 DEF Tick
<1>2. CASE \E q \in Requests : RequestSteps(q) /\ UNCHANGED recurringVars
  BY <1>2
<1>3. CASE \E g \in Groups : delete_group(g) /\ UNCHANGED recurringVars
  BY <1>3 DEF delete_group
<1>4. CASE RuleSteps
  BY <1>4 DEF RuleSteps, create_recurring_rule, update_recurring_rule,
              delete_recurring_rule
<1>5. CASE OtherSteps
  BY <1>5 DEF OtherSteps, MaterializerStep, IterationStarts, NothingToMaterialize,
              MaterializeRaises, claim_lifecycle_events, IterationFails, Restart, wvars,
              materialize_occurrence
<1>6. CASE UNCHANGED vars
  BY <1>6 DEF vars, wvars
<1> QED
  BY <1>1, <1>2, <1>3, <1>4, <1>5, <1>6, Steps

\* The clock runs forwards.
LEMMA ClockWrites ==
  ASSUME [Next]_vars, now \in Instants
  PROVE  now' \in Instants /\ now' >= now
<1>0. Instants \subseteq Nat
  BY WindowsAssumption
<1>1. CASE Tick
  BY <1>0, <1>1 DEF Tick
<1> SUFFICES ASSUME ~Tick
             PROVE  now' = now
  BY <1>0, <1>1
<1>2. CASE \E q \in Requests : RequestSteps(q) /\ UNCHANGED recurringVars
  BY <1>2 DEF RequestSteps, CreateArrives, CreateBody, CreateRefused, ExtendArrives,
              EndArrives, ExtendBody, create_maintenance_window,
              extend_maintenance_window, end_maintenance_window
<1>3. CASE \E g \in Groups : delete_group(g) /\ UNCHANGED recurringVars
  BY <1>3 DEF delete_group
<1>4. CASE RuleSteps
  BY <1>4 DEF RuleSteps, create_recurring_rule, update_recurring_rule,
              delete_recurring_rule
<1>5. CASE OtherSteps
  BY <1>5 DEF OtherSteps, MaterializerStep, IterationStarts, NothingToMaterialize,
              MaterializeRaises, claim_lifecycle_events, IterationFails, Restart, wvars,
              materialize_occurrence
<1>6. CASE UNCHANGED vars
  BY <1>6 DEF vars, wvars
<1> QED
  BY <1>2, <1>3, <1>4, <1>5, <1>6, Steps

-----------------------------------------------------------------------------
(* Types                                                                   *)

\* The rows of the windows.
Rows ==
  /\ IsFiniteSet(DOMAIN windows)
  /\ DOMAIN windows = 1 .. Cardinality(DOMAIN windows)
  /\ windows \in [DOMAIN windows -> WindowRow]
  /\ \A i \in DOMAIN windows : Bounded(windows[i])
  /\ ended_when \in [DOMAIN windows -> Instants \cup {None}]

LEMMA RowsStep ==
  ASSUME IInv, [Next]_vars
  PROVE  Rows'
<1> USE DEF IInv
<1>0. Rows
  BY DEF Rows, TypeOK, WindowsTypeOK, Bounded
<1>1. ASSUME NEW row \in WindowRow, Bounded(row), Insert(row)
      PROVE  Rows'
  BY <1>0, <1>1, InsertFits DEF Rows
<1>2. ASSUME NEW q \in Requests, create_maintenance_window(q)
      PROVE  Rows'
  <2>1. CreateFits(req[q]) /\ req[q].pc = "write"
    BY <1>2 DEF create_maintenance_window, RequestsFit, Fits
  <2> QED
    BY <1>1, <1>2, <2>1 DEF create_maintenance_window, CreateFits
<1>3. ASSUME NEW q \in Requests, extend_maintenance_window(q)
      PROVE  Rows'
  <2> DEFINE i == req[q].id
             row == [windows[i] EXCEPT !.ends_at = req[q].new.ends_at]
  <2>1. ExtendFits(req[q], windows) /\ req[q].pc = "write"
    BY <1>3 DEF extend_maintenance_window, RequestsFit, Fits
  <2>2. i \in DOMAIN windows /\ row \in WindowRow /\ Bounded(row)
    <3>1. req[q].new.starts_at = windows[i].starts_at
      BY <2>1 DEF ExtendFits, WindowRow
    <3> QED
      BY <1>0, <2>1, <3>1 DEF ExtendFits, WindowRow, Rows, Bounded
  <2>3. windows' = windows \/ windows' = [windows EXCEPT ![i] = row]
    BY <1>3 DEF extend_maintenance_window
  <2> HIDE DEF i, row
  <2>4. /\ DOMAIN windows' = DOMAIN windows /\ windows' \in [DOMAIN windows -> WindowRow]
        /\ \A j \in DOMAIN windows : Bounded(windows'[j])
    BY <1>0, <2>2, <2>3 DEF Rows
  <2>5. ended_when' = ended_when
    BY <1>3 DEF extend_maintenance_window
  <2> QED
    BY <1>0, <2>4, <2>5 DEF Rows
<1>4. ASSUME NEW q \in Requests, end_maintenance_window(q)
      PROVE  Rows'
  <2>1. req[q] \in RequestOf /\ now \in Instants
    BY <1>4 DEF end_maintenance_window, TypeOK, WindowsTypeOK
  <2>2. DOMAIN windows' = DOMAIN windows /\ windows' \in [DOMAIN windows -> WindowRow]
    <3>1. req[q].at \in Instants
      BY <1>4, <2>1 DEF end_maintenance_window, RequestOf
    <3> DEFINE ended(r) == [r EXCEPT !.ended_at = req[q].at]
    <3>2. \A r \in WindowRow : ended(r) \in WindowRow
      BY <3>1 DEF WindowRow
    <3>3. windows' = windows \/ windows' = [windows EXCEPT ![req[q].id] = ended(@)]
      BY <1>4 DEF end_maintenance_window, windowVars
    <3> HIDE DEF ended
    <3> QED
      BY <1>0, <3>2, <3>3 DEF Rows
  <2>3. \A j \in DOMAIN windows :
          windows'[j].starts_at = windows[j].starts_at /\ windows'[j].ends_at = windows[j].ends_at
    BY <1>0, <1>4 DEF end_maintenance_window, windowVars, Rows, WindowRow
  <2>4. ended_when' \in [DOMAIN windows -> Instants \cup {None}]
    BY <1>0, <1>4, <2>1 DEF end_maintenance_window, windowVars, Rows
  <2> QED
    BY <1>0, <2>2, <2>3, <2>4 DEF Rows, Bounded
<1>5. ASSUME NEW o \in iter.todo, materialize_occurrence(o)
      PROVE  Rows'
  <2>1. CurrentRule(o)
    BY <1>5 DEF materialize_occurrence
  <2> QED
    BY <1>1, <1>5, <2>1, MaterializedRow DEF materialize_occurrence, MaterializeCurrent
<1>6. CASE UNCHANGED windowVars
  BY <1>0, <1>6 DEF windowVars, Rows, Bounded
<1> QED
  BY <1>2, <1>3, <1>4, <1>5, <1>6, WindowWrites

\* The requests have their type.
LEMMA RequestsTypeStep ==
  ASSUME IInv, [Next]_vars
  PROVE  req' \in [Requests -> RequestOf \cup {None}]
<1>0. /\ req \in [Requests -> RequestOf \cup {None}]
      /\ now \in Instants /\ windows \in [DOMAIN windows -> WindowRow]
      /\ DOMAIN windows \subseteq Nat
  <2>1. Cardinality(DOMAIN windows) \in Nat
    BY FS_CardinalityType DEF IInv
  <2> QED
    BY <2>1 DEF IInv, TypeOK, WindowsTypeOK
<1>1. ASSUME NEW q \in Requests, NEW r \in RequestOf \cup {None}, Step(q, r)
      PROVE  req' \in [Requests -> RequestOf \cup {None}]
  BY <1>0, <1>1 DEF Step
<1>2. ASSUME NEW q \in Requests, NEW i, Overtaken(q, i)
      PROVE  req' \in [Requests -> RequestOf \cup {None}]
  <2>1. \A r \in RequestOf : [r EXCEPT !.dirty = TRUE] \in RequestOf
    BY DEF RequestOf
  <2> QED
    BY <1>0, <1>2, <2>1 DEF Overtaken
<1>3. ASSUME NEW kind \in {"create", "extend", "end"}, NEW id \in Nat \cup {None},
             NEW row \in WindowRow \cup {None}
      PROVE  NewRequest(kind, id, row) \in RequestOf
  BY <1>0 DEF NewRequest, RequestOf
<1>4. ASSUME NEW q \in Requests, RequestSteps(q)
      PROVE  req' \in [Requests -> RequestOf \cup {None}]
  <2>1. CASE CreateArrives(q)
    BY <1>1, <1>3, <2>1 DEF CreateArrives
  <2>2. ASSUME NEW t \in Targets, NEW iv \in Intervals, CreateBody(q, t, iv[1], iv[2])
        PROVE  req' \in [Requests -> RequestOf \cup {None}]
    <3>1. iv[1] \in Nat /\ iv[2] \in Nat
      BY WindowsAssumption
    <3>2. Row(t, iv[1], iv[2], "MANUAL") \in WindowRow
      BY <3>1 DEF Row, WindowRow
    <3>3. req[q] \in RequestOf
      BY <1>0, <2>2 DEF CreateBody
    <3>4. [req[q] EXCEPT !.pc = "write", !.new = Row(t, iv[1], iv[2], "MANUAL")] \in RequestOf
      BY <3>2, <3>3 DEF RequestOf
    <3> QED
      BY <1>1, <2>2, <3>4 DEF CreateBody
  <2>3. CASE create_maintenance_window(q) \/ CreateRefused(q)
    BY <1>1, <2>3 DEF create_maintenance_window, CreateRefused
  <2>4. ASSUME NEW i \in DOMAIN windows, ExtendArrives(q, i)
        PROVE  req' \in [Requests -> RequestOf \cup {None}]
    BY <1>0, <1>1, <1>3, <2>4 DEF ExtendArrives
  <2>5. ASSUME NEW i \in DOMAIN windows, EndArrives(q, i)
        PROVE  req' \in [Requests -> RequestOf \cup {None}]
    <3>1. NewRequest("end", i, windows[i]) \in RequestOf
      BY <1>0, <1>3
    <3>2. [NewRequest("end", i, windows[i]) EXCEPT !.pc = "end"] \in RequestOf
      BY <3>1 DEF RequestOf
    <3> QED
      BY <1>1, <2>5, <3>2 DEF EndArrives
  <2>6. ASSUME NEW iv \in Intervals, ExtendBody(q, iv[2])
        PROVE  req' \in [Requests -> RequestOf \cup {None}]
    <3>1. iv[2] \in Nat
      BY WindowsAssumption
    <3>2. req[q] \in RequestOf /\ req[q].row \in WindowRow
      BY <1>0, <2>6 DEF ExtendBody, IInv, RequestsFit, Fits, ExtendFits
    <3>3. [req[q].row EXCEPT !.ends_at = iv[2]] \in WindowRow
      BY <3>1, <3>2 DEF WindowRow
    <3>4. [req[q] EXCEPT !.pc = "write", !.new = [req[q].row EXCEPT !.ends_at = iv[2]]]
            \in RequestOf
      BY <3>2, <3>3 DEF RequestOf
    <3> QED
      BY <1>1, <2>6, <3>4 DEF ExtendBody
  <2>7. CASE extend_maintenance_window(q)
    BY <1>2, <2>7 DEF extend_maintenance_window
  <2>8. CASE end_maintenance_window(q)
    BY <1>1, <2>8 DEF end_maintenance_window
  <2> QED
    BY <1>4, <2>1, <2>2, <2>3, <2>4, <2>5, <2>6, <2>7, <2>8 DEF RequestSteps
<1> QED
  BY <1>0, <1>4, RequestWrites

\* What a request knows stays true of windows that keep their target and
\* start, and their end if it knows that.
LEMMA FitsKept ==
  ASSUME NEW w, NEW v, NEW r, Fits(r, w),
         \A i \in DOMAIN w : /\ i \in DOMAIN v
                             /\ v[i].target = w[i].target
                             /\ v[i].starts_at = w[i].starts_at,
         r.kind = "extend" /\ ~r.dirty => v[r.id].ends_at = w[r.id].ends_at
  PROVE  Fits(r, v)
  BY DEF Fits, CreateFits, ExtendFits, EndFits

LEMMA RequestsFitStep ==
  ASSUME IInv, [Next]_vars
  PROVE  RequestsFit'
<1> SUFFICES ASSUME NEW p \in Requests, req'[p] # None
             PROVE  Fits(req'[p], windows')
  BY DEF RequestsFit
<1> USE DEF IInv
<1>0. /\ Rows /\ DOMAIN windows \subseteq Nat
      /\ req \in [Requests -> RequestOf \cup {None}]
      /\ \A q \in Requests : req[q] # None => Fits(req[q], windows)
  <2>1. Cardinality(DOMAIN windows) \in Nat
    BY FS_CardinalityType
  <2> QED
    BY <2>1 DEF Rows, TypeOK, WindowsTypeOK, Bounded, RequestsFit
\* A row is added, and the requests that remain stay as they are.
<1>1. ASSUME NEW row, Insert(row), req'[p] = req[p]
      PROVE  Fits(req'[p], windows')
  <2>1. \A i \in DOMAIN windows : i \in DOMAIN windows' /\ windows'[i] = windows[i]
    BY <1>1, InsertFits
  <2>2. req[p].kind = "extend" => req[p].id \in DOMAIN windows
    BY <1>0, <1>1 DEF Fits, ExtendFits
  <2>3. Fits(req[p], windows')
    BY <1>0, <1>1, <2>1, <2>2, FitsKept
  <2> QED
    BY <1>1, <2>3
<1>2. ASSUME NEW q \in Requests, create_maintenance_window(q)
      PROVE  Fits(req'[p], windows')
  <2>1. req'[p] = req[p]
    BY <1>0, <1>2 DEF create_maintenance_window, Step
  <2> QED
    BY <1>1, <1>2, <2>1 DEF create_maintenance_window
<1>3. ASSUME NEW o \in iter.todo, materialize_occurrence(o)
      PROVE  Fits(req'[p], windows')
  BY <1>1, <1>3 DEF materialize_occurrence, MaterializeCurrent
<1>4. ASSUME NEW q \in Requests, extend_maintenance_window(q)
      PROVE  Fits(req'[p], windows')
  <2> DEFINE i == req[q].id
  <2>1. p # q /\ req[p] # None
    BY <1>0, <1>4 DEF extend_maintenance_window, Overtaken
  <2>2. req'[p] = IF req[p].id = i THEN [req[p] EXCEPT !.dirty = TRUE] ELSE req[p]
    BY <1>0, <1>4, <2>1 DEF extend_maintenance_window, Overtaken
  <2>3. i \in DOMAIN windows
    BY <1>0, <1>4 DEF extend_maintenance_window, Fits, ExtendFits
  <2>4. /\ DOMAIN windows' = DOMAIN windows
        /\ \A j \in DOMAIN windows : /\ windows'[j].target = windows[j].target
                                     /\ windows'[j].starts_at = windows[j].starts_at
                                     /\ j # i => windows'[j] = windows[j]
    BY <1>0, <1>4, <2>3 DEF extend_maintenance_window, Rows, WindowRow
  <2>5. Fits(req'[p], windows)
    <3>1. CASE req[p].id # i
      BY <1>0, <2>1, <2>2, <3>1
    <3>2. CASE req[p].id = i
      <4>1. req[p] \in RequestOf /\ Fits(req[p], windows)
        BY <1>0, <2>1
      <4>2. req'[p] = [req[p] EXCEPT !.dirty = TRUE]
        BY <2>2, <3>2
      <4>3. /\ req'[p].kind = req[p].kind /\ req'[p].pc = req[p].pc
            /\ req'[p].id = req[p].id /\ req'[p].row = req[p].row
            /\ req'[p].new = req[p].new /\ req'[p].dirty = TRUE
        BY <4>1, <4>2 DEF RequestOf
      <4> HIDE DEF i
      <4> QED
        BY <4>1, <4>3 DEF Fits, CreateFits, ExtendFits, EndFits
    <3> QED
      BY <3>1, <3>2
  <2>6. req'[p].kind = "extend" /\ ~req'[p].dirty =>
          windows'[req'[p].id].ends_at = windows[req'[p].id].ends_at
    <3>1. CASE req[p].id # i
      BY <2>2, <2>4, <2>5, <3>1 DEF Fits, ExtendFits
    <3>2. CASE req[p].id = i
      BY <1>0, <2>1, <2>2, <3>2 DEF RequestOf
    <3> QED
      BY <3>1, <3>2
  <2> HIDE DEF i
  <2> QED
    BY <2>4, <2>5, <2>6, FitsKept
<1>5. ASSUME NEW q \in Requests, end_maintenance_window(q)
      PROVE  Fits(req'[p], windows')
  <2>1. req'[p] = req[p]
    BY <1>0, <1>5 DEF end_maintenance_window, Step
  <2>2. /\ DOMAIN windows' = DOMAIN windows
        /\ \A j \in DOMAIN windows : /\ windows'[j].target = windows[j].target
                                     /\ windows'[j].starts_at = windows[j].starts_at
                                     /\ windows'[j].ends_at = windows[j].ends_at
    <3> DEFINE ended(r) == [r EXCEPT !.ended_at = req[q].at]
    <3>1. \A r \in WindowRow : /\ ended(r).target = r.target
                               /\ ended(r).starts_at = r.starts_at
                               /\ ended(r).ends_at = r.ends_at
      BY DEF WindowRow
    <3>2. windows' = windows \/ windows' = [windows EXCEPT ![req[q].id] = ended(@)]
      BY <1>5 DEF end_maintenance_window, windowVars
    <3> HIDE DEF ended
    <3> QED
      BY <1>0, <3>1, <3>2 DEF Rows
  <2>3. Fits(req[p], windows) /\ (req[p].kind = "extend" => req[p].id \in DOMAIN windows)
    BY <1>0, <2>1 DEF Fits, ExtendFits
  <2>4. Fits(req[p], windows')
    BY <2>2, <2>3, FitsKept
  <2> QED
    BY <2>1, <2>4
<1>6. CASE UNCHANGED windowVars
  <2>0. windows' = windows
    BY <1>6 DEF windowVars
  <2>1. ASSUME NEW q \in Requests, NEW r, Step(q, r), r # None => Fits(r, windows)
        PROVE  Fits(req'[p], windows')
    BY <1>0, <2>0, <2>1 DEF Step
  <2>2. ASSUME NEW q \in Requests, RequestSteps(q)
        PROVE  Fits(req'[p], windows')
    <3>1. CASE CreateArrives(q)
      <4>1. Fits(NewRequest("create", None, None), windows)
        BY DEF NewRequest, Fits, CreateFits
      <4> QED
        BY <2>1, <3>1, <4>1 DEF CreateArrives
    <3>2. ASSUME NEW t \in Targets, NEW iv \in Intervals, CreateBody(q, t, iv[1], iv[2])
          PROVE  Fits(req'[p], windows')
      <4> DEFINE row == Row(t, iv[1], iv[2], "MANUAL")
                 r == [req[q] EXCEPT !.pc = "write", !.new = row]
      <4>1. iv[1] \in Nat /\ iv[2] \in Nat /\ MaxDuration \in Nat
        BY WindowsAssumption
      <4>2. row \in WindowRow /\ Bounded(row)
        BY <3>2, <4>1 DEF Row, WindowRow, Bounded, CreateBody, normalize_maintenance_create
      <4>3. row.ended_at = None /\ row.created_by = "MANUAL"
        BY DEF Row
      <4>4. req[q] \in RequestOf /\ req[q].kind = "create" /\ CreateFits(req[q])
        BY <1>0, <3>2 DEF CreateBody, Fits
      <4>5. Step(q, None) \/ Step(q, r)
        BY <3>2 DEF CreateBody
      <4> HIDE DEF row
      <4>6. r.kind = "create" /\ r.pc = "write" /\ r.id = None /\ r.new = row
        BY <4>4 DEF RequestOf, CreateFits
      <4> HIDE DEF r
      <4>7. Fits(r, windows)
        BY <4>2, <4>3, <4>6 DEF Fits, CreateFits
      <4> QED
        BY <2>1, <4>5, <4>7
    <3>3. CASE create_maintenance_window(q) \/ CreateRefused(q)
      BY <2>1, <3>3 DEF create_maintenance_window, CreateRefused
    <3>4. ASSUME NEW i \in DOMAIN windows, ExtendArrives(q, i)
          PROVE  Fits(req'[p], windows')
      <4>1. windows[i] \in WindowRow /\ Bounded(windows[i])
        BY <1>0 DEF Rows
      <4>2. Fits(NewRequest("extend", i, windows[i]), windows)
        BY <4>1 DEF NewRequest, Fits, ExtendFits
      <4> QED
        BY <2>1, <3>4, <4>2 DEF ExtendArrives
    <3>5. ASSUME NEW i \in DOMAIN windows, EndArrives(q, i)
          PROVE  Fits(req'[p], windows')
      <4>1. Fits([NewRequest("end", i, windows[i]) EXCEPT !.pc = "end"], windows)
        BY DEF NewRequest, Fits, EndFits
      <4> QED
        BY <2>1, <3>5, <4>1 DEF EndArrives
    <3>6. ASSUME NEW iv \in Intervals, ExtendBody(q, iv[2])
          PROVE  Fits(req'[p], windows')
      <4> DEFINE new == [req[q].row EXCEPT !.ends_at = iv[2]]
                 r == [req[q] EXCEPT !.pc = "write", !.new = new]
      <4>1. iv[2] \in Nat /\ MaxDuration \in Nat
        BY WindowsAssumption
      <4>2. req[q] \in RequestOf /\ req[q].kind = "extend" /\ ExtendFits(req[q], windows)
        BY <1>0, <3>6 DEF ExtendBody, Fits
      <4>3. req[q].row \in WindowRow
        BY <4>2 DEF ExtendFits
      <4>4. new \in WindowRow /\ new.ends_at = iv[2] /\ new.starts_at = req[q].row.starts_at
        BY <4>1, <4>3 DEF WindowRow
      <4>5. req[q].row.ends_at < iv[2] /\ Bounded(new)
        <5>1. /\ iv[2] > req[q].row.ends_at
              /\ iv[2] - req[q].row.starts_at <= MaxDuration
          BY <3>6 DEF ExtendBody, normalize_maintenance_extend
        <5>2. Bounded(req[q].row)
          BY <4>2 DEF ExtendFits
        <5>3. req[q].row.starts_at \in Nat /\ req[q].row.ends_at \in Nat
          BY <4>3 DEF WindowRow
        <5> HIDE DEF new
        <5> QED
          BY <4>1, <4>4, <5>1, <5>2, <5>3 DEF Bounded
      <4>6. new = [req[q].row EXCEPT !.ends_at = new.ends_at]
        BY <4>4
      <4>7. Step(q, None) \/ Step(q, r)
        BY <3>6 DEF ExtendBody
      <4> HIDE DEF new
      <4>8. /\ r.kind = "extend" /\ r.pc = "write" /\ r.new = new
            /\ r.id = req[q].id /\ r.row = req[q].row /\ r.dirty = req[q].dirty
        BY <4>2 DEF RequestOf
      <4> HIDE DEF r
      <4>9. Fits(r, windows)
        BY <4>2, <4>4, <4>5, <4>6, <4>8 DEF Fits, ExtendFits
      <4> QED
        BY <2>1, <4>7, <4>9
    <3>7. CASE extend_maintenance_window(q)
      BY <1>4, <3>7
    <3>8. CASE end_maintenance_window(q)
      BY <1>5, <3>8
    <3> QED
      BY <2>2, <3>1, <3>2, <3>3, <3>4, <3>5, <3>6, <3>7, <3>8 DEF RequestSteps
  <2>3. CASE req' = [q \in Requests |-> None]
    BY <2>3
  <2>4. CASE UNCHANGED req
    BY <1>0, <2>0, <2>4
  <2> QED
    BY <2>2, <2>3, <2>4, RequestWrites
<1> QED
  BY <1>2, <1>3, <1>4, <1>5, <1>6, WindowWrites

-----------------------------------------------------------------------------
(* Windows and what is about to be written                                 *)

\* Windows keep their target, start and origin; one that is ended stays as it
\* is, and ended_when says when it was ended.
LEMMA WindowsKeep ==
  ASSUME IInv, [Next]_vars
  PROVE  \A i \in DOMAIN windows :
           /\ i \in DOMAIN windows'
           /\ windows'[i].target = windows[i].target
           /\ windows'[i].starts_at = windows[i].starts_at
           /\ windows'[i].created_by = windows[i].created_by
           /\ windows[i].ended_at # None =>
                windows'[i] = windows[i] /\ ended_when'[i] = ended_when[i]
           /\ windows[i].ended_at = None /\ windows'[i].ended_at # None =>
                ended_when'[i] = now
<1> USE DEF IInv
<1>0. Rows
  BY DEF Rows, TypeOK, WindowsTypeOK, Bounded
<1> SUFFICES ASSUME NEW i \in DOMAIN windows
             PROVE  /\ i \in DOMAIN windows'
                    /\ windows'[i].target = windows[i].target
                    /\ windows'[i].starts_at = windows[i].starts_at
                    /\ windows'[i].created_by = windows[i].created_by
                    /\ windows[i].ended_at # None =>
                         windows'[i] = windows[i] /\ ended_when'[i] = ended_when[i]
                    /\ windows[i].ended_at = None /\ windows'[i].ended_at # None =>
                         ended_when'[i] = now
  OBVIOUS
<1>1. ASSUME NEW row, Insert(row)
      PROVE  /\ i \in DOMAIN windows' /\ windows'[i] = windows[i]
             /\ ended_when'[i] = ended_when[i]
  BY <1>1, InsertFits
<1>2. CASE \E q \in Requests : create_maintenance_window(q)
  BY <1>1, <1>2 DEF create_maintenance_window
<1>3. CASE \E o \in iter.todo : materialize_occurrence(o)
  BY <1>1, <1>3 DEF materialize_occurrence, MaterializeCurrent
<1>4. ASSUME NEW q \in Requests, extend_maintenance_window(q)
      PROVE  /\ DOMAIN windows' = DOMAIN windows /\ ended_when' = ended_when
             /\ windows'[i].target = windows[i].target
             /\ windows'[i].starts_at = windows[i].starts_at
             /\ windows'[i].created_by = windows[i].created_by
             /\ windows'[i].ended_at = windows[i].ended_at
             /\ windows[i].ended_at # None => windows'[i] = windows[i]
  <2> DEFINE new(r) == [r EXCEPT !.ends_at = req[q].new.ends_at]
  <2>1. \A r \in WindowRow : /\ new(r).target = r.target
                             /\ new(r).starts_at = r.starts_at
                             /\ new(r).created_by = r.created_by
                             /\ new(r).ended_at = r.ended_at
    BY DEF WindowRow
  <2>2. windows' = IF windows[req[q].id].ended_at # None THEN windows
                   ELSE [windows EXCEPT ![req[q].id] = new(@)]
    BY <1>4 DEF extend_maintenance_window
  <2> HIDE DEF new
  <2> QED
    BY <1>0, <1>4, <2>1, <2>2 DEF Rows, extend_maintenance_window
<1>5. ASSUME NEW q \in Requests, end_maintenance_window(q)
      PROVE  /\ DOMAIN windows' = DOMAIN windows
             /\ windows'[i].target = windows[i].target
             /\ windows'[i].starts_at = windows[i].starts_at
             /\ windows'[i].created_by = windows[i].created_by
             /\ windows[i].ended_at # None =>
                  windows'[i] = windows[i] /\ ended_when'[i] = ended_when[i]
             /\ windows[i].ended_at = None /\ windows'[i].ended_at # None =>
                  ended_when'[i] = now
  <2> DEFINE ended(r) == [r EXCEPT !.ended_at = req[q].at]
  <2>1. \A r \in WindowRow : /\ ended(r).target = r.target
                             /\ ended(r).starts_at = r.starts_at
                             /\ ended(r).created_by = r.created_by
    BY DEF WindowRow
  <2>2. IF windows[req[q].id].ended_at # None
        THEN windows' = windows /\ ended_when' = ended_when
        ELSE /\ windows' = [windows EXCEPT ![req[q].id] = ended(@)]
             /\ ended_when' = [ended_when EXCEPT ![req[q].id] = now]
    BY <1>5 DEF end_maintenance_window, windowVars
  <2> HIDE DEF ended
  <2> QED
    BY <1>0, <2>1, <2>2 DEF Rows
<1>6. CASE UNCHANGED windowVars
  BY <1>6 DEF windowVars
<1> QED
  BY <1>2, <1>3, <1>4, <1>5, <1>6, WindowWrites

\* A request comes to its write only while the loop is free; otherwise what is
\* about to be written stays the same.
LEMMA NewWriters ==
  ASSUME IInv, [Next]_vars, NEW p \in Requests, Writes(p)'
  PROVE  \/ Writes(p) /\ req'[p].id = req[p].id /\ req'[p].new = req[p].new
         \/ /\ LoopFree /\ UNCHANGED windowVars
            /\ \A q \in Requests \ {p} : req'[q] = req[q]
            /\ \/ \E t \in Targets, iv \in Intervals : CreateBody(p, t, iv[1], iv[2])
               \/ \E iv \in Intervals : ExtendBody(p, iv[2])
<1>0. req \in [Requests -> RequestOf \cup {None}]
  BY DEF IInv, TypeOK, WindowsTypeOK
<1>1. req'[p] # None /\ req'[p].pc = "write"
  BY DEF Writes
<1>2. ASSUME NEW q \in Requests, NEW r, Step(q, r), r = None \/ r.pc # "write"
      PROVE  Writes(p) /\ req'[p].id = req[p].id /\ req'[p].new = req[p].new
  BY <1>0, <1>1, <1>2 DEF Step, Writes
<1>3. ASSUME NEW q \in Requests, NEW i, Overtaken(q, i)
      PROVE  Writes(p) /\ req'[p].id = req[p].id /\ req'[p].new = req[p].new
  <2>1. p # q /\ req[p] # None
    BY <1>0, <1>1, <1>3 DEF Overtaken
  <2>2. req'[p] = req[p] \/ req'[p] = [req[p] EXCEPT !.dirty = TRUE]
    BY <1>0, <1>1, <1>3, <2>1 DEF Overtaken
  <2>3. req[p] \in RequestOf
    BY <1>0, <2>1
  <2> QED
    BY <1>1, <2>1, <2>2, <2>3 DEF Writes, RequestOf
<1>4. ASSUME NEW q \in Requests, NEW r, Step(q, None) \/ Step(q, r), LoopFree
      PROVE  p = q /\ \A x \in Requests \ {p} : req'[x] = req[x]
  BY <1>0, <1>1, <1>4 DEF Step, LoopFree
<1>5. ASSUME NEW q \in Requests, RequestSteps(q)
      PROVE  \/ Writes(p) /\ req'[p].id = req[p].id /\ req'[p].new = req[p].new
             \/ /\ LoopFree /\ UNCHANGED windowVars
                /\ \A x \in Requests \ {p} : req'[x] = req[x]
                /\ \/ \E t \in Targets, iv \in Intervals : CreateBody(p, t, iv[1], iv[2])
                   \/ \E iv \in Intervals : ExtendBody(p, iv[2])
  <2>1. CASE CreateArrives(q)
    BY <1>2, <2>1 DEF CreateArrives, NewRequest
  <2>2. ASSUME NEW t \in Targets, NEW iv \in Intervals, CreateBody(q, t, iv[1], iv[2])
        PROVE  /\ LoopFree /\ UNCHANGED windowVars
               /\ \A x \in Requests \ {p} : req'[x] = req[x]
               /\ CreateBody(p, t, iv[1], iv[2])
    <3>1. PICK r : Step(q, None) \/ Step(q, r)
      BY <2>2 DEF CreateBody
    <3>2. LoopFree /\ UNCHANGED windowVars
      BY <2>2 DEF CreateBody
    <3> QED
      BY <1>4, <2>2, <3>1, <3>2
  <2>3. CASE create_maintenance_window(q) \/ CreateRefused(q)
    BY <1>2, <2>3 DEF create_maintenance_window, CreateRefused
  <2>4. CASE \E i \in DOMAIN windows : ExtendArrives(q, i)
    BY <1>2, <2>4 DEF ExtendArrives, NewRequest
  <2>5. CASE \E i \in DOMAIN windows : EndArrives(q, i)
    BY <1>2, <2>5 DEF EndArrives, NewRequest
  <2>6. ASSUME NEW iv \in Intervals, ExtendBody(q, iv[2])
        PROVE  /\ LoopFree /\ UNCHANGED windowVars
               /\ \A x \in Requests \ {p} : req'[x] = req[x]
               /\ ExtendBody(p, iv[2])
    <3>1. PICK r : Step(q, None) \/ Step(q, r)
      BY <2>6 DEF ExtendBody
    <3>2. LoopFree /\ UNCHANGED windowVars
      BY <2>6 DEF ExtendBody
    <3> QED
      BY <1>4, <2>6, <3>1, <3>2
  <2>7. CASE extend_maintenance_window(q)
    BY <1>3, <2>7 DEF extend_maintenance_window
  <2>8. CASE end_maintenance_window(q)
    BY <1>2, <2>8 DEF end_maintenance_window
  <2> QED
    BY <1>5, <2>1, <2>2, <2>3, <2>4, <2>5, <2>6, <2>7, <2>8 DEF RequestSteps
<1>6. CASE req' = [q \in Requests |-> None]
  BY <1>1, <1>6
<1>7. CASE UNCHANGED req
  BY <1>7 DEF Writes
<1> QED
  BY <1>5, <1>6, <1>7, RequestWrites

LEMMA OneWriterStep ==
  ASSUME IInv, [Next]_vars
  PROVE  OneWriter'
<1> SUFFICES ASSUME NEW p \in Requests, NEW q \in Requests, Writes(p)', Writes(q)'
             PROVE  p = q
  BY DEF OneWriter
<1>1. CASE Writes(p) /\ Writes(q)
  BY <1>1 DEF IInv, OneWriter
<1>2. ASSUME NEW x \in Requests, NEW y \in Requests, Writes(y)', LoopFree,
             \A z \in Requests \ {x} : req'[z] = req[z]
      PROVE  x = y
  BY <1>2 DEF Writes, LoopFree
<1> QED
  BY <1>1, <1>2, NewWriters

\* A manual window after a step is a manual window from before, which an
\* extension may have lengthened, or the row of a creation.
LEMMA ManualWindows ==
  ASSUME IInv, [Next]_vars, NEW i \in DOMAIN windows',
         windows'[i].created_by = "MANUAL", windows'[i].ended_at = None
  PROVE  \/ i \in DOMAIN windows /\ windows'[i] = windows[i]
         \/ \E q \in Requests :
              /\ Writes(q) /\ req'[q] = None /\ i # None
              /\ windows'[i].target = req[q].new.target
              /\ windows'[i].starts_at = req[q].new.starts_at
              /\ windows'[i].ends_at = req[q].new.ends_at
              /\ \A j \in DOMAIN windows \ {i} : j # req[q].id
              /\ \A j \in DOMAIN windows' \ {i} :
                   j \in DOMAIN windows /\ windows'[j] = windows[j]
<1> USE DEF IInv
<1>0. /\ Rows /\ req \in [Requests -> RequestOf \cup {None}]
      /\ DOMAIN windows \subseteq Nat /\ None \notin Nat
      /\ \A q \in Requests : req[q] # None => Fits(req[q], windows)
  <2>1. Cardinality(DOMAIN windows) \in Nat
    BY FS_CardinalityType
  <2> QED
    BY <2>1, WindowsAssumption DEF Rows, TypeOK, WindowsTypeOK, Bounded, RequestsFit
<1>1. ASSUME NEW q \in Requests, create_maintenance_window(q)
      PROVE  \/ i \in DOMAIN windows /\ windows'[i] = windows[i]
             \/ /\ Writes(q) /\ req'[q] = None /\ i # None
                /\ windows'[i] = req[q].new
                /\ \A j \in DOMAIN windows \ {i} : j # req[q].id
                /\ \A j \in DOMAIN windows' \ {i} :
                     j \in DOMAIN windows /\ windows'[j] = windows[j]
  <2>1. Writes(q) /\ req'[q] = None
    BY <1>0, <1>1 DEF create_maintenance_window, Writes, Step
  <2>2. req[q].id = None
    BY <1>0, <1>1 DEF create_maintenance_window, Fits, CreateFits
  <2>3. Insert(req[q].new)
    BY <1>1 DEF create_maintenance_window
  <2> QED
    BY <1>0, <2>1, <2>2, <2>3, InsertFits
<1>2. ASSUME NEW q \in Requests, extend_maintenance_window(q)
      PROVE  \/ i \in DOMAIN windows /\ windows'[i] = windows[i]
             \/ /\ Writes(q) /\ req'[q] = None /\ i # None
                /\ windows'[i].target = req[q].new.target
                /\ windows'[i].starts_at = req[q].new.starts_at
                /\ windows'[i].ends_at = req[q].new.ends_at
                /\ \A j \in DOMAIN windows \ {i} : j # req[q].id
                /\ \A j \in DOMAIN windows' \ {i} :
                     j \in DOMAIN windows /\ windows'[j] = windows[j]
  <2>1. Writes(q) /\ req'[q] = None
    BY <1>0, <1>2 DEF extend_maintenance_window, Writes, Overtaken
  <2>2. ExtendFits(req[q], windows) /\ req[q].pc = "write"
    BY <1>0, <1>2 DEF extend_maintenance_window, Fits
  <2>3. /\ DOMAIN windows' = DOMAIN windows
        /\ \A j \in DOMAIN windows : j # req[q].id => windows'[j] = windows[j]
    BY <1>0, <1>2 DEF extend_maintenance_window, Rows
  <2>4. \/ windows' = windows
        \/ windows' = [windows EXCEPT ![req[q].id] =
                         [windows[req[q].id] EXCEPT !.ends_at = req[q].new.ends_at]]
    BY <1>0, <1>2 DEF extend_maintenance_window, Rows
  <2>5. CASE i # req[q].id
    BY <2>3, <2>5
  <2>6. CASE i = req[q].id
    <3>1. CASE windows' = windows
      BY <2>3, <3>1
    <3>2. CASE windows' = [windows EXCEPT ![i] =
                            [windows[i] EXCEPT !.ends_at = req[q].new.ends_at]]
      <4>1. windows'[i] = [windows[i] EXCEPT !.ends_at = req[q].new.ends_at]
        BY <1>0, <2>3, <3>2 DEF Rows
      <4>2. windows[i] \in WindowRow
        BY <1>0, <2>3 DEF Rows
      <4>3. /\ windows'[i].target = windows[i].target
            /\ windows'[i].starts_at = windows[i].starts_at
            /\ windows'[i].ends_at = req[q].new.ends_at
        BY <4>1, <4>2 DEF WindowRow
      <4>4. /\ req[q].new.target = req[q].row.target
            /\ req[q].new.starts_at = req[q].row.starts_at
        BY <2>2 DEF ExtendFits, WindowRow
      <4>5. i # None
        BY <1>0, <2>3
      <4> QED
        BY <2>1, <2>2, <2>3, <2>6, <4>3, <4>4, <4>5 DEF ExtendFits
    <3> QED
      BY <2>4, <2>6, <3>1, <3>2
  <2> QED
    BY <2>5, <2>6
<1>3. ASSUME NEW q \in Requests, end_maintenance_window(q)
      PROVE  i \in DOMAIN windows /\ windows'[i] = windows[i]
  <2>1. CASE windows' = windows
    BY <2>1
  <2>2. CASE windows' = [windows EXCEPT ![req[q].id].ended_at = req[q].at]
    <3>1. DOMAIN windows' = DOMAIN windows
      BY <2>2
    <3>2. CASE i = req[q].id
      <4>1. req[q].at # None
        BY <1>0, <1>3, WindowsAssumption DEF end_maintenance_window, RequestOf
      <4>2. windows'[i] = [windows[i] EXCEPT !.ended_at = req[q].at]
        BY <1>0, <2>2, <3>1, <3>2 DEF Rows
      <4>3. windows'[i].ended_at = req[q].at
        BY <1>0, <3>1, <4>2 DEF Rows, WindowRow
      <4> QED
        BY <4>1, <4>3
    <3>3. CASE i # req[q].id
      BY <1>0, <2>2, <3>1, <3>3 DEF Rows
    <3> QED
      BY <3>2, <3>3
  <2> QED
    BY <1>3, <2>1, <2>2 DEF end_maintenance_window, windowVars
<1>4. ASSUME NEW o \in iter.todo, materialize_occurrence(o)
      PROVE  i \in DOMAIN windows /\ windows'[i] = windows[i]
  <2> DEFINE row == Row(rules[o[1]].target, o[2], o[3], "RECURRING")
  <2>1. Insert(row)
    BY <1>4 DEF materialize_occurrence, MaterializeCurrent
  <2>2. row.created_by # "MANUAL"
    BY DEF Row
  <2> HIDE DEF row
  <2> QED
    BY <2>1, <2>2, InsertFits
<1>5. CASE UNCHANGED windowVars
  BY <1>5 DEF windowVars
<1> QED
  BY <1>1, <1>2, <1>3, <1>4, <1>5, WindowWrites

LEMMA ManualDisjointStep ==
  ASSUME IInv, [Next]_vars
  PROVE  ManualWindowsAreDisjoint'
<1> SUFFICES ASSUME NEW i \in DOMAIN windows', NEW j \in DOMAIN windows',
                    i # j, windows'[i].target = windows'[j].target,
                    windows'[i].created_by = "MANUAL", windows'[j].created_by = "MANUAL",
                    windows'[i].ended_at = None, windows'[j].ended_at = None
             PROVE  Apart(windows'[i], windows'[j])
  BY DEF ManualWindowsAreDisjoint, Apart
<1>1. ASSUME NEW a \in DOMAIN windows', NEW b \in DOMAIN windows', a # b,
             windows'[a].target = windows'[b].target,
             windows'[b].created_by = "MANUAL", windows'[b].ended_at = None,
             NEW q \in Requests,
             Writes(q),
             windows'[a].target = req[q].new.target,
             windows'[a].starts_at = req[q].new.starts_at,
             windows'[a].ends_at = req[q].new.ends_at,
             \A k \in DOMAIN windows \ {a} : k # req[q].id,
             \A k \in DOMAIN windows' \ {a} : k \in DOMAIN windows /\ windows'[k] = windows[k]
      PROVE  Apart(windows'[a], windows'[b])
  <2>1. b \in DOMAIN windows /\ windows'[b] = windows[b] /\ b # req[q].id
    BY <1>1
  <2>2. Apart(req[q].new, windows[b])
    BY <1>1, <2>1 DEF IInv, NoConflict
  <2> QED
    BY <1>1, <2>1, <2>2 DEF Apart
<1>2. CASE /\ i \in DOMAIN windows /\ windows'[i] = windows[i]
           /\ j \in DOMAIN windows /\ windows'[j] = windows[j]
  BY <1>2 DEF IInv, ManualWindowsAreDisjoint, Apart
<1>3. CASE ~(i \in DOMAIN windows /\ windows'[i] = windows[i])
  BY <1>1, <1>3, ManualWindows
<1>4. CASE ~(j \in DOMAIN windows /\ windows'[j] = windows[j])
  <2>1. Apart(windows'[j], windows'[i])
    BY <1>1, <1>4, ManualWindows
  <2> QED
    BY <2>1 DEF Apart
<1> QED
  BY <1>2, <1>3, <1>4

LEMMA NoConflictStep ==
  ASSUME IInv, [Next]_vars
  PROVE  NoConflict'
<1> SUFFICES ASSUME NEW q \in Requests, NEW i \in DOMAIN windows',
                    Writes(q)', i # req'[q].id, windows'[i].target = req'[q].new.target,
                    windows'[i].created_by = "MANUAL", windows'[i].ended_at = None
             PROVE  Apart(req'[q].new, windows'[i])
  BY DEF NoConflict
<1> USE DEF IInv
<1>0. /\ Rows /\ req \in [Requests -> RequestOf \cup {None}]
      /\ \A p \in Requests : req[p] # None => Fits(req[p], windows)
  BY DEF Rows, TypeOK, WindowsTypeOK, Bounded, RequestsFit
<1>1. CASE Writes(q) /\ req'[q].id = req[q].id /\ req'[q].new = req[q].new
  <2>1. i \in DOMAIN windows /\ windows'[i] = windows[i]
    BY <1>1, ManualWindows DEF OneWriter, Writes
  <2> QED
    BY <1>1, <2>1 DEF NoConflict
<1>2. ASSUME LoopFree, UNCHANGED windowVars,
             NEW t \in Targets, NEW iv \in Intervals, CreateBody(q, t, iv[1], iv[2])
      PROVE  Apart(req'[q].new, windows'[i])
  <2> DEFINE row == Row(t, iv[1], iv[2], "MANUAL")
  <2>0. windows' = windows
    BY <1>2 DEF windowVars
  <2>1. req'[q] # None
    BY DEF Writes
  <2>2. /\ req' = [req EXCEPT ![q] = [req[q] EXCEPT !.pc = "write", !.new = row]]
        /\ find_maintenance_conflict(t, iv[1], iv[2], {}) = {}
    BY <1>0, <1>2, <2>1 DEF CreateBody, Step
  <2>3. req[q] \in RequestOf
    BY <1>0, <1>2 DEF CreateBody
  <2>4. req'[q].new = row
    BY <1>0, <2>2, <2>3 DEF RequestOf
  <2>5. row.target = t /\ row.starts_at = iv[1] /\ row.ends_at = iv[2]
    BY DEF Row
  <2>6. iv[1] \in Nat /\ iv[2] \in Nat
    BY WindowsAssumption
  <2>7. windows[i].starts_at \in Nat /\ windows[i].ends_at \in Nat
    BY <1>0, <2>0 DEF Rows, WindowRow
  <2> HIDE DEF row
  <2>8. ~(windows[i].starts_at < iv[2] /\ windows[i].ends_at > iv[1])
    BY <2>0, <2>2, <2>4, <2>5 DEF find_maintenance_conflict
  <2> QED
    BY <2>0, <2>4, <2>5, <2>6, <2>7, <2>8 DEF Apart
<1>3. ASSUME LoopFree, UNCHANGED windowVars, NEW iv \in Intervals, ExtendBody(q, iv[2])
      PROVE  Apart(req'[q].new, windows'[i])
  <2> DEFINE row == [req[q].row EXCEPT !.ends_at = iv[2]]
  <2>0. windows' = windows
    BY <1>3 DEF windowVars
  <2>1. req'[q] # None
    BY DEF Writes
  <2>2. /\ req' = [req EXCEPT ![q] = [req[q] EXCEPT !.pc = "write", !.new = row]]
        /\ find_maintenance_conflict(req[q].row.target, req[q].row.starts_at, iv[2],
                                     {req[q].id}) = {}
    BY <1>0, <1>3, <2>1 DEF ExtendBody, Step
  <2>3. req[q] \in RequestOf /\ req[q].row \in WindowRow
    BY <1>0, <1>3 DEF ExtendBody, Fits, ExtendFits
  <2>4. req'[q].new = row /\ req'[q].id = req[q].id
    BY <1>0, <2>2, <2>3 DEF RequestOf
  <2>5. row.target = req[q].row.target /\ row.starts_at = req[q].row.starts_at
        /\ row.ends_at = iv[2] /\ req[q].row.starts_at \in Nat
    BY <2>3 DEF WindowRow
  <2>6. iv[2] \in Nat
    BY WindowsAssumption
  <2>7. windows[i].starts_at \in Nat /\ windows[i].ends_at \in Nat
    BY <1>0, <2>0 DEF Rows, WindowRow
  <2> HIDE DEF row
  <2>8. ~(windows[i].starts_at < iv[2] /\ windows[i].ends_at > req[q].row.starts_at)
    BY <2>0, <2>2, <2>4, <2>5 DEF find_maintenance_conflict
  <2> QED
    BY <2>0, <2>4, <2>5, <2>6, <2>7, <2>8 DEF Apart
<1> QED
  BY <1>1, <1>2, <1>3, NewWriters

-----------------------------------------------------------------------------
(* Occurrences and their events                                            *)

\* Occurrences are written by materialize_occurrence, their events by
\* claim_lifecycle_events.
LEMMA OccurrenceWrites ==
  ASSUME [Next]_vars
  PROVE  /\ \/ \E o \in iter.todo : materialize_occurrence(o)
            \/ UNCHANGED occurrences
         /\ claim_lifecycle_events \/ UNCHANGED lifecycle
<1>1. CASE RuleSteps
  BY <1>1 DEF RuleSteps, create_recurring_rule, update_recurring_rule,
              delete_recurring_rule
<1>2. CASE OtherSteps
  BY <1>2 DEF OtherSteps, MaterializerStep, IterationStarts, NothingToMaterialize,
              MaterializeRaises, claim_lifecycle_events, IterationFails, Restart,
              materialize_occurrence
<1>3. CASE UNCHANGED recurringVars
  BY <1>3 DEF recurringVars
<1>4. CASE UNCHANGED vars
  BY <1>4 DEF vars
<1> QED
  BY <1>1, <1>2, <1>3, <1>4, Steps

\* The new occurrence is the pair of the rule and the start of its window.
LEMMA MaterializedOccurrence ==
  ASSUME IInv, NEW o \in iter.todo, materialize_occurrence(o)
  PROVE  /\ NextWindow \in Nat /\ NextWindow \notin DOMAIN windows
         /\ DOMAIN windows' = DOMAIN windows \cup {NextWindow}
         /\ \A i \in DOMAIN windows : windows'[i] = windows[i]
         /\ windows'[NextWindow].created_by = "RECURRING"
         /\ windows'[NextWindow].starts_at = o[2]
         /\ Key(o) \notin DOMAIN occurrences
         /\ Key(o) \in RuleIds \X Instants /\ Key(o)[2] = o[2] /\ o[3] \in Nat
         /\ DOMAIN occurrences' = DOMAIN occurrences \cup {Key(o)}
         /\ occurrences' = [k \in DOMAIN occurrences' |->
                             IF k = Key(o) THEN [window |-> NextWindow, ends_at |-> o[3]]
                             ELSE occurrences[k]]
         /\ occurrences'[Key(o)] = [window |-> NextWindow, ends_at |-> o[3]]
         /\ \A k \in DOMAIN occurrences : occurrences'[k] = occurrences[k]
<1> DEFINE row == Row(rules[o[1]].target, o[2], o[3], "RECURRING")
<1>1. Insert(row)
  BY DEF materialize_occurrence, MaterializeCurrent
<1>2. row.created_by = "RECURRING" /\ row.starts_at = o[2]
  BY DEF Row
<1>3. CurrentRule(o) /\ Key(o) \notin DOMAIN occurrences
  BY DEF materialize_occurrence
<1>4. o[1] \in RuleIds /\ o[2] \in Instants /\ o[3] \in Nat
  BY <1>3, MaterializedRow DEF IInv
<1>5. /\ DOMAIN occurrences' = DOMAIN occurrences \cup {Key(o)}
      /\ occurrences' = [k \in DOMAIN occurrences' |->
                          IF k = Key(o) THEN [window |-> NextWindow, ends_at |-> o[3]]
                          ELSE occurrences[k]]
  BY DEF materialize_occurrence, MaterializeCurrent
<1>6. Key(o) \in RuleIds \X Instants /\ Key(o)[2] = o[2]
  BY <1>4 DEF Key
<1> HIDE DEF row
<1>7. /\ NextWindow \in Nat /\ NextWindow \notin DOMAIN windows
      /\ DOMAIN windows' = DOMAIN windows \cup {NextWindow}
      /\ \A i \in DOMAIN windows : windows'[i] = windows[i]
      /\ windows'[NextWindow] = row
  BY <1>1, InsertFits DEF IInv
<1>8. /\ occurrences'[Key(o)] = [window |-> NextWindow, ends_at |-> o[3]]
      /\ \A k \in DOMAIN occurrences : occurrences'[k] = occurrences[k]
  BY <1>3, <1>5
<1> QED
  BY <1>2, <1>3, <1>4, <1>5, <1>6, <1>7, <1>8

LEMMA OneWindowStep ==
  ASSUME IInv, [Next]_vars
  PROVE  OneWindowPerOccurrence'
<1>0. OneWindowPerOccurrence /\ TypeOK /\ IsFiniteSet(DOMAIN windows) /\ RequestsFit
  BY DEF IInv
<1>1. ASSUME NEW o \in iter.todo, materialize_occurrence(o)
      PROVE  OneWindowPerOccurrence'
  <2>0. /\ NextWindow \notin DOMAIN windows
        /\ DOMAIN windows' = DOMAIN windows \cup {NextWindow}
        /\ \A i \in DOMAIN windows : windows'[i] = windows[i]
        /\ windows'[NextWindow].created_by = "RECURRING"
        /\ windows'[NextWindow].starts_at = Key(o)[2]
        /\ Key(o) \notin DOMAIN occurrences
        /\ DOMAIN occurrences' = DOMAIN occurrences \cup {Key(o)}
        /\ occurrences'[Key(o)].window = NextWindow
        /\ \A k \in DOMAIN occurrences : occurrences'[k] = occurrences[k]
    <3>1. /\ NextWindow \notin DOMAIN windows
          /\ DOMAIN windows' = DOMAIN windows \cup {NextWindow}
          /\ \A i \in DOMAIN windows : windows'[i] = windows[i]
          /\ windows'[NextWindow].created_by = "RECURRING"
          /\ windows'[NextWindow].starts_at = o[2] /\ Key(o)[2] = o[2]
          /\ Key(o) \notin DOMAIN occurrences
          /\ DOMAIN occurrences' = DOMAIN occurrences \cup {Key(o)}
          /\ occurrences'[Key(o)] = [window |-> NextWindow, ends_at |-> o[3]]
          /\ \A k \in DOMAIN occurrences : occurrences'[k] = occurrences[k]
      BY <1>1, MaterializedOccurrence
    <3>2. occurrences'[Key(o)].window = NextWindow
      BY <3>1
    <3> QED
      BY <3>1, <3>2
  <2>1. /\ \A i \in DOMAIN windows : windows[i].created_by = "RECURRING" =>
             \E k \in DOMAIN occurrences : occurrences[k].window = i
        /\ \A k \in DOMAIN occurrences :
             /\ occurrences[k].window \in DOMAIN windows
             /\ windows[occurrences[k].window].created_by = "RECURRING"
             /\ windows[occurrences[k].window].starts_at = k[2]
        /\ \A k, l \in DOMAIN occurrences :
             occurrences[k].window = occurrences[l].window => k = l
    BY <1>0 DEF OneWindowPerOccurrence, Window
  <2>2. \A i \in DOMAIN windows' : windows'[i].created_by = "RECURRING" =>
          \E k \in DOMAIN occurrences' : occurrences'[k].window = i
    BY <2>0, <2>1
  <2>3. \A k \in DOMAIN occurrences' :
          /\ occurrences'[k].window \in DOMAIN windows'
          /\ windows'[occurrences'[k].window].created_by = "RECURRING"
          /\ windows'[occurrences'[k].window].starts_at = k[2]
    BY <2>0, <2>1
  <2>4. \A k, l \in DOMAIN occurrences' :
          occurrences'[k].window = occurrences'[l].window => k = l
    BY <2>0, <2>1
  <2> QED
    BY <2>2, <2>3, <2>4 DEF OneWindowPerOccurrence, Window
<1>2. CASE UNCHANGED occurrences
  <2>1. \A o \in DOMAIN occurrences :
          /\ occurrences'[o].window \in DOMAIN windows'
          /\ windows'[occurrences'[o].window].created_by = "RECURRING"
          /\ windows'[occurrences'[o].window].starts_at = o[2]
    BY <1>0, <1>2, WindowsKeep DEF OneWindowPerOccurrence, Window
  <2>2. ASSUME NEW i \in DOMAIN windows', windows'[i].created_by = "RECURRING",
               i \notin DOMAIN windows
        PROVE  \E o \in iter.todo : materialize_occurrence(o)
    <3>1. CASE \E q \in Requests : extend_maintenance_window(q)
      BY <2>2, <3>1 DEF extend_maintenance_window
    <3>2. CASE \E q \in Requests : end_maintenance_window(q)
      BY <2>2, <3>2 DEF end_maintenance_window, windowVars
    <3>3. ASSUME NEW q \in Requests, create_maintenance_window(q)
          PROVE  FALSE
      <4>1. Insert(req[q].new) /\ req[q].new.created_by = "MANUAL"
        BY <1>0, <3>3 DEF create_maintenance_window, RequestsFit, Fits, CreateFits
      <4>2. windows'[i] = req[q].new
        BY <1>0, <2>2, <4>1, InsertFits
      <4> QED
        BY <2>2, <4>1, <4>2
    <3>4. CASE UNCHANGED windowVars
      BY <2>2, <3>4 DEF windowVars
    <3> QED
      BY <3>1, <3>2, <3>3, <3>4, WindowWrites
  <2>3. ~ \E o \in iter.todo : materialize_occurrence(o)
    BY <1>2, MaterializedOccurrence
  <2>4. \A i \in DOMAIN windows' : windows'[i].created_by = "RECURRING" =>
          \E o \in DOMAIN occurrences' : occurrences'[o].window = i
    BY <1>0, <1>2, <2>2, <2>3, WindowsKeep DEF OneWindowPerOccurrence
  <2>5. \A o, p \in DOMAIN occurrences' :
          occurrences'[o].window = occurrences'[p].window => o = p
    BY <1>0, <1>2 DEF OneWindowPerOccurrence
  <2> QED
    BY <1>2, <2>1, <2>4, <2>5 DEF OneWindowPerOccurrence, Window
<1> QED
  BY <1>1, <1>2, OccurrenceWrites

LEMMA EventsFitStep ==
  ASSUME IInv, [Next]_vars
  PROVE  EventsFit'
<1> USE DEF IInv
<1>0. /\ EventsFit /\ OneWindowPerOccurrence
      /\ now \in Instants /\ Instants \subseteq Nat /\ iter.now \in Nat /\ iter.now <= now
      /\ DOMAIN lifecycle \subseteq DOMAIN occurrences
      /\ occurrences \in [DOMAIN occurrences -> [window : Nat, ends_at : Nat]]
      /\ now' \in Instants /\ now' >= now
  BY ClockWrites, WindowsAssumption DEF TypeOK, WindowsTypeOK
<1>1. CASE UNCHANGED lifecycle
  <2> SUFFICES ASSUME NEW o \in DOMAIN lifecycle
               PROVE  /\ "cancelled" \in lifecycle[o] => Cancelled(o)'
                      /\ "completed" \in lifecycle[o] =>
                           /\ occurrences'[o].ends_at <= now'
                           /\ Cancelled(o)' => ended_when'[occurrences'[o].window]
                                                >= occurrences'[o].ends_at
    BY <1>1 DEF EventsFit
  <2>1. o \in DOMAIN occurrences /\ occurrences'[o] = occurrences[o]
    <3>1. CASE UNCHANGED occurrences
      BY <1>0, <3>1
    <3>2. CASE \E k \in iter.todo : materialize_occurrence(k)
      BY <1>0, <3>2, MaterializedOccurrence
    <3> QED
      BY <3>1, <3>2, OccurrenceWrites
  <2> DEFINE w == occurrences[o].window
             end == occurrences[o].ends_at
  <2>2. w \in DOMAIN windows /\ end \in Nat
    BY <1>0, <2>1 DEF OneWindowPerOccurrence
  <2>3. /\ windows[w].ended_at # None =>
             windows'[w] = windows[w] /\ ended_when'[w] = ended_when[w]
        /\ windows[w].ended_at = None /\ windows'[w].ended_at # None =>
             ended_when'[w] = now
    BY <2>2, WindowsKeep
  <2>4. /\ Cancelled(o) <=> windows[w].ended_at # None /\ windows[w].ended_at < end
        /\ Cancelled(o)' <=> windows'[w].ended_at # None /\ windows'[w].ended_at < end
    BY <2>1 DEF Cancelled, Window
  <2>5. /\ "cancelled" \in lifecycle[o] => Cancelled(o)
        /\ "completed" \in lifecycle[o] =>
             end <= now /\ (Cancelled(o) => ended_when[w] >= end)
    BY <1>0 DEF EventsFit
  <2> HIDE DEF w, end
  <2>6. "cancelled" \in lifecycle[o] => Cancelled(o)'
    BY <2>3, <2>4, <2>5
  <2>7. ASSUME "completed" \in lifecycle[o]
        PROVE  end <= now' /\ (Cancelled(o)' => ended_when'[w] >= end)
    <3>1. end <= now'
      BY <1>0, <2>2, <2>5, <2>7
    <3>2. CASE windows[w].ended_at # None
      BY <2>3, <2>4, <2>5, <2>7, <3>1, <3>2
    <3>3. CASE windows[w].ended_at = None
      BY <1>0, <2>2, <2>3, <2>4, <2>5, <2>7, <3>1, <3>3
    <3> QED
      BY <3>2, <3>3
  <2> QED
    BY <2>1, <2>6, <2>7 DEF w, end
<1>2. CASE claim_lifecycle_events
  <2>1. /\ windows' = windows /\ ended_when' = ended_when
        /\ occurrences' = occurrences /\ now' = now
    BY <1>2 DEF claim_lifecycle_events, wvars, windowVars
  <2> SUFFICES ASSUME NEW o \in DOMAIN occurrences
               PROVE  /\ "cancelled" \in lifecycle'[o] => Cancelled(o)
                      /\ "completed" \in lifecycle'[o] =>
                           /\ occurrences[o].ends_at <= now
                           /\ Cancelled(o) => ended_when[occurrences[o].window]
                                               >= occurrences[o].ends_at
    <3>1. DOMAIN lifecycle' = DOMAIN occurrences
      BY <1>2 DEF claim_lifecycle_events
    <3> QED
      BY <2>1, <3>1 DEF EventsFit, Cancelled, Window
  <2>2. lifecycle'[o] = (IF o \in DOMAIN lifecycle THEN lifecycle[o] ELSE {})
                        \cup Claim(o, iter.now)
    BY <1>2 DEF claim_lifecycle_events
  <2>3. /\ "cancelled" \in Claim(o, iter.now) => Cancelled(o)
        /\ "completed" \in Claim(o, iter.now) =>
             ~Cancelled(o) /\ occurrences[o].ends_at <= iter.now
    BY DEF Claim
  <2>4. occurrences[o].ends_at \in Nat
    BY <1>0
  <2> QED
    BY <1>0, <2>2, <2>3, <2>4 DEF EventsFit
<1> QED
  BY <1>1, <1>2, OccurrenceWrites

-----------------------------------------------------------------------------
(* The rest of the types, and the invariant                                *)

LEMMA RulesTypeStep ==
  ASSUME IInv, [Next]_vars
  PROVE  /\ rules' \in [RuleIds -> RuleOf \cup {None}]
         /\ \A r \in RuleIds : rules'[r] # None => r \notin deleted'
<1>0. /\ rules \in [RuleIds -> RuleOf \cup {None}] /\ now \in Instants
      /\ \A r \in RuleIds : rules[r] # None => r \notin deleted
  BY DEF IInv, TypeOK, WindowsTypeOK
<1>1. \A b \in Bodies : RuleRow(b, now) \in RuleOf
  BY <1>0, RecurringAssumption DEF RuleRow, RuleOf, BodyOK
<1>2. CASE RuleSteps
  <2>1. ASSUME NEW r \in RuleIds, NEW b \in Bodies, create_recurring_rule(r, b)
        PROVE  /\ rules' \in [RuleIds -> RuleOf \cup {None}]
               /\ \A x \in RuleIds : rules'[x] # None => x \notin deleted'
    BY <1>0, <1>1, <2>1 DEF create_recurring_rule
  <2>2. ASSUME NEW r \in RuleIds, NEW b \in Bodies, update_recurring_rule(r, b)
        PROVE  /\ rules' \in [RuleIds -> RuleOf \cup {None}]
               /\ \A x \in RuleIds : rules'[x] # None => x \notin deleted'
    BY <1>0, <1>1, <2>2 DEF update_recurring_rule
  <2>3. ASSUME NEW r \in RuleIds, delete_recurring_rule(r)
        PROVE  /\ rules' \in [RuleIds -> RuleOf \cup {None}]
               /\ \A x \in RuleIds : rules'[x] # None => x \notin deleted'
    BY <1>0, <2>3 DEF delete_recurring_rule
  <2> QED
    BY <1>2, <2>1, <2>2, <2>3 DEF RuleSteps
<1>3. CASE UNCHANGED ruleVars
  BY <1>0, <1>3 DEF ruleVars
<1>4. CASE OtherSteps
  BY <1>3, <1>4 DEF OtherSteps, MaterializerStep, IterationStarts, NothingToMaterialize,
              MaterializeRaises, claim_lifecycle_events, IterationFails, Restart,
              materialize_occurrence
<1> QED
  BY <1>2, <1>3, <1>4, Steps DEF recurringVars, vars

LEMMA OccurrencesTypeStep ==
  ASSUME IInv, [Next]_vars
  PROVE  /\ DOMAIN occurrences' \subseteq RuleIds \X Instants
         /\ occurrences' \in [DOMAIN occurrences' -> [window : Nat, ends_at : Nat]]
         /\ DOMAIN lifecycle' \subseteq DOMAIN occurrences'
         /\ lifecycle' \in [DOMAIN lifecycle' -> SUBSET {"started", "completed", "cancelled"}]
<1>0. /\ DOMAIN occurrences \subseteq RuleIds \X Instants
      /\ occurrences \in [DOMAIN occurrences -> [window : Nat, ends_at : Nat]]
      /\ DOMAIN lifecycle \subseteq DOMAIN occurrences
      /\ lifecycle \in [DOMAIN lifecycle -> SUBSET {"started", "completed", "cancelled"}]
  BY DEF IInv, TypeOK
<1>1. /\ DOMAIN occurrences' \subseteq RuleIds \X Instants
      /\ occurrences' \in [DOMAIN occurrences' -> [window : Nat, ends_at : Nat]]
      /\ DOMAIN occurrences \subseteq DOMAIN occurrences'
  <2>1. CASE UNCHANGED occurrences
    BY <1>0, <2>1
  <2>2. ASSUME NEW o \in iter.todo, materialize_occurrence(o)
        PROVE  /\ DOMAIN occurrences' \subseteq RuleIds \X Instants
               /\ occurrences' \in [DOMAIN occurrences' -> [window : Nat, ends_at : Nat]]
               /\ DOMAIN occurrences \subseteq DOMAIN occurrences'
    <3>1. /\ Key(o) \in RuleIds \X Instants /\ o[3] \in Nat /\ NextWindow \in Nat
          /\ DOMAIN occurrences' = DOMAIN occurrences \cup {Key(o)}
          /\ occurrences' = [k \in DOMAIN occurrences' |-> occurrences'[k]]
          /\ occurrences'[Key(o)] = [window |-> NextWindow, ends_at |-> o[3]]
          /\ \A k \in DOMAIN occurrences : occurrences'[k] = occurrences[k]
      BY <2>2, MaterializedOccurrence
    <3>2. \A k \in DOMAIN occurrences' : occurrences'[k] \in [window : Nat, ends_at : Nat]
      BY <1>0, <3>1
    <3> QED
      BY <1>0, <3>1, <3>2
  <2> QED
    BY <2>1, <2>2, OccurrenceWrites
<1>2. CASE UNCHANGED lifecycle
  BY <1>0, <1>1, <1>2
<1>3. CASE claim_lifecycle_events
  <2>1. DOMAIN lifecycle' = DOMAIN occurrences
    BY <1>3 DEF claim_lifecycle_events
  <2>2. \A o \in DOMAIN occurrences :
          lifecycle'[o] = (IF o \in DOMAIN lifecycle THEN lifecycle[o] ELSE {})
                          \cup Claim(o, iter.now)
    BY <1>3 DEF claim_lifecycle_events
  <2>3. \A o \in DOMAIN occurrences :
          Claim(o, iter.now) \subseteq {"started", "completed", "cancelled"}
    BY DEF Claim
  <2>4. \A o \in DOMAIN occurrences :
          lifecycle'[o] \subseteq {"started", "completed", "cancelled"}
    BY <1>0, <2>2, <2>3
  <2>5. lifecycle' = [o \in DOMAIN lifecycle' |-> lifecycle'[o]]
    BY <1>3 DEF claim_lifecycle_events
  <2> QED
    BY <1>1, <2>1, <2>4, <2>5
<1> QED
  BY <1>2, <1>3, OccurrenceWrites

LEMMA IterationTypeStep ==
  ASSUME IInv, [Next]_vars
  PROVE  /\ iter' \in [pc : {"idle", "materialize"}, now : Nat,
                       todo : SUBSET (RuleIds \X Instants \X Nat)]
         /\ iter'.now <= now'
         /\ \A o \in iter'.todo : o[3] - o[2] \in 1 .. MaxDuration
<1> DEFINE Good(t) == t \in RuleIds \X Instants \X Nat /\ t[3] - t[2] \in 1 .. MaxDuration
<1>0. /\ iter \in [pc : {"idle", "materialize"}, now : Nat,
                   todo : SUBSET (RuleIds \X Instants \X Nat)]
      /\ iter.now <= now
      /\ \A o \in iter.todo : o[3] - o[2] \in 1 .. MaxDuration
      /\ now \in Nat /\ now' \in Nat /\ now' >= now
      /\ MaxDuration \in Nat /\ Instants \subseteq Nat
  BY ClockWrites, WindowsAssumption DEF IInv, TypeOK, WindowsTypeOK
<1>1. CASE UNCHANGED iter
  BY <1>0, <1>1
<1>2. CASE iter' = Idle
  BY <1>0, <1>2 DEF Idle
<1>3. ASSUME NEW o \in iter.todo, Rest(o)
      PROVE  /\ iter' \in [pc : {"idle", "materialize"}, now : Nat,
                           todo : SUBSET (RuleIds \X Instants \X Nat)]
             /\ iter'.now <= now'
             /\ \A p \in iter'.todo : p[3] - p[2] \in 1 .. MaxDuration
  <2>1. iter'.pc = iter.pc /\ iter'.now = iter.now /\ iter'.todo = iter.todo \ {o}
        /\ iter' = [iter EXCEPT !.todo = iter.todo \ {o}]
    BY <1>0, <1>3 DEF Rest
  <2> QED
    BY <1>0, <2>1
<1>4. CASE IterationStarts
  <2>1. ASSUME NEW r \in RuleIds, rules[r] # None, NEW s \in due_occurrences(rules[r], now)
        PROVE  Good(<<r, s, s + rules[r].duration>>)
    <3>1. rules[r] \in RuleOf
      BY <2>1 DEF IInv, TypeOK
    <3>2. s \in Instants /\ rules[r].duration \in 1 .. MaxDuration
      BY <2>1, <3>1 DEF RuleOf, due_occurrences
    <3>3. s \in Nat /\ rules[r].duration \in Nat /\ s + rules[r].duration \in Nat
          /\ (s + rules[r].duration) - s \in 1 .. MaxDuration
      BY <1>0, <3>2
    <3> QED
      BY <3>2, <3>3
  <2>2. \A t \in iter'.todo : Good(t)
    <3> HIDE DEF Good
    <3> QED
      BY <1>4, <2>1 DEF IterationStarts
  <2>3. /\ iter' = [pc |-> "materialize", now |-> now, todo |-> iter'.todo] /\ now' = now
    BY <1>4 DEF IterationStarts, wvars
  <2> QED
    BY <1>0, <2>2, <2>3
<1>5. CASE RuleSteps
  BY <1>1, <1>5 DEF RuleSteps, create_recurring_rule, update_recurring_rule,
              delete_recurring_rule
<1>6. CASE MaterializerStep
  BY <1>2, <1>3, <1>6 DEF MaterializerStep, materialize_occurrence, NothingToMaterialize,
              MaterializeRaises, claim_lifecycle_events
<1>7. CASE IterationFails \/ Restart
  BY <1>2, <1>7 DEF IterationFails, Restart
<1> QED
  BY <1>1, <1>4, <1>5, <1>6, <1>7, Steps DEF OtherSteps, recurringVars, vars

LEMMA CountersTypeStep ==
  ASSUME IInv, [Next]_vars
  PROVE  groups' \subseteq Groups /\ events' \in 0 .. Events
<1>0. groups \subseteq Groups /\ events \in 0 .. Events /\ Events \in Nat
  BY WindowsAssumption DEF IInv, TypeOK, WindowsTypeOK
<1>1. Event \/ UNCHANGED events => events' \in 0 .. Events
  BY <1>0 DEF Event
<1>2. CASE Tick
  BY <1>0, <1>2 DEF Tick
<1>3. CASE \E q \in Requests : RequestSteps(q)
  BY <1>0, <1>1, <1>3 DEF RequestSteps, CreateArrives, CreateBody, CreateRefused,
              ExtendArrives, EndArrives, ExtendBody, create_maintenance_window,
              extend_maintenance_window, end_maintenance_window
<1>4. CASE \E g \in Groups : delete_group(g)
  BY <1>0, <1>1, <1>4 DEF delete_group
<1>5. CASE RuleSteps
  BY <1>0, <1>1, <1>5 DEF RuleSteps, create_recurring_rule, update_recurring_rule,
              delete_recurring_rule
<1>6. CASE OtherSteps
  BY <1>0, <1>1, <1>6 DEF OtherSteps, MaterializerStep, IterationStarts,
              NothingToMaterialize, MaterializeRaises, claim_lifecycle_events,
              IterationFails, Restart, materialize_occurrence, wvars
<1>7. CASE UNCHANGED vars
  BY <1>0, <1>7 DEF vars, wvars
<1> QED
  BY <1>2, <1>3, <1>4, <1>5, <1>6, <1>7, Steps

LEMMA TypeStep ==
  ASSUME IInv, [Next]_vars
  PROVE  TypeOK' /\ IsFiniteSet(DOMAIN windows)'
<1>1. now' \in Instants
  BY ClockWrites DEF IInv, TypeOK, WindowsTypeOK
<1>2. /\ IsFiniteSet(DOMAIN windows)
      /\ DOMAIN windows = 1 .. Cardinality(DOMAIN windows)
      /\ windows \in [DOMAIN windows -> WindowRow]
      /\ \A i \in DOMAIN windows : Bounded(windows[i])
      /\ ended_when \in [DOMAIN windows -> Instants \cup {None}]
      <=> Rows
  BY DEF Rows
<1>3. WindowsTypeOK'
  BY <1>1, RowsStep, RequestsTypeStep, CountersTypeStep DEF Rows, WindowsTypeOK, Bounded
<1>4. IsFiniteSet(DOMAIN windows)'
  BY RowsStep DEF Rows
<1> QED
  BY <1>3, <1>4, RulesTypeStep, OccurrencesTypeStep, IterationTypeStep DEF TypeOK

LEMMA InitInvariant == Init => IInv
<1> SUFFICES ASSUME Init
             PROVE  IInv
  OBVIOUS
<1>1. /\ now \in Instants /\ groups = Groups /\ events = 0
      /\ DOMAIN windows = {} /\ DOMAIN ended_when = {}
      /\ windows = [i \in {} |-> None] /\ ended_when = [i \in {} |-> None]
      /\ req = [q \in Requests |-> None] /\ iter = Idle
      /\ DOMAIN occurrences = {} /\ DOMAIN lifecycle = {} /\ deleted = {}
      /\ occurrences = [o \in {} |-> None] /\ lifecycle = [o \in {} |-> {}]
      /\ Instants \subseteq Nat /\ Events \in Nat
  BY WindowsAssumption DEF Init, WindowsInit
<1>2. IsFiniteSet({}) /\ Cardinality({}) = 0 /\ 1 .. 0 = {}
  BY FS_EmptySet
<1>3. WindowsTypeOK
  <2>1. DOMAIN windows = 1 .. Cardinality(DOMAIN windows)
    BY <1>1, <1>2
  <2> QED
    BY <1>1, <2>1 DEF WindowsTypeOK
<1>4. rules \in [RuleIds -> RuleOf \cup {None}]
  <2>1. \A b \in Bodies : RuleRow(b, now) \in RuleOf
    BY <1>1, RecurringAssumption DEF RuleRow, RuleOf, BodyOK
  <2> QED
    BY <2>1 DEF Init
<1>5. TypeOK
  BY <1>1, <1>3, <1>4 DEF TypeOK, Idle
<1>6. IsFiniteSet(DOMAIN windows)
  BY <1>1, <1>2
<1>7. RequestsFit /\ OneWriter
  BY <1>1 DEF RequestsFit, OneWriter, Writes
<1>8. NoConflict /\ ManualWindowsAreDisjoint /\ OneWindowPerOccurrence /\ EventsFit
  BY <1>1 DEF NoConflict, ManualWindowsAreDisjoint, OneWindowPerOccurrence, EventsFit
<1> QED
  BY <1>5, <1>6, <1>7, <1>8 DEF IInv

LEMMA InductiveInvariant == Spec => []IInv
<1>1. IInv /\ [Next]_vars => IInv'
  BY TypeStep, RequestsFitStep, OneWriterStep, NoConflictStep, ManualDisjointStep,
     OneWindowStep, EventsFitStep DEF IInv
<1> QED
  BY <1>1, InitInvariant, PTL DEF Spec

-----------------------------------------------------------------------------
(* Theorems                                                                *)

\* Types; no window is ever longer than MAX_MAINTENANCE_DURATION_SECONDS, for
\* any number of requests, extensions and rules.
THEOREM TypeCorrect == Spec => []TypeOK
<1>1. IInv => TypeOK
  BY DEF IInv
<1> QED
  BY <1>1, InductiveInvariant, PTL

\* The windows that operators give one target never overlap: whoever is about
\* to write has looked for a conflict, and nobody else writes one before.
THEOREM ManualDisjoint == Spec => []ManualWindowsAreDisjoint
<1>1. IInv => ManualWindowsAreDisjoint
  BY DEF IInv
<1> QED
  BY <1>1, InductiveInvariant, PTL

\* An occurrence of a rule becomes one window at most, and every recurring
\* window is that of an occurrence, over failures and restarts.
THEOREM OneWindow == Spec => []OneWindowPerOccurrence
<1>1. IInv => OneWindowPerOccurrence
  BY DEF IInv
<1> QED
  BY <1>1, InductiveInvariant, PTL

\* An occurrence is reported cancelled or completed; both only if the request
\* that ended it wrote after the planned end with a clock from before.
THEOREM OneOutcome == Spec => []CancelledOrCompleted
<1>1. IInv => CancelledOrCompleted
  BY DEF IInv, EventsFit, CancelledOrCompleted, Cancelled
<1> QED
  BY <1>1, InductiveInvariant, PTL

\* A window that was ended is never written again.
THEOREM EndIsFinal == Spec => EndedWindowsAreFinal
<1>1. IInv /\ [Next]_vars =>
        [\A i \in DOMAIN windows : windows[i].ended_at # None => windows'[i] = windows[i]]_wvars
  BY WindowsKeep
<1> QED
  BY <1>1, InductiveInvariant, PTL DEF Spec, EndedWindowsAreFinal

\* An extension shortens a window only if another one was written while it
\* awaited its body.
THEOREM ExtensionsExtend == Spec => OnlyOvertakenExtensionsShorten
<1> DEFINE A == \A i \in DOMAIN windows :
                  windows'[i].ends_at < windows[i].ends_at =>
                    \E q \in Requests : req[q] # None /\ req[q].id = i /\ req[q].dirty
                                        /\ req'[q] = None
<1>1. ASSUME IInv, [Next]_vars
      PROVE  A
  <2> SUFFICES ASSUME NEW i \in DOMAIN windows, windows'[i].ends_at < windows[i].ends_at
               PROVE  \E q \in Requests : req[q] # None /\ req[q].id = i /\ req[q].dirty
                                          /\ req'[q] = None
    OBVIOUS
  <2>0. /\ Rows /\ req \in [Requests -> RequestOf \cup {None}]
        /\ \A q \in Requests : req[q] # None => Fits(req[q], windows)
    BY <1>1 DEF IInv, Rows, TypeOK, WindowsTypeOK, Bounded, RequestsFit
  <2>1. windows[i].ends_at \in Nat
    BY <2>0 DEF Rows, WindowRow
  <2>2. ASSUME NEW row, Insert(row)
        PROVE  FALSE
    <3>1. windows'[i] = windows[i]
      BY <1>1, <2>2, InsertFits DEF IInv
    <3> QED
      BY <2>1, <3>1
  <2>3. CASE \E q \in Requests : create_maintenance_window(q)
    BY <2>2, <2>3 DEF create_maintenance_window
  <2>4. CASE \E o \in iter.todo : materialize_occurrence(o)
    BY <2>2, <2>4 DEF materialize_occurrence, MaterializeCurrent
  <2>5. ASSUME NEW q \in Requests, end_maintenance_window(q)
        PROVE  FALSE
    <3> DEFINE ended(r) == [r EXCEPT !.ended_at = req[q].at]
    <3>1. \A r \in WindowRow : ended(r).ends_at = r.ends_at
      BY DEF WindowRow
    <3>2. windows' = windows \/ windows' = [windows EXCEPT ![req[q].id] = ended(@)]
      BY <2>5 DEF end_maintenance_window, windowVars
    <3> HIDE DEF ended
    <3>3. windows'[i].ends_at = windows[i].ends_at
      BY <2>0, <3>1, <3>2 DEF Rows
    <3> QED
      BY <2>1, <3>3
  <2>6. ASSUME NEW q \in Requests, extend_maintenance_window(q)
        PROVE  req[q] # None /\ req[q].id = i /\ req[q].dirty /\ req'[q] = None
    <3>1. req[q] \in RequestOf /\ req[q] # None /\ req'[q] = None
      BY <2>0, <2>6 DEF extend_maintenance_window, Overtaken
    <3>2. ExtendFits(req[q], windows) /\ req[q].pc = "write"
      BY <2>0, <2>6 DEF extend_maintenance_window, Fits
    <3>3. \/ windows' = windows
          \/ windows' = [windows EXCEPT ![req[q].id] =
                           [windows[req[q].id] EXCEPT !.ends_at = req[q].new.ends_at]]
      BY <2>0, <2>6 DEF extend_maintenance_window, Rows
    <3>4. windows' # windows
      BY <2>1
    <3>5. req[q].id = i
      BY <2>0, <2>1, <3>3, <3>4 DEF Rows
    <3>6. windows'[i].ends_at = req[q].new.ends_at
      BY <2>0, <3>3, <3>4, <3>5 DEF Rows, WindowRow
    <3>7. req[q].row.ends_at < req[q].new.ends_at
      BY <3>2 DEF ExtendFits
    <3>8. req[q].new.ends_at \in Nat /\ req[q].row.ends_at \in Nat
      BY <3>2 DEF ExtendFits, WindowRow
    <3>9. req[q].row.ends_at # windows[i].ends_at
      BY <2>1, <3>6, <3>7, <3>8
    <3> QED
      BY <3>1, <3>2, <3>5, <3>9 DEF ExtendFits
  <2>7. CASE UNCHANGED windowVars
    BY <2>1, <2>7 DEF windowVars
  <2> QED
    BY <1>1, <2>3, <2>4, <2>5, <2>6, <2>7, WindowWrites
<1>2. IInv /\ [Next]_vars => [A]_wvars
  BY <1>1
<1> QED
  BY <1>2, InductiveInvariant, PTL DEF Spec, OnlyOvertakenExtensionsShorten

=============================================================================
