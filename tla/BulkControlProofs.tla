-------------------------- MODULE BulkControlProofs --------------------------
(***************************************************************************)
(* Theorems about BulkControl.  The inductive invariant IInv says how the  *)
(* results so far fit the targets (Fits), and that every ASIC that can be  *)
(* commanded now, and the one whose turn it is under the lock, is among    *)
(* those of history (Fresh).                                               *)
(***************************************************************************)
EXTENDS BulkControl, SequenceTheorems, FiniteSetTheorems, TLAPS

Statuses == {"NONE", "QUEUED", "RUNNING", "VERIFIED", "FAILED", "ABORTED"}

LedgerTypes ==
  /\ status \in [Jobs -> Statuses]
  /\ miner_id \in [Jobs -> Miners \cup {None}]
  /\ attempts \in [Jobs -> Nat]
  /\ max \in [Jobs -> Nat]

RowTypes ==
  /\ known \in SUBSET Miners
  /\ enabled \in [Miners -> BOOLEAN]
  /\ supported \in [Miners -> BOOLEAN]
  /\ group_id \in [Miners -> Groups \cup {None}]
  /\ lately \in SUBSET Miners
  /\ edits \in Nat

Code == {"NOT_FOUND", "DISABLED", "UNSUPPORTED_DRIVER", "ACTIVE_JOB", "QUEUE_ERROR",
         "ELIGIBLE", "QUEUED"}

Target == [id : Miners, code : Code, job : Jobs \cup {None}]

Result == [id : Miners, accepted : BOOLEAN, job : Jobs \cup {None}, code : Code]

BulkRequest ==
  [pc : {"next", "lock", "done"}, action : {"pause", "reboot"}, ids : Seq(Miners),
   targets : Seq(Target), results : Seq(Result)]

TypeOK == LedgerTypes /\ RowTypes /\ bulk \in {Idle} \cup BulkRequest

\* The targets are those of the selection, in its order, and so are the
\* results, as far as there are any.
Fits ==
  bulk.pc # "idle" =>
    /\ Len(bulk.targets) = Len(bulk.ids)
    /\ \A i \in 1 .. Len(bulk.ids) : bulk.targets[i].id = bulk.ids[i]
    /\ Len(bulk.results) =< Len(bulk.targets)
    /\ \A i \in 1 .. Len(bulk.results) : bulk.results[i].id = bulk.ids[i]
    /\ bulk.pc = "lock" => Len(bulk.results) < Len(bulk.targets)
    /\ bulk.pc = "done" => Len(bulk.results) = Len(bulk.targets)

Fresh ==
  bulk.pc # "idle" => /\ Commandable \subseteq lately
                      /\ bulk.pc = "lock" => TurnOf.id \in lately

IInv == TypeOK /\ Fits /\ Fresh
-----------------------------------------------------------------------------
(* The selection                                                           *)

LEMMA Selection ==
  ASSUME NEW S \in SUBSET Miners
  PROVE  SetToSeq(S) \in Seq(Miners)
<1>1. IsFiniteSet(S)
  BY FS_Subset, BulkAssumption
<1>2. PICK f : f \in Bijection(1 .. Cardinality(S), S)
  BY <1>1, FS_CardinalityType DEF ExistsBijection
<1>3. f \in [1 .. Cardinality(S) -> S] /\ IsInjective(f)
  BY <1>2 DEF Bijection, Injection, IsInjective
<1>4. SetToSeq(S) \in [1 .. Cardinality(S) -> S]
  BY <1>3 DEF SetToSeq
<1>5. Cardinality(S) \in Nat
  BY <1>1, FS_CardinalityType
<1>6. SetToSeq(S) \in [1 .. Cardinality(S) -> Miners]
  BY <1>4
<1> QED
  BY <1>5, <1>6, SeqDef

LEMMA Selections ==
  ASSUME NEW ids \in BoundedSeq(Miners, BULK_CONTROL_MAX_TARGETS + 1)
  PROVE  ids \in Seq(Miners)
<1>1. PICK n \in 0 .. BULK_CONTROL_MAX_TARGETS + 1 : ids \in [1 .. n -> Miners]
  BY DEF BoundedSeq, SeqOf
<1> QED
  BY <1>1, SeqDef, BulkAssumption

\* A request starts with one target for each ASIC it selects, in their order.
LEMMA Starting ==
  ASSUME NEW action \in {"pause", "reboot"}, NEW ids \in Seq(Miners), 
         NEW targets \in [DOMAIN ids -> Target],
         \A i \in DOMAIN ids : targets[i].id = ids[i],
         Starts(action, ids, targets), RowTypes
  PROVE  bulk' \in BulkRequest /\ RowTypes' /\ Fits' /\ Fresh'
<1>1. /\ Len(ids) \in Nat /\ DOMAIN ids = 1 .. Len(ids)
  BY LenProperties
<1>2. targets \in [1 .. Len(ids) -> Target]
  BY <1>1
<1>3. targets \in Seq(Target) /\ Len(targets) = Len(ids)
  <2>1. targets \in Seq(Target)
    BY <1>1, <1>2, SeqDef
  <2>2. DOMAIN targets = 1 .. Len(targets) /\ Len(targets) \in Nat
    BY <2>1, LenProperties
  <2> QED
    BY <1>1, <1>2, <2>1, <2>2
<1>4. bulk' = [pc |-> "next", action |-> action, ids |-> ids, targets |-> targets,
               results |-> <<>>]
  BY DEF Starts
<1>5. <<>> \in Seq(Result) /\ Len(<<>>) = 0
  BY EmptySeq
<1>6. bulk' \in BulkRequest
  BY <1>3, <1>4, <1>5 DEF BulkRequest
<1>7. Fits'
  <2>1. \A i \in 1 .. Len(ids) : targets[i].id = ids[i]
    BY <1>1
  <2> QED
    BY <1>1, <1>3, <1>4, <1>5, <2>1 DEF Fits
<1>8. RowTypes' /\ Fresh'
  BY <1>4 DEF Starts, RowTypes, Fresh, Commandable, rows
<1> QED
  BY <1>6, <1>7, <1>8

LEMMA TargetsAreTyped ==
  ASSUME TypeOK, NEW m \in Miners
  PROVE  [id |-> m, code |-> eligibility(m),
          job |-> IF ActiveJobs(m) = {} THEN None
                  ELSE CHOOSE j \in ActiveJobs(m) : TRUE] \in Target
<1>1. eligibility(m) \in Code
  BY DEF eligibility, Code
<1>2. ActiveJobs(m) # {} => (CHOOSE j \in ActiveJobs(m) : TRUE) \in Jobs
  BY DEF ActiveJobs
<1> QED
  BY <1>1, <1>2 DEF Target

\* The two ways in: a selection with its eligibility, and every ASIC that can
\* be commanded.
LEMMA Started ==
  ASSUME TypeOK, NEW action \in {"pause", "reboot"},
         \/ \E ids \in BoundedSeq(Miners, BULK_CONTROL_MAX_TARGETS + 1), confirmed \in BOOLEAN :
              execute_bulk_control(action, ids, confirmed)
         \/ \E g \in Groups, confirmed \in BOOLEAN :
              execute_bulk_control(action, SetToSeq(ByGroup(g)), confirmed)
         \/ all_action(action)
  PROVE  /\ bulk' \in BulkRequest /\ RowTypes' /\ Fits' /\ Fresh'
         /\ bulk.pc = "idle" /\ bulk'.results = <<>>
         /\ UNCHANGED ledger
<1> DEFINE Done == /\ bulk' \in BulkRequest /\ RowTypes' /\ Fits' /\ Fresh'
                   /\ bulk.pc = "idle" /\ bulk'.results = <<>>
                   /\ UNCHANGED ledger
<1>1. ASSUME NEW ids \in Seq(Miners), NEW confirmed \in BOOLEAN,
             execute_bulk_control(action, ids, confirmed)
      PROVE  Done
  <2> DEFINE targets == resolve_bulk_control_selection(ids)
  <2>1. ids \in [DOMAIN ids -> Miners]
    BY LenProperties
  <2>2. ASSUME NEW i \in DOMAIN ids
        PROVE  targets[i] \in Target /\ targets[i].id = ids[i]
    <3>1. ids[i] \in Miners
      BY <2>1
    <3> QED
      BY <3>1, TargetsAreTyped DEF resolve_bulk_control_selection
  <2>3. targets \in [DOMAIN ids -> Target]
    BY <2>2 DEF resolve_bulk_control_selection
  <2>4. Starts(action, ids, targets)
    BY <1>1 DEF execute_bulk_control
  <2> HIDE DEF targets
  <2>5. bulk' \in BulkRequest /\ RowTypes' /\ Fits' /\ Fresh'
    BY <2>2, <2>3, <2>4, Starting DEF TypeOK
  <2> QED
    BY <2>4, <2>5 DEF Starts
<1>2. ASSUME all_action(action) PROVE Done
  <2> DEFINE ids == SetToSeq(Commandable)
  <2> DEFINE targets == [i \in DOMAIN ids |->
                           [id |-> ids[i], code |-> "ELIGIBLE", job |-> None]]
  <2>1. ids \in Seq(Miners)
    BY Selection DEF Commandable, TypeOK, RowTypes
  <2>2. Starts(action, ids, targets)
    BY <1>2 DEF all_action
  <2> HIDE DEF ids
  <2>3. ids \in [DOMAIN ids -> Miners]
    BY <2>1, LenProperties
  <2>4. targets \in [DOMAIN ids -> Target] /\ \A i \in DOMAIN ids : targets[i].id = ids[i]
    BY <2>3 DEF Target, Code
  <2> HIDE DEF targets
  <2>5. bulk' \in BulkRequest /\ RowTypes' /\ Fits' /\ Fresh'
    BY <2>1, <2>2, <2>4, Starting DEF TypeOK
  <2> QED
    BY <2>2, <2>5 DEF Starts
<1>3. \A g \in Groups : SetToSeq(ByGroup(g)) \in Seq(Miners)
  BY Selection DEF ByGroup, TypeOK, RowTypes
<1> QED
  BY <1>1, <1>2, <1>3, Selections
-----------------------------------------------------------------------------
(* The fan-out                                                             *)

\* An answer is appended, for the ASIC whose turn it is.
LEMMA Answering ==
  ASSUME TypeOK, Fits, bulk # Idle, Len(bulk.results) < Len(bulk.targets),
         NEW accepted \in BOOLEAN, NEW job \in Jobs \cup {None}, NEW code \in Code,
         Answers(accepted, job, code), UNCHANGED <<rows, edits>>
  PROVE  /\ bulk' \in BulkRequest /\ RowTypes' /\ Fits' /\ Fresh'
         /\ Len(bulk'.results) = Len(bulk.results) + 1
         /\ Last(bulk'.results) = [id |-> TurnOf.id, accepted |-> accepted,
                                   job |-> job, code |-> code]
<1> DEFINE r == [id |-> TurnOf.id, accepted |-> accepted, job |-> job, code |-> code]
<1> DEFINE results == Append(bulk.results, r)
<1>1. bulk \in BulkRequest
  BY DEF TypeOK
<1>2. /\ bulk.results \in Seq(Result) /\ bulk.targets \in Seq(Target)
      /\ bulk.ids \in Seq(Miners)
  BY <1>1 DEF BulkRequest
<1>3. Len(bulk.results) \in Nat /\ Len(bulk.targets) \in Nat
  BY <1>2, LenProperties
<1>4. bulk.targets[Len(bulk.results) + 1] \in Target
  BY <1>2, <1>3, ElementOfSeq
<1>5. r \in Result
  BY <1>4 DEF TurnOf, Target, Result
<1>6. bulk' = [bulk EXCEPT !.pc = "next", !.results = results]
  BY DEF Answers
<1>7. /\ results \in Seq(Result)
      /\ Len(results) = Len(bulk.results) + 1
      /\ \A i \in 1 .. Len(bulk.results) : results[i] = bulk.results[i]
      /\ results[Len(bulk.results) + 1] = r
  BY <1>2, <1>5, AppendProperties
<1>8. bulk.pc # "idle"
  BY <1>1 DEF BulkRequest
<1>9. r.id = bulk.ids[Len(bulk.results) + 1]
  BY <1>3, <1>8 DEF Fits, TurnOf
<1> HIDE DEF r, results
<1>10. bulk' \in BulkRequest
  BY <1>1, <1>6, <1>7 DEF BulkRequest
<1>11. /\ bulk'.pc = "next" /\ bulk'.results = results
       /\ bulk'.ids = bulk.ids /\ bulk'.targets = bulk.targets
  BY <1>1, <1>6 DEF BulkRequest
<1>12. Fits'
  <2>1. \A i \in 1 .. Len(results) : results[i].id = bulk.ids[i]
    <3> SUFFICES ASSUME NEW i \in 1 .. Len(results) PROVE results[i].id = bulk.ids[i]
      OBVIOUS
    <3>1. CASE i = Len(bulk.results) + 1
      BY <3>1, <1>7, <1>9
    <3>2. CASE i \in 1 .. Len(bulk.results)
      BY <3>2, <1>7, <1>8 DEF Fits
    <3> QED
      BY <3>1, <3>2, <1>3, <1>7
  <2>2. Len(results) =< Len(bulk.targets)
    BY <1>3, <1>7
  <2> QED
    BY <1>8, <1>11, <2>1, <2>2 DEF Fits
<1>13. RowTypes' /\ Fresh'
  BY <1>11 DEF Answers, RowTypes, Fresh, Commandable, rows, TypeOK
<1>14. Last(bulk'.results) = r
  BY <1>7, <1>11 DEF Last
<1> QED
  BY <1>7, <1>10, <1>11, <1>12, <1>13, <1>14 DEF r

LEMMA Turn ==
  ASSUME bulk \in BulkRequest, Len(bulk.results) < Len(bulk.targets)
  PROVE  TurnOf \in Target /\ bulk # Idle /\ bulk.pc # "idle"
<1>1. bulk.results \in Seq(Result) /\ bulk.targets \in Seq(Target)
  BY DEF BulkRequest
<1>2. Len(bulk.results) \in Nat /\ Len(bulk.targets) \in Nat
  BY <1>1, LenProperties
<1>3. TurnOf \in Target
  BY <1>1, <1>2, ElementOfSeq DEF TurnOf
<1>4. bulk.pc # "idle"
  BY DEF BulkRequest
<1> QED
  BY <1>3, <1>4 DEF Idle

\* The request under way: the disjuncts of Next that answer.
Rejects == \E job \in Jobs \cup {None}, code \in Code :
             Answers(FALSE, job, code) /\ UNCHANGED <<ledger, rows, edits>>

Queues == \E j \in Jobs : /\ bulk.pc = "lock"
                          /\ Open(j, TurnOf.id, MaxAttempts(bulk.action))
                          /\ Answers(TRUE, j, "QUEUED")
                          /\ UNCHANGED <<rows, edits>>

\* LookAtRow goes on to the lock for an ASIC that can be commanded now.
Enters == /\ AtTurn /\ TurnOf.id \in Commandable
          /\ bulk' = [bulk EXCEPT !.pc = "lock"]
          /\ UNCHANGED <<ledger, rows, edits, lately>>

LEMMA FanOutSteps ==
  ASSUME TypeOK, Fits, Rejected \/ LookAtRow \/ InTheLock
  PROVE  /\ bulk \in BulkRequest /\ Len(bulk.results) < Len(bulk.targets)
         /\ Rejects \/ Queues \/ Enters
<1>1. bulk \in BulkRequest
  <2>1. bulk.pc \in {"next", "lock"}
    BY Zenon DEF Rejected, LookAtRow, InTheLock, AtTurn
  <2> QED
    BY <2>1 DEF TypeOK, Idle
<1>2. Len(bulk.results) < Len(bulk.targets)
  <2>1. AtTurn \/ bulk.pc = "lock"
    BY Zenon DEF Rejected, LookAtRow, InTheLock
  <2> QED
    BY <2>1 DEF AtTurn, Fits
<1>3. TurnOf \in Target
  BY <1>1, <1>2, Turn
<1>4. TurnOf.job \in Jobs \cup {None} /\ TurnOf.code \in Code
  BY <1>3 DEF Target
<1>5. ASSUME Rejected PROVE Rejects
  <2>1. Answers(FALSE, TurnOf.job, TurnOf.code)
    BY <1>5 DEF Rejected
  <2>2. UNCHANGED <<ledger, rows, edits>>
    BY <1>5 DEF Rejected
  <2> QED
    BY <1>4, <2>1, <2>2, Zenon DEF Rejects
<1>6. ASSUME LookAtRow PROVE Rejects \/ Enters
  <2>1. "QUEUE_ERROR" \in Code
    BY DEF Code
  <2>2. AtTurn /\ UNCHANGED <<ledger, rows, edits>>
    BY <1>6 DEF LookAtRow
  <2>3. CASE TurnOf.id \in Commandable
    BY <1>6, <2>2, <2>3 DEF LookAtRow, Enters
  <2>4. CASE TurnOf.id \notin Commandable
    <3>1. Answers(FALSE, None, "QUEUE_ERROR")
      BY <1>6, <2>4 DEF LookAtRow
    <3> QED
      BY <2>1, <2>2, <3>1, Zenon DEF Rejects
  <2> QED
    BY <2>3, <2>4
<1>7. ASSUME InTheLock PROVE Rejects \/ Queues
  <2>1. "QUEUE_ERROR" \in Code /\ "ACTIVE_JOB" \in Code
    BY DEF Code
  <2>2. ActiveJobs(TurnOf.id) \subseteq Jobs
    BY DEF ActiveJobs
  <2>3. bulk.pc = "lock" /\ UNCHANGED <<rows, edits>>
    BY <1>7 DEF InTheLock
  <2>4. \/ \E j \in ActiveJobs(TurnOf.id) :
             Answers(FALSE, j, "ACTIVE_JOB") /\ UNCHANGED ledger
        \/ \E j \in Jobs : /\ Open(j, TurnOf.id, MaxAttempts(bulk.action))
                           /\ Answers(TRUE, j, "QUEUED")
        \/ Answers(FALSE, None, "QUEUE_ERROR") /\ UNCHANGED ledger
    BY <1>7, Zenon DEF InTheLock
  <2>5. CASE \E j \in ActiveJobs(TurnOf.id) :
               Answers(FALSE, j, "ACTIVE_JOB") /\ UNCHANGED ledger
    BY <2>1, <2>2, <2>3, <2>5, Zenon DEF Rejects
  <2>6. CASE \E j \in Jobs : /\ Open(j, TurnOf.id, MaxAttempts(bulk.action))
                            /\ Answers(TRUE, j, "QUEUED")
    BY <2>3, <2>6, Zenon DEF Queues
  <2>7. CASE Answers(FALSE, None, "QUEUE_ERROR") /\ UNCHANGED ledger
    BY <2>1, <2>3, <2>7, Zenon DEF Rejects
  <2> QED
    BY <2>4, <2>5, <2>6, <2>7
<1> QED
  BY <1>1, <1>2, <1>5, <1>6, <1>7

LEMMA AnswersFit ==
  ASSUME TypeOK, Fits, Fresh, Rejected \/ LookAtRow \/ InTheLock
  PROVE  bulk' \in BulkRequest /\ RowTypes' /\ Fits' /\ Fresh'
<1>1. /\ bulk \in BulkRequest /\ Len(bulk.results) < Len(bulk.targets)
      /\ Rejects \/ Queues \/ Enters
  BY FanOutSteps
<1>2. bulk # Idle /\ bulk.pc # "idle"
  BY <1>1, Turn
<1>3. CASE Rejects
  <2>1. PICK job \in Jobs \cup {None}, code \in Code :
          Answers(FALSE, job, code) /\ UNCHANGED <<ledger, rows, edits>>
    BY <1>3 DEF Rejects
  <2> QED
    BY <1>1, <1>2, <2>1, Answering
<1>4. CASE Queues
  <2>1. PICK j \in Jobs : Answers(TRUE, j, "QUEUED") /\ UNCHANGED <<rows, edits>>
    BY <1>4 DEF Queues
  <2>2. "QUEUED" \in Code
    BY DEF Code
  <2> QED
    BY <1>1, <1>2, <2>1, <2>2, Answering
<1>5. CASE Enters
  <2>1. bulk' = [bulk EXCEPT !.pc = "lock"]
    BY <1>5 DEF Enters
  <2>2. /\ bulk' \in BulkRequest /\ bulk'.pc = "lock"
        /\ bulk'.ids = bulk.ids /\ bulk'.targets = bulk.targets
        /\ bulk'.results = bulk.results
    BY <1>1, <2>1 DEF BulkRequest
  <2>3. Fits'
    BY <1>1, <1>2, <2>2 DEF Fits
  <2>4. RowTypes' /\ Commandable' = Commandable /\ lately' = lately
    BY <1>5 DEF Enters, RowTypes, TypeOK, Commandable, rows
  <2>5. TurnOf' = TurnOf
    BY <2>2 DEF TurnOf
  <2>6. TurnOf.id \in Commandable
    BY <1>5 DEF Enters
  <2>7. Fresh'
    BY <1>2, <2>4, <2>5, <2>6 DEF Fresh
  <2> QED
    BY <2>2, <2>3, <2>4, <2>7
<1> QED
  BY <1>1, <1>3, <1>4, <1>5
-----------------------------------------------------------------------------
(* The inductive invariant                                                 *)

LEMMA OpenKeepsTypes ==
  ASSUME LedgerTypes, NEW j \in Jobs, NEW m \in Miners, NEW n \in Nat, Open(j, m, n)
  PROVE  LedgerTypes'
  BY DEF LedgerTypes, Open, Statuses

LEMMA LedgerKept == IInv /\ [Next]_vars => LedgerTypes'
<1> SUFFICES ASSUME IInv, [Next]_vars PROVE LedgerTypes'
  OBVIOUS
<1>0. LedgerTypes
  BY DEF IInv, TypeOK
<1>1. CASE UNCHANGED ledger
  BY <1>0, <1>1 DEF LedgerTypes, ledger
<1>2. ASSUME NEW action \in {"pause", "reboot"},
             \/ \E ids \in BoundedSeq(Miners, BULK_CONTROL_MAX_TARGETS + 1), confirmed \in BOOLEAN :
                  execute_bulk_control(action, ids, confirmed)
             \/ \E g \in Groups, confirmed \in BOOLEAN :
                  execute_bulk_control(action, SetToSeq(ByGroup(g)), confirmed)
             \/ all_action(action)
      PROVE  LedgerTypes'
  BY <1>1, <1>2, Started DEF IInv
<1>3. CASE Rejected \/ LookAtRow \/ InTheLock
  <2>1. /\ bulk \in BulkRequest /\ Len(bulk.results) < Len(bulk.targets)
        /\ Rejects \/ Queues \/ Enters
    BY <1>3, FanOutSteps DEF IInv
  <2>2. CASE Queues
    <3>1. PICK j \in Jobs : Open(j, TurnOf.id, MaxAttempts(bulk.action))
      BY <2>2 DEF Queues
    <3>2. TurnOf.id \in Miners
      BY <2>1, Turn DEF Target
    <3>3. MaxAttempts(bulk.action) \in Nat
      BY DEF MaxAttempts
    <3> QED
      BY <1>0, <3>1, <3>2, <3>3, OpenKeepsTypes
  <2> QED
    BY <1>1, <2>1, <2>2 DEF Rejects, Enters
<1>4. CASE Pipeline
  <2>1. ASSUME NEW j \in Jobs, NEW m \in Commandable, Open(j, m, 3) PROVE LedgerTypes'
    <3>1. m \in Miners
      BY DEF IInv, TypeOK, RowTypes, Commandable
    <3> QED
      BY <1>0, <2>1, <3>1, OpenKeepsTypes
  <2>2. ASSUME NEW j \in Jobs, NEW n \in {0, 1}, Begin(j, n) PROVE LedgerTypes'
    BY <1>0, <2>2 DEF LedgerTypes, Begin, Statuses
  <2>3. ASSUME NEW j \in Jobs, NEW s \in {"VERIFIED", "FAILED"}, Settle(j, s)
        PROVE  LedgerTypes'
    BY <1>0, <2>3 DEF LedgerTypes, Settle, Statuses
  <2> QED
    BY <1>4, <2>1, <2>2, <2>3 DEF Pipeline
<1>5. CASE Restart
  BY <1>0, <1>5 DEF LedgerTypes, Restart, AbortActive, Statuses
<1>6. CASE Finish
  BY <1>1, <1>6 DEF Finish
<1>7. ASSUME NEW m \in Miners, Edit(m) PROVE LedgerTypes'
  BY <1>1, <1>7 DEF Edit
<1>8. CASE UNCHANGED vars
  BY <1>1, <1>8 DEF vars
<1> QED
  BY <1>2, <1>3, <1>4, <1>5, <1>6, <1>7, <1>8 DEF Next

LEMMA RequestKept ==
  IInv /\ [Next]_vars => bulk' \in {Idle} \cup BulkRequest /\ RowTypes' /\ Fits' /\ Fresh'
<1> DEFINE Good == bulk' \in {Idle} \cup BulkRequest /\ RowTypes' /\ Fits' /\ Fresh'
<1> SUFFICES ASSUME IInv, [Next]_vars PROVE Good
  OBVIOUS
<1>0. TypeOK /\ RowTypes /\ Fits /\ Fresh /\ bulk \in {Idle} \cup BulkRequest
  BY DEF IInv, TypeOK
<1>1. ASSUME NEW action \in {"pause", "reboot"},
             \/ \E ids \in BoundedSeq(Miners, BULK_CONTROL_MAX_TARGETS + 1), confirmed \in BOOLEAN :
                  execute_bulk_control(action, ids, confirmed)
             \/ \E g \in Groups, confirmed \in BOOLEAN :
                  execute_bulk_control(action, SetToSeq(ByGroup(g)), confirmed)
             \/ all_action(action)
      PROVE  Good
  BY <1>0, <1>1, Started
<1>2. CASE Rejected \/ LookAtRow \/ InTheLock
  BY <1>0, <1>2, AnswersFit
<1>3. CASE UNCHANGED <<bulk, rows, edits, lately>>
  BY <1>0, <1>3 DEF RowTypes, Fits, Fresh, TurnOf, Commandable, rows
<1>4. CASE Pipeline
  BY <1>3, <1>4 DEF Pipeline
<1>5. CASE Finish
  <2>1. bulk \in BulkRequest /\ bulk' = [bulk EXCEPT !.pc = "done"]
    BY <1>0, <1>5 DEF Finish, Idle
  <2>2. /\ bulk' \in BulkRequest /\ bulk'.pc = "done"
        /\ bulk'.ids = bulk.ids /\ bulk'.targets = bulk.targets
        /\ bulk'.results = bulk.results
    BY <2>1 DEF BulkRequest
  <2>3. Fits'
    BY <1>0, <1>5, <2>2 DEF Fits, Finish
  <2>4. RowTypes' /\ Commandable' = Commandable /\ lately' = lately
    BY <1>0, <1>5 DEF Finish, RowTypes, Commandable, rows
  <2>5. Fresh'
    BY <1>0, <1>5, <2>2, <2>4 DEF Fresh, Finish
  <2> QED
    BY <2>2, <2>3, <2>4, <2>5
<1>6. CASE Restart
  <2>1. bulk' = Idle /\ bulk'.pc = "idle"
    BY <1>6 DEF Restart, Idle
  <2> QED
    BY <1>0, <1>6, <2>1 DEF Restart, RowTypes, rows, Fits, Fresh
<1>7. ASSUME NEW m \in Miners, Edit(m) PROVE Good
  <2>1. bulk' = bulk /\ TurnOf' = TurnOf /\ lately \subseteq lately' /\ Commandable' \subseteq lately'
    BY <1>7 DEF Edit, TurnOf
  <2>2. /\ known' \in SUBSET Miners
        /\ enabled' \in [Miners -> BOOLEAN]
        /\ supported' \in [Miners -> BOOLEAN]
        /\ group_id' \in [Miners -> Groups \cup {None}]
        /\ edits' \in Nat
    <3>1. (~enabled[m]) \in BOOLEAN /\ (~supported[m]) \in BOOLEAN
      OBVIOUS
    <3>2. edits' \in Nat
      BY <1>0, <1>7 DEF Edit, RowTypes
    <3>3. CASE known' = known \cup {m} /\ UNCHANGED <<enabled, supported, group_id>>
      BY <1>0, <3>2, <3>3 DEF RowTypes
    <3>4. CASE /\ enabled' = [enabled EXCEPT ![m] = ~@]
               /\ UNCHANGED <<known, supported, group_id>>
      BY <1>0, <3>1, <3>2, <3>4 DEF RowTypes
    <3>5. CASE /\ supported' = [supported EXCEPT ![m] = ~@]
               /\ UNCHANGED <<known, enabled, group_id>>
      BY <1>0, <3>1, <3>2, <3>5 DEF RowTypes
    <3>6. CASE /\ \E g \in Groups \cup {None} : group_id' = [group_id EXCEPT ![m] = g]
               /\ UNCHANGED <<known, enabled, supported>>
      BY <1>0, <3>2, <3>6 DEF RowTypes
    <3> QED
      BY <1>7, <3>3, <3>4, <3>5, <3>6 DEF Edit
  <2>3. lately' \in SUBSET Miners
    BY <1>0, <1>7, <2>2 DEF Edit, RowTypes, Commandable
  <2>4. RowTypes'
    BY <2>2, <2>3 DEF RowTypes
  <2>5. Fits' /\ Fresh'
    BY <1>0, <2>1 DEF Fits, Fresh
  <2> QED
    BY <1>0, <2>1, <2>4, <2>5
<1>8. CASE UNCHANGED vars
  BY <1>3, <1>8 DEF vars
<1> QED
  BY <1>1, <1>2, <1>4, <1>5, <1>6, <1>7, <1>8 DEF Next

LEMMA InductiveInvariant == Spec => []IInv
<1>1. Init => IInv
  <2> SUFFICES ASSUME Init PROVE IInv
    OBVIOUS
  <2>1. LedgerTypes
    BY DEF Init, LedgerInit, LedgerTypes, Statuses
  <2>2. RowTypes
    BY BulkAssumption DEF Init, RowTypes
  <2>3. bulk = Idle /\ bulk.pc = "idle"
    BY DEF Init, Idle
  <2> QED
    BY <2>1, <2>2, <2>3 DEF IInv, TypeOK, Fits, Fresh
<1>2. IInv /\ [Next]_vars => IInv'
  BY LedgerKept, RequestKept DEF IInv, TypeOK, Idle, BulkRequest, Target, Result, Code
<1> QED
  BY <1>1, <1>2, PTL DEF Spec

\* A step that brings a new answer is one of the fan-out; an answer without a
\* job leaves the ledger alone.
LEMMA NewAnswer ==
  ASSUME IInv, [Next]_vars, FanOut
  PROVE  /\ bulk \in BulkRequest /\ Len(bulk.results) < Len(bulk.targets)
         /\ Rejects \/ Queues
<1>1. ASSUME NEW action \in {"pause", "reboot"},
             \/ \E ids \in BoundedSeq(Miners, BULK_CONTROL_MAX_TARGETS + 1), confirmed \in BOOLEAN :
                  execute_bulk_control(action, ids, confirmed)
             \/ \E g \in Groups, confirmed \in BOOLEAN :
                  execute_bulk_control(action, SetToSeq(ByGroup(g)), confirmed)
             \/ all_action(action)
      PROVE  FALSE
  BY <1>1, Started DEF IInv, FanOut
<1>2. bulk' # bulk /\ bulk'.pc = "next"
  BY DEF FanOut
<1>3. ~ UNCHANGED vars
  BY <1>2 DEF vars
<1>4. ~ Pipeline /\ ~ \E m \in Miners : Edit(m)
  BY <1>2 DEF Pipeline, Edit
<1>5. ~ Restart
  BY <1>2 DEF Restart, Idle
<1>6. ~ Finish
  <2>1. ASSUME Finish PROVE bulk'.pc = "done"
    BY <2>1 DEF IInv, TypeOK, Finish, Idle, BulkRequest
  <2> QED
    BY <1>2, <2>1
<1>7. Rejected \/ LookAtRow \/ InTheLock
  BY <1>1, <1>3, <1>4, <1>5, <1>6 DEF Next
<1>8. /\ bulk \in BulkRequest /\ Len(bulk.results) < Len(bulk.targets)
      /\ Rejects \/ Queues \/ Enters
  BY <1>7, FanOutSteps DEF IInv
<1>9. ~ Enters
  BY <1>2, <1>8 DEF Enters, BulkRequest
<1> QED
  BY <1>8, <1>9

\* A job that this step opens is the one of the answer.
LEMMA OnlyOneOpens ==
  ASSUME LedgerTypes, NEW j \in Jobs, NEW m, NEW n, Open(j, m, n)
  PROVE  /\ Opens(j) /\ miner_id'[j] = m
         /\ \A i \in Jobs : Opens(i) => i = j
  BY DEF LedgerTypes, Open, Opens
-----------------------------------------------------------------------------
(* Theorems                                                                *)

\* Types, for every number of ASICs, jobs and groups and every selection.
THEOREM TypeCorrect == Spec => []TypeOK
<1>1. IInv => TypeOK
  BY DEF IInv
<1> QED
  BY <1>1, InductiveInvariant, PTL

\* A finished request has one answer for each ASIC it selected, in its place.
THEOREM AllAnswered == Spec => []EveryTargetIsAnswered
<1>1. IInv => EveryTargetIsAnswered
  <2> SUFFICES ASSUME IInv, bulk.pc = "done" PROVE EveryTargetIsAnswered
    BY DEF EveryTargetIsAnswered
  <2>1. bulk \in BulkRequest
    BY DEF IInv, TypeOK, Idle
  <2>2. DOMAIN bulk.ids = 1 .. Len(bulk.ids)
    BY <2>1, LenProperties DEF BulkRequest
  <2> QED
    BY <2>2 DEF IInv, Fits, EveryTargetIsAnswered
<1> QED
  BY <1>1, InductiveInvariant, PTL

\* "accepted" says that this request opened the job, for this ASIC.
THEOREM Accepted == Spec => AcceptedMeansQueuedByIt
<1> DEFINE
  Told == /\ Last(bulk'.results).accepted <=> \E j \in Jobs : Opens(j)
          /\ \A j \in Jobs : Opens(j) => /\ Last(bulk'.results).job = j
                                         /\ miner_id'[j] = Last(bulk'.results).id
<1>1. ASSUME IInv, [Next]_vars, FanOut PROVE Told
  <2>1. /\ bulk \in BulkRequest /\ Len(bulk.results) < Len(bulk.targets)
        /\ Rejects \/ Queues
    BY <1>1, NewAnswer
  <2>2. bulk # Idle
    BY <2>1, Turn
  <2>3. CASE Rejects
    <3>1. PICK job \in Jobs \cup {None}, code \in Code :
            Answers(FALSE, job, code) /\ UNCHANGED <<ledger, rows, edits>>
      BY <2>3 DEF Rejects
    <3>2. Last(bulk'.results) = [id |-> TurnOf.id, accepted |-> FALSE, job |-> job,
                                 code |-> code]
      BY <1>1, <2>1, <2>2, <3>1, Answering DEF IInv
    <3>3. \A j \in Jobs : ~ Opens(j)
      BY <3>1 DEF Opens, ledger
    <3> QED
      BY <3>2, <3>3
  <2>4. CASE Queues
    <3>1. PICK j \in Jobs : /\ Open(j, TurnOf.id, MaxAttempts(bulk.action))
                            /\ Answers(TRUE, j, "QUEUED")
                            /\ UNCHANGED <<rows, edits>>
      BY <2>4 DEF Queues
    <3>2. "QUEUED" \in Code
      BY DEF Code
    <3>3. Last(bulk'.results) = [id |-> TurnOf.id, accepted |-> TRUE, job |-> j,
                                 code |-> "QUEUED"]
      BY <1>1, <2>1, <2>2, <3>1, <3>2, Answering DEF IInv
    <3>4. /\ Opens(j) /\ miner_id'[j] = TurnOf.id
          /\ \A i \in Jobs : Opens(i) => i = j
      BY <1>1, <3>1, OnlyOneOpens DEF IInv, TypeOK
    <3> QED
      BY <3>3, <3>4
  <2> QED
    BY <2>1, <2>3, <2>4
<1>2. IInv /\ [Next]_vars =>
        [FanOut /\ bulk.pc # "idle" /\ Len(bulk'.results) > Len(bulk.results)
           => LET r == Last(bulk'.results) IN
              /\ r.accepted <=> \E j \in Jobs : Opens(j)
              /\ \A j \in Jobs : Opens(j) => r.job = j /\ miner_id'[j] = r.id]_vars
  BY <1>1
<1> QED
  BY <1>2, InductiveInvariant, PTL DEF Spec, AcceptedMeansQueuedByIt

\* A job is opened only for an ASIC that could be commanded at some moment
\* since the answer before.
THEOREM NoStaleLook == Spec => NoJobOnAStaleLook
<1>1. ASSUME IInv, [Next]_vars, NEW j \in Jobs, Opens(j), FanOut
      PROVE  miner_id'[j] \in lately
  <2>1. Rejects \/ Queues
    BY <1>1, NewAnswer
  <2>2. ~ Rejects
    BY <1>1 DEF Rejects, Opens, ledger
  <2>3. PICK i \in Jobs : /\ bulk.pc = "lock"
                          /\ Open(i, TurnOf.id, MaxAttempts(bulk.action))
    BY <2>1, <2>2 DEF Queues
  <2>4. i = j /\ miner_id'[j] = TurnOf.id
    BY <1>1, <2>3, OnlyOneOpens DEF IInv, TypeOK
  <2>5. TurnOf.id \in lately
    BY <1>1, <2>3 DEF IInv, Fresh
  <2> QED
    BY <2>4, <2>5
<1>2. IInv /\ [Next]_vars =>
        [\A j \in Jobs : Opens(j) /\ FanOut => miner_id'[j] \in lately]_vars
  BY <1>1
<1> QED
  BY <1>2, InductiveInvariant, PTL DEF Spec, NoJobOnAStaleLook
=============================================================================
