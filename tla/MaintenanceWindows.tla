-------------------------- MODULE MaintenanceWindows --------------------------
(***************************************************************************)
(* The maintenance_windows table under the requests of api/maintenance.py. *)
(*                                                                         *)
(* Creating and extending are coroutines: they read the clock, and extend  *)
(* the window too, before they await the body; from then to their write    *)
(* they hold the event loop.  Ending a window is a thread: it reads the    *)
(* clock and the row, and writes later.                                    *)
(*                                                                         *)
(* Instants are natural numbers.  A target is a scope with its miner or    *)
(* group.  The members that a GROUP window covers are left out.            *)
(***************************************************************************)
EXTENDS Integers, FiniteSets

CONSTANTS Groups,         \* operational groups that exist at first
          Targets,        \* pairs of a scope and None, a miner or a group
          Requests,       \* requests in flight, at most
          Instants,       \* bound: the instants at which anything happens
          Intervals,      \* bound: the pairs of starts_at and ends_at asked for
          MaxDuration,    \* MAX_MAINTENANCE_DURATION_SECONDS
          Events,         \* bound: requests, edits and failures
          None

ASSUME WindowsAssumption ==
  /\ Instants \subseteq Nat /\ MaxDuration \in Nat /\ Events \in Nat
  /\ Intervals \subseteq Nat \X Nat
  /\ None \notin Nat \cup Groups \cup Requests
  /\ Targets \subseteq {"FARM", "MINER", "GROUP"} \X (Groups \cup Nat \cup {None})
  /\ \A t \in Targets : t[1] = "GROUP" => t[2] \in Groups

VARIABLES
  now,
  groups,       \* miner_groups
  windows,      \* maintenance_windows: ids in use to rows
  req,          \* the requests in flight
  ended_when,   \* history: when ended_at was written, by window
  events        \* requests, edits and failures so far

windowVars == <<windows, ended_when>>
wvars == <<now, groups, windowVars, req, events>>

WindowsInit ==
  /\ now \in Instants /\ \A t \in Instants : now <= t
  /\ groups = Groups
  /\ windows = [i \in {} |-> None]
  /\ req = [q \in Requests |-> None]
  /\ ended_when = [i \in {} |-> None]
  /\ events = 0

Event == events < Events /\ events' = events + 1

Tick ==
  /\ now' \in {t \in Instants : t > now /\ \A u \in Instants : u > now => t <= u}
  /\ UNCHANGED <<groups, windowVars, req, events>>

-----------------------------------------------------------------------------
\* AUTOINCREMENT: rows are never deleted.
NextWindow == Cardinality(DOMAIN windows) + 1

Row(target, starts_at, ends_at, by) ==
  [target |-> target, starts_at |-> starts_at, ends_at |-> ends_at,
   ended_at |-> None, created_by |-> by]

Insert(row) ==
  LET ids == DOMAIN windows \cup {NextWindow} IN
  /\ windows' = [i \in ids |-> IF i = NextWindow THEN row ELSE windows[i]]
  /\ ended_when' = [i \in ids |-> IF i = NextWindow THEN None ELSE ended_when[i]]

\* Mutant: only windows that start earlier are looked for.
ConflictStartsEarlier(target, starts_at, ends_at, except) ==
  {i \in DOMAIN windows \ except :
     /\ windows[i].ended_at = None /\ windows[i].target = target
     /\ windows[i].starts_at <= starts_at /\ windows[i].ends_at > starts_at}

find_maintenance_conflict(target, starts_at, ends_at, except) ==
  {i \in DOMAIN windows \ except :
     /\ windows[i].ended_at = None /\ windows[i].target = target
     /\ windows[i].starts_at < ends_at /\ windows[i].ends_at > starts_at}

\* maintenance_status is ENDED or EXPIRED at the instant t.
Over(row, t) == row.ended_at # None \/ row.ends_at <= t

Step(q, r) == req' = [req EXCEPT ![q] = r]

NewRequest(kind, id, row) ==
  [kind |-> kind, pc |-> "body", at |-> now, id |-> id, row |-> row, new |-> None,
   dirty |-> FALSE]

\* No coroutine is between its last await and its write.
LoopFree == \A q \in Requests : req[q] # None => req[q].pc # "write"

-----------------------------------------------------------------------------
(* POST maintenance                                                        *)

CreateArrives(q) ==
  /\ Event
  /\ req[q] = None /\ LoopFree
  /\ Step(q, NewRequest("create", None, None))
  /\ UNCHANGED <<now, groups, windowVars>>

normalize_maintenance_create(starts_at, ends_at, at) ==
  /\ ends_at > starts_at /\ ends_at > at
  /\ ends_at - starts_at <= MaxDuration

\* The body arrives and is valid for the clock read before; then the look-up.
CreateBody(q, target, starts_at, ends_at) ==
  /\ req[q] # None /\ req[q].pc = "body" /\ req[q].kind = "create" /\ LoopFree
  /\ normalize_maintenance_create(starts_at, ends_at, req[q].at)
  /\ Step(q, IF find_maintenance_conflict(target, starts_at, ends_at, {}) # {}
             THEN None
             ELSE [req[q] EXCEPT !.pc = "write",
                     !.new = Row(target, starts_at, ends_at, "MANUAL")])
  /\ UNCHANGED <<now, groups, windowVars, events>>

create_maintenance_window(q) ==
  /\ req[q] # None /\ req[q].pc = "write" /\ req[q].kind = "create"
  /\ req[q].new.target[1] = "GROUP" => req[q].new.target[2] \in groups
  /\ Insert(req[q].new)
  /\ Step(q, None)
  /\ UNCHANGED <<now, groups, events>>

\* The group is gone, or has no member.
CreateRefused(q) ==
  /\ req[q] # None /\ req[q].pc = "write" /\ req[q].kind = "create"
  /\ req[q].new.target[1] = "GROUP"
  /\ Step(q, None)
  /\ UNCHANGED <<now, groups, windowVars, events>>

-----------------------------------------------------------------------------
(* PUT maintenance: extend                                                 *)

ExtendArrives(q, i) ==
  /\ Event
  /\ req[q] = None /\ LoopFree
  /\ i \in DOMAIN windows
  /\ Step(q, NewRequest("extend", i, windows[i]))
  /\ UNCHANGED <<now, groups, windowVars>>

\* Mutant: any end after the start is taken for an extension.
normalize_any_end(row, ends_at, at) ==
  /\ ~Over(row, at)
  /\ ends_at > row.starts_at /\ ends_at - row.starts_at <= MaxDuration

\* Mutant: only what is added is bounded.
normalize_long_extend(row, ends_at, at) ==
  /\ ~Over(row, at)
  /\ ends_at > row.ends_at /\ ends_at - row.ends_at <= MaxDuration

normalize_maintenance_extend(row, ends_at, at) ==
  /\ ~Over(row, at)
  /\ ends_at > row.ends_at /\ ends_at - row.starts_at <= MaxDuration

\* Validates against the row and the clock read before the await.
ExtendBody(q, ends_at) ==
  LET row == req[q].row IN
  /\ req[q] # None /\ req[q].pc = "body" /\ req[q].kind = "extend" /\ LoopFree
  /\ normalize_maintenance_extend(row, ends_at, req[q].at)
  /\ Step(q, IF find_maintenance_conflict(row.target, row.starts_at, ends_at,
                                          {req[q].id}) # {}
             THEN None
             ELSE [req[q] EXCEPT !.pc = "write",
                                 !.new = [row EXCEPT !.ends_at = ends_at]])
  /\ UNCHANGED <<now, groups, windowVars, events>>

\* A write to window i marks the extensions of it that have read it before.
Overtaken(q, i) ==
  req' = [p \in Requests |->
            IF p = q THEN None
            ELSE IF req[p] # None /\ req[p].id = i THEN [req[p] EXCEPT !.dirty = TRUE]
            ELSE req[p]]

\* Mutant: the UPDATE does not look at ended_at.
ExtendEnded(q) ==
  LET i == req[q].id IN
  /\ req[q] # None /\ req[q].pc = "write" /\ req[q].kind = "extend"
  /\ windows' = [windows EXCEPT ![i].ends_at = req[q].new.ends_at]
  /\ Overtaken(q, i)
  /\ UNCHANGED <<now, groups, ended_when, events>>

\* UPDATE ... WHERE id AND ended_at IS NULL
extend_maintenance_window(q) ==
  LET i == req[q].id IN
  /\ req[q] # None /\ req[q].pc = "write" /\ req[q].kind = "extend"
  /\ windows' = IF windows[i].ended_at # None THEN windows
                ELSE [windows EXCEPT ![i].ends_at = req[q].new.ends_at]
  /\ Overtaken(q, i)
  /\ UNCHANGED <<now, groups, ended_when, events>>

-----------------------------------------------------------------------------
(* POST maintenance end                                                    *)

EndArrives(q, i) ==
  /\ Event
  /\ req[q] = None
  /\ i \in DOMAIN windows /\ ~Over(windows[i], now)
  /\ Step(q, [NewRequest("end", i, windows[i]) EXCEPT !.pc = "end"])
  /\ UNCHANGED <<now, groups, windowVars>>

\* ended_at is the clock read when the request arrived.
end_maintenance_window(q) ==
  LET i == req[q].id IN
  /\ req[q] # None /\ req[q].pc = "end"
  /\ IF windows[i].ended_at # None THEN UNCHANGED windowVars
     ELSE /\ windows' = [windows EXCEPT ![i].ended_at = req[q].at]
          /\ ended_when' = [ended_when EXCEPT ![i] = now]
  /\ Step(q, None)
  /\ UNCHANGED <<now, groups, events>>

-----------------------------------------------------------------------------
\* Neither windows nor recurring rules keep a group from being deleted.
delete_group(g) ==
  /\ Event
  /\ g \in groups
  /\ groups' = groups \ {g}
  /\ UNCHANGED <<now, windowVars, req>>

WindowsNext ==
  \/ Tick
  \/ \E q \in Requests :
       \/ CreateArrives(q)
       \/ \E t \in Targets, iv \in Intervals : CreateBody(q, t, iv[1], iv[2])
       \/ create_maintenance_window(q) \/ CreateRefused(q)
       \/ \E i \in DOMAIN windows : ExtendArrives(q, i) \/ EndArrives(q, i)
       \/ \E iv \in Intervals : ExtendBody(q, iv[2])
       \/ extend_maintenance_window(q)
       \/ end_maintenance_window(q)
  \/ \E g \in Groups : delete_group(g)

-----------------------------------------------------------------------------
(* Properties                                                              *)

WindowRow ==
  [target : Targets, starts_at : Nat, ends_at : Nat,
   ended_at : Instants \cup {None}, created_by : {"MANUAL", "RECURRING"}]

RequestOf ==
  [kind : {"create", "extend", "end"}, pc : {"body", "write", "end"},
   at : Instants, id : Nat \cup {None}, row : WindowRow \cup {None},
   new : WindowRow \cup {None}, dirty : BOOLEAN]

\* Types; and no window is empty or longer than MAX_MAINTENANCE_DURATION_SECONDS,
\* however often it is extended.
WindowsTypeOK ==
  /\ now \in Instants
  /\ groups \subseteq Groups
  /\ DOMAIN windows = 1 .. Cardinality(DOMAIN windows)
  /\ windows \in [DOMAIN windows -> WindowRow]
  /\ \A i \in DOMAIN windows :
       windows[i].ends_at - windows[i].starts_at \in 1 .. MaxDuration
  /\ req \in [Requests -> RequestOf \cup {None}]
  /\ ended_when \in [DOMAIN windows -> Instants \cup {None}]
  /\ events \in 0 .. Events

\* Two windows that operators gave one target do not overlap, whatever
\* creations and extensions are under way at once: create and extend look for
\* a conflict and write without leaving the event loop.
ManualWindowsAreDisjoint ==
  \A i, j \in DOMAIN windows :
    /\ i # j /\ windows[i].target = windows[j].target
    /\ windows[i].created_by = "MANUAL" /\ windows[j].created_by = "MANUAL"
    /\ windows[i].ended_at = None /\ windows[j].ended_at = None
    => windows[i].ends_at <= windows[j].starts_at
       \/ windows[j].ends_at <= windows[i].starts_at

\* A window that was ended is never written again: an extension validated
\* before the end arrives too late.
EndedWindowsAreFinal ==
  [][\A i \in DOMAIN windows :
       windows[i].ended_at # None => windows'[i] = windows[i]]_wvars

\* "ends_at must extend the current window" (maintenance_windows/policy.py):
\* an extension shortens a window only if another one was written while it
\* awaited its body.
OnlyOvertakenExtensionsShorten ==
  [][\A i \in DOMAIN windows :
       windows'[i].ends_at < windows[i].ends_at =>
         \E q \in Requests : req[q] # None /\ req[q].id = i /\ req[q].dirty
                             /\ req'[q] = None]_wvars
=============================================================================
