-------------------------- MODULE AnomalyPolicyStore --------------------------
(***************************************************************************)
(* The layers of the anomaly policy under the requests that write them:    *)
(* api/anomalies.py, api/anomaly_overrides.py and the group requests of    *)
(* api/miner_groups.py, with anomalies/repository.py.                      *)
(*                                                                         *)
(* Every write is validated against the other layers in transactions of    *)
(* its own.  The PUTs of policies are coroutines: once their body is there *)
(* they hold the event loop.  The DELETEs of policies, the moves between   *)
(* groups and the deletion of a group run in threads.  One action is one   *)
(* statement on the database with the tests that follow it.                *)
(***************************************************************************)
EXTENDS AnomalyPolicies

CONSTANTS Miners, Groups, None,
          Requests,       \* requests in flight, at most
          Policies,       \* the global policies that are sent
          GroupPatches,   \* the patches that are sent for groups
          MinerPatches    \* and for miners

ASSUME StoreAssumption ==
  /\ \A p \in Policies : normalize_anomaly_policy(p)
  /\ Policies # {}
  /\ None \notin Groups \cup Requests \cup Int

VARIABLES
  policy,           \* settings "anomaly.*"
  group_overrides,  \* group_anomaly_policy_overrides: Inherit where no row is
  miner_overrides,  \* anomaly_policy_overrides: Inherit where no row is
  groups,           \* miner_groups
  group_of,         \* miners.group_id
  loop,             \* the coroutine that holds the event loop
  req,              \* the requests in flight
  overlapped        \* history: a request wrote although another one had
                    \* written since its first read

stored == <<policy, group_overrides, miner_overrides, groups, group_of>>
vars == <<stored, loop, req, overlapped>>

Init ==
  /\ policy \in Policies
  /\ group_overrides = [g \in Groups |-> Inherit]
  /\ miner_overrides = [m \in Miners |-> Inherit]
  /\ groups = Groups
  /\ group_of \in [Miners -> Groups \cup {None}]
  /\ loop = None
  /\ req = [q \in Requests |-> None]
  /\ overlapped = FALSE

-----------------------------------------------------------------------------
GroupLayer(g) ==
  IF g = None THEN Inherit ELSE load_group_anomaly_overrides(policy, group_overrides[g])

Members(g) == {m \in Miners : group_of[m] = g}

At(q, kinds, pc) == req[q] # None /\ req[q].kind \in kinds /\ req[q].pc = pc

\* read: what the request read last; new: what it is going to write.
NewRequest(kind, target, pc, patch, read, new) ==
  [kind |-> kind, target |-> target, pc |-> pc, patch |-> patch,
   read |-> read, new |-> new, dirty |-> FALSE]

Goes(q, r) == req' = [req EXCEPT ![q] = r]

\* A step of q that writes nothing; it may end (r = None).
Reads(q, r) ==
  /\ Goes(q, r)
  /\ loop' = IF r = None /\ loop = q THEN None ELSE loop
  /\ UNCHANGED <<stored, overlapped>>

\* The write of q ends it and overtakes the requests in flight.
Writes(q) ==
  /\ req' = [p \in Requests |-> IF p = q \/ req[p] = None THEN None
                                ELSE [req[p] EXCEPT !.dirty = TRUE]]
  /\ loop' = IF loop = q THEN None ELSE loop
  /\ overlapped' = (overlapped \/ req[q].dirty)

-----------------------------------------------------------------------------
(* PUT /api/anomaly-policy                                                 *)

\* The body is there; the valid layers of the groups are read.
PutGlobal(q, p) ==
  /\ req[q] = None /\ loop = None
  /\ loop' = q
  /\ Goes(q, NewRequest("global", None, "rows", Inherit,
                        [g \in Groups |-> GroupLayer(g)], p))
  /\ UNCHANGED <<stored, overlapped>>

\* Mutant: only the groups are validated.
ValidateGroupsOnly(q) ==
  LET r == req[q] IN
  /\ At(q, {"global"}, "rows")
  /\ Reads(q, IF \A g \in Groups : Resolves(r.new, r.read[g], Inherit)
              THEN [r EXCEPT !.pc = "write"] ELSE None)

validate_global_policy_against_overrides(q) ==
  LET r == req[q]
      layer(m) == IF group_of[m] = None THEN Inherit ELSE r.read[group_of[m]]
  IN
  /\ At(q, {"global"}, "rows")
  /\ Reads(q, IF /\ \A g \in Groups : Resolves(r.new, r.read[g], Inherit)
                 /\ \A m \in Miners :
                      Resolves(policy, layer(m), miner_overrides[m])
                        => Resolves(r.new, layer(m), miner_overrides[m])
              THEN [r EXCEPT !.pc = "write"] ELSE None)

save_anomaly_policy(q) ==
  /\ At(q, {"global"}, "write")
  /\ policy' = req[q].new
  /\ Writes(q)
  /\ UNCHANGED <<group_overrides, miner_overrides, groups, group_of>>

-----------------------------------------------------------------------------
(* PUT and DELETE /api/miner-groups/{id}/anomaly-policy                    *)

\* The group is looked up before the body is awaited.
PutGroup(q, g, patch) ==
  /\ req[q] = None /\ loop = None
  /\ g \in groups
  /\ Reads(q, NewRequest("group", g, "body", patch, Inherit, Inherit))

\* The body is there and is merged with the layer of this moment.
PutGroupBody(q) ==
  LET r == req[q]
      previous == GroupLayer(r.target)
      merged == Patched(previous, r.patch, None)
  IN
  /\ At(q, {"group"}, "body") /\ loop = None
  /\ \/ /\ PatchApplies(policy, previous, r.patch, None) /\ merged # previous
        /\ loop' = q
        /\ Goes(q, [r EXCEPT !.pc = "current", !.new = merged])
        /\ UNCHANGED <<stored, overlapped>>
     \/ /\ ~PatchApplies(policy, previous, r.patch, None) \/ merged = previous
        /\ Reads(q, None)

\* A DELETE of a layer that does not resolve does nothing.
DeleteGroupPolicy(q, g) ==
  /\ req[q] = None /\ g \in groups
  /\ GroupLayer(g) # Inherit
  /\ Reads(q, NewRequest("cleargroup", g, "current", Inherit, Inherit, Inherit))

\* validate_group_policy_against_miner_overrides reads the group's layer ...
ReadCurrentGroup(q) ==
  LET r == req[q] IN
  /\ At(q, {"group", "cleargroup"}, "current")
  /\ Reads(q, IF Resolves(policy, r.new, Inherit)
              THEN [r EXCEPT !.pc = "members", !.read = GroupLayer(r.target)]
              ELSE None)

\* ... and then its members.
validate_group_policy_against_miner_overrides(q) ==
  LET r == req[q] IN
  /\ At(q, {"group", "cleargroup"}, "members")
  /\ Reads(q, IF \A m \in Members(r.target) :
                   Resolves(policy, r.read, miner_overrides[m])
                     => Resolves(policy, r.new, miner_overrides[m])
              THEN [r EXCEPT !.pc = "write"] ELSE None)

\* save_group_anomaly_overrides and clear_group_anomaly_overrides: the row is
\* written whether the group still exists or not.
save_group_anomaly_overrides(q) ==
  /\ At(q, {"group", "cleargroup"}, "write")
  /\ group_overrides' = [group_overrides EXCEPT ![req[q].target] = req[q].new]
  /\ Writes(q)
  /\ UNCHANGED <<policy, miner_overrides, groups, group_of>>

-----------------------------------------------------------------------------
(* PUT and DELETE /api/miners/{id}/anomaly-policy                          *)

\* The miner's row, with its group, is read before the body is awaited.
PutMiner(q, m, patch) ==
  /\ req[q] = None /\ loop = None
  /\ Reads(q, NewRequest("miner", m, "body", patch, group_of[m], Inherit))

\* The layer of that group ...
PutMinerBody(q) ==
  LET r == req[q] IN
  /\ At(q, {"miner"}, "body") /\ loop = None
  /\ loop' = q
  /\ Goes(q, [r EXCEPT !.pc = "previous", !.read = GroupLayer(r.read)])
  /\ UNCHANGED <<stored, overlapped>>

\* Mutant: the patch replaces the layer.
ReplacePrevious(q) ==
  LET r == req[q]
      inherited == Over(policy, r.read)
      previous == load_miner_anomaly_overrides(policy, r.read, miner_overrides[r.target])
      merged == Patched(Inherit, r.patch, None)
  IN
  /\ At(q, {"miner"}, "previous")
  /\ Reads(q, IF PatchApplies(inherited, previous, r.patch, None) /\ merged # previous
              THEN [r EXCEPT !.pc = "group", !.new = merged] ELSE None)

\* ... and the miner's layer, with which the patch is merged.
ReadPrevious(q) ==
  LET r == req[q]
      inherited == Over(policy, r.read)
      previous == load_miner_anomaly_overrides(policy, r.read, miner_overrides[r.target])
      merged == Patched(previous, r.patch, None)
  IN
  /\ At(q, {"miner"}, "previous")
  /\ Reads(q, IF PatchApplies(inherited, previous, r.patch, None) /\ merged # previous
              THEN [r EXCEPT !.pc = "group", !.new = merged] ELSE None)

\* save_miner_anomaly_overrides reads the miner's group again ...
ReadGroupAgain(q) ==
  LET r == req[q] IN
  /\ At(q, {"miner"}, "group")
  /\ Reads(q, [r EXCEPT !.pc = "validate", !.read = group_of[r.target]])

\* ... validates under the layer of that group, and writes.
ValidateMinerLayer(q) ==
  LET r == req[q] IN
  /\ At(q, {"miner"}, "validate")
  /\ Reads(q, IF Resolves(policy, GroupLayer(r.read), r.new)
              THEN [r EXCEPT !.pc = "write"] ELSE None)

save_miner_anomaly_overrides(q) ==
  /\ At(q, {"miner", "clearminer"}, "write")
  /\ miner_overrides' = [miner_overrides EXCEPT ![req[q].target] = req[q].new]
  /\ Writes(q)
  /\ UNCHANGED <<policy, group_overrides, groups, group_of>>

\* A miner's layer is cleared without validation.
DeleteMinerPolicy(q, m) ==
  /\ req[q] = None
  /\ load_miner_anomaly_overrides(policy, GroupLayer(group_of[m]),
                                  miner_overrides[m]) # Inherit
  /\ Reads(q, NewRequest("clearminer", m, "write", Inherit, Inherit, Inherit))

-----------------------------------------------------------------------------
(* PUT and DELETE /api/miners/{id}/group, DELETE /api/miner-groups/{id}    *)

\* Assignment to a group or, with None, removal from one.
Move(q, m, g) ==
  /\ req[q] = None
  /\ g \in groups \cup {None}
  /\ Reads(q, NewRequest("move", m, "row", Inherit, GroupLayer(g), g))

validate_miner_group_policy_membership(q) ==
  LET r == req[q] IN
  /\ At(q, {"move"}, "row")
  /\ Reads(q, IF Resolves(policy, r.read, miner_overrides[r.target])
              THEN [r EXCEPT !.pc = "write"] ELSE None)

set_miner_group(q) ==
  LET r == req[q] IN
  /\ At(q, {"move"}, "write")
  /\ IF r.new \in groups \cup {None} /\ group_of[r.target] # r.new
     THEN /\ group_of' = [group_of EXCEPT ![r.target] = r.new]
          /\ Writes(q)
          /\ UNCHANGED <<policy, group_overrides, miner_overrides, groups>>
     ELSE Reads(q, None)

\* validate_group_policy_removal lists the members ...
DeleteGroup(q, g) ==
  /\ req[q] = None /\ g \in groups
  /\ Reads(q, NewRequest("delete", g, "rows", Inherit, Members(g), None))

\* ... and validates each of them without the group.
validate_group_policy_removal(q) ==
  LET r == req[q] IN
  /\ At(q, {"delete"}, "rows")
  /\ Reads(q, IF \A m \in r.read : Resolves(policy, Inherit, miner_overrides[m])
              THEN [r EXCEPT !.pc = "write"] ELSE None)

delete_group(q) ==
  LET g == req[q].target IN
  /\ At(q, {"delete"}, "write")
  /\ IF g \in groups
     THEN /\ groups' = groups \ {g}
          /\ group_overrides' = [group_overrides EXCEPT ![g] = Inherit]
          /\ group_of' = [m \in Miners |-> IF group_of[m] = g THEN None
                                           ELSE group_of[m]]
          /\ Writes(q)
          /\ UNCHANGED <<policy, miner_overrides>>
     ELSE Reads(q, None)

-----------------------------------------------------------------------------
Next ==
  \E q \in Requests :
    \/ \E p \in Policies : PutGlobal(q, p)
    \/ validate_global_policy_against_overrides(q)
    \/ save_anomaly_policy(q)
    \/ \E g \in Groups :
         \/ \E patch \in GroupPatches : PutGroup(q, g, patch)
         \/ DeleteGroupPolicy(q, g)
         \/ DeleteGroup(q, g)
    \/ PutGroupBody(q)
    \/ ReadCurrentGroup(q)
    \/ validate_group_policy_against_miner_overrides(q)
    \/ save_group_anomaly_overrides(q)
    \/ \E m \in Miners :
         \/ \E patch \in MinerPatches : PutMiner(q, m, patch)
         \/ DeleteMinerPolicy(q, m)
         \/ \E g \in Groups \cup {None} : Move(q, m, g)
    \/ PutMinerBody(q)
    \/ ReadPrevious(q)
    \/ ReadGroupAgain(q)
    \/ ValidateMinerLayer(q)
    \/ save_miner_anomaly_overrides(q)
    \/ validate_miner_group_policy_membership(q)
    \/ set_miner_group(q)
    \/ validate_group_policy_removal(q)
    \/ delete_group(q)

Spec == Init /\ [][Next]_vars

-----------------------------------------------------------------------------
(* Properties                                                              *)

\* "Invalid cross-level combinations are rejected, including membership
\* changes that would make the resulting effective policy invalid"
\* (README.md): no stored layer is one that the loaders have to leave out,
\* and none is left of a group that is gone, which would veto changes of the
\* global policy and which no request could remove.  Writes that overlap can
\* make it false.
LayersResolve ==
  /\ \A g \in groups : Resolves(policy, group_overrides[g], Inherit)
  /\ \A m \in Miners : Resolves(policy, GroupLayer(group_of[m]), miner_overrides[m])
  /\ \A g \in Groups \ groups : group_overrides[g] = Inherit

\* Whatever sequence of requests runs, the combination of the layers stays
\* valid until some write is overtaken by another one between its validation
\* and its transaction.
LayersResolveUnlessOverlapped == overlapped \/ LayersResolve

\* A PUT changes the fields that its body names and no other one, unless it
\* was overtaken: it merges with a layer that it read under the group that
\* the miner had before the body was awaited.
PatchesKeepOtherFields ==
  [][\A q \in Requests :
       At(q, {"miner"}, "write") /\ save_miner_anomaly_overrides(q)
         /\ ~req[q].dirty /\ ~overlapped
       => LET m == req[q].target
              untouched == MINER_ANOMALY_OVERRIDE_FIELDS \ DOMAIN req[q].patch
          IN \A f \in untouched :
               /\ f \in DOMAIN miner_overrides[m] <=> f \in DOMAIN miner_overrides'[m]
               /\ f \in DOMAIN miner_overrides[m]
                    => miner_overrides'[m][f] = miner_overrides[m][f]]_vars
=============================================================================
