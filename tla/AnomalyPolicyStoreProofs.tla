----------------------- MODULE AnomalyPolicyStoreProofs -----------------------
(***************************************************************************)
(* Theorems about AnomalyPolicyStore.  The inductive invariant IInv adds   *)
(* to the properties what a request that no other one has overtaken knows  *)
(* of the stored layers at each of its positions (Fits).                   *)
(***************************************************************************)
EXTENDS AnomalyPolicyStore, TLAPS

StoreTypes ==
  /\ DOMAIN group_overrides = Groups /\ DOMAIN miner_overrides = Miners
  /\ groups \subseteq Groups
  /\ group_of \in [Miners -> groups \cup {None}]

\* A request is a record, and its target what its kind says.
RequestOK(r) ==
  /\ r = [kind |-> r.kind, target |-> r.target, pc |-> r.pc, patch |-> r.patch,
          read |-> r.read, new |-> r.new, dirty |-> r.dirty]
  /\ r.kind \in {"group", "cleargroup", "delete"} => r.target \in Groups
  /\ r.kind \in {"miner", "clearminer", "move"} => r.target \in Miners

RequestsOK ==
  DOMAIN req = Requests /\ \A q \in Requests : req[q] # None => RequestOK(req[q])

-----------------------------------------------------------------------------
(* What a request knows that no other one has overtaken                    *)

\* The layer from which the policy of m is inherited.
Layer(m) == GroupLayer(group_of[m])

GlobalFits(r) ==
  /\ r.pc = "rows" => r.read = [g \in Groups |-> GroupLayer(g)]
  /\ r.pc = "write" =>
       /\ \A g \in Groups : Resolves(r.new, GroupLayer(g), Inherit)
       /\ \A m \in Miners : Resolves(policy, Layer(m), miner_overrides[m])
                              => Resolves(r.new, Layer(m), miner_overrides[m])

GroupFits(r) ==
  /\ r.target \in groups
  /\ r.pc = "members" => r.read = GroupLayer(r.target)
  /\ r.pc \in {"members", "write"} => Resolves(policy, r.new, Inherit)
  /\ r.pc = "write" =>
       \A m \in Members(r.target) :
         Resolves(policy, GroupLayer(r.target), miner_overrides[m])
           => Resolves(policy, r.new, miner_overrides[m])

MinerFits(r) ==
  /\ r.pc \in {"body", "validate"} => r.read = group_of[r.target]
  /\ r.pc = "previous" => r.read = Layer(r.target)
  /\ r.pc \in {"group", "validate", "write"} =>
       r.new = Patched(miner_overrides[r.target], r.patch, None)
  /\ r.pc = "write" => Resolves(policy, Layer(r.target), r.new)

MoveFits(r) ==
  /\ r.pc = "row" => r.read = GroupLayer(r.new)
  /\ r.pc = "write" => Resolves(policy, GroupLayer(r.new), miner_overrides[r.target])

DeletionFits(r) ==
  /\ r.pc = "rows" => r.read = Members(r.target)
  /\ r.pc = "write" =>
       \A m \in Members(r.target) : Resolves(policy, Inherit, miner_overrides[m])

Fits(r) ==
  /\ r.kind = "global" => GlobalFits(r)
  /\ r.kind \in {"group", "cleargroup"} => GroupFits(r)
  /\ r.kind = "miner" => MinerFits(r)
  /\ r.kind = "clearminer" => r.new = Inherit
  /\ r.kind = "move" => MoveFits(r)
  /\ r.kind = "delete" => DeletionFits(r)

RequestsFit ==
  \A q \in Requests : req[q] # None /\ ~req[q].dirty => Fits(req[q])

IInv ==
  StoreTypes /\ RequestsOK /\ (overlapped \/ (LayersResolve /\ RequestsFit))

-----------------------------------------------------------------------------
(* Layers                                                                  *)

\* A policy resolves where nothing overrides it.
LEMMA NothingResolves ==
  ASSUME NEW p, normalize_anomaly_policy(p)
  PROVE  Resolves(p, Inherit, Inherit)
<1>1. normalize_anomaly_overrides(Inherit)
  BY DEF normalize_anomaly_overrides, Inherit
<1>2. ASSUME NEW o, normalize_anomaly_policy(o)
      PROVE  normalize_anomaly_policy(Over(o, Inherit))
  BY <1>2 DEF normalize_anomaly_policy, Over, Inherit, ANOMALY_POLICY_FIELDS
<1> QED BY <1>1, <1>2 DEF Resolves

\* A layer over a group's that resolves can be taken away.
LEMMA MinerLayerCanGo ==
  ASSUME NEW p, NEW g, NEW x, Resolves(p, g, x)
  PROVE  Resolves(p, g, Inherit)
<1>1. normalize_anomaly_overrides(Inherit)
  BY DEF normalize_anomaly_overrides, Inherit
<1>2. ASSUME NEW o, normalize_anomaly_policy(o)
      PROVE  normalize_anomaly_policy(Over(o, Inherit))
  BY <1>2 DEF normalize_anomaly_policy, Over, Inherit, ANOMALY_POLICY_FIELDS
<1> QED BY <1>1, <1>2 DEF Resolves

USE DEF load_group_anomaly_overrides, load_miner_anomaly_overrides

\* The layer of a group that exists is its row.
LEMMA RowsCount ==
  ASSUME LayersResolve, StoreTypes
  PROVE  /\ \A g \in groups : GroupLayer(g) = group_overrides[g]
         /\ \A g \in Groups \ groups : GroupLayer(g) = Inherit
         /\ \A m \in Miners : group_of[m] \in groups \cup {None}
BY StoreAssumption DEF LayersResolve, GroupLayer, StoreTypes

-----------------------------------------------------------------------------
(* The steps                                                               *)

\* What a request knows depends on the tables and on nothing else.
LEMMA KnowledgeStays ==
  ASSUME UNCHANGED stored, NEW r
  PROVE  Fits(r)' <=> Fits(r)
<1>1. UNCHANGED <<policy, group_overrides, miner_overrides, groups, group_of>>
  BY DEF stored
<1>2. /\ \A g : GroupLayer(g)' = GroupLayer(g)
      /\ \A g : Members(g)' = Members(g)
  BY <1>1 DEF GroupLayer, Members
<1>3. \A m : Layer(m)' = Layer(m)
  BY <1>1, <1>2 DEF Layer
<1> QED
  BY <1>1, <1>2, <1>3 DEF Fits, GlobalFits, GroupFits, MinerFits, MoveFits, DeletionFits

\* A step that writes nothing.
LEMMA ReadStep ==
  ASSUME IInv, NEW q \in Requests, NEW r, Goes(q, r),
         UNCHANGED <<stored, overlapped>>,
         r # None => RequestOK(r),
         r # None /\ ~overlapped /\ ~r.dirty /\ LayersResolve => Fits(r)
  PROVE  IInv'
<1>1. UNCHANGED <<policy, group_overrides, miner_overrides, groups, group_of>>
  BY DEF stored
<1>2. StoreTypes' /\ (LayersResolve' <=> LayersResolve)
  BY <1>1 DEF IInv, StoreTypes, LayersResolve, GroupLayer
<1>3. RequestsOK'
  BY DEF IInv, RequestsOK, Goes, RequestOK
<1>4. ASSUME ~overlapped
      PROVE  RequestsFit'
  <2> SUFFICES ASSUME NEW p \in Requests, NEW s, s = req'[p], s # None, ~s.dirty
               PROVE  Fits(s)'
    BY DEF RequestsFit
  <2>1. s = IF p = q THEN r ELSE req[p]
    BY DEF Goes, IInv, RequestsOK
  <2>2. Fits(s)
    BY <1>4, <2>1 DEF IInv, RequestsFit
  <2> QED BY <2>2, KnowledgeStays
<1> QED BY <1>2, <1>3, <1>4 DEF IInv

\* A request stays the record it is when its position and what it holds change.
SameRequest(r, s) ==
  /\ RequestOK(s)
  /\ s.kind = r.kind /\ s.target = r.target /\ s.patch = r.patch /\ s.dirty = r.dirty

LEMMA RecordMoves ==
  ASSUME NEW r, RequestOK(r), NEW s, NEW x, NEW n, NEW d,
         s = [kind |-> r.kind, target |-> r.target, pc |-> x, patch |-> r.patch,
              read |-> d, new |-> n, dirty |-> r.dirty]
  PROVE  SameRequest(r, s) /\ s.pc = x /\ s.new = n /\ s.read = d
BY DEF RequestOK, SameRequest

LEMMA PositionMoves ==
  ASSUME NEW r, RequestOK(r), NEW x, NEW s, s = [r EXCEPT !.pc = x]
  PROVE  SameRequest(r, s) /\ s.pc = x /\ s.new = r.new /\ s.read = r.read
<1>1. s = [kind |-> r.kind, target |-> r.target, pc |-> x, patch |-> r.patch,
           read |-> r.read, new |-> r.new, dirty |-> r.dirty]
  BY DEF RequestOK
<1> QED BY <1>1, RecordMoves

LEMMA RequestIsOvertaken ==
  ASSUME NEW r, RequestOK(r)
  PROVE  RequestOK([r EXCEPT !.dirty = TRUE]) /\ [r EXCEPT !.dirty = TRUE].dirty
<1>1. PICK s : s = [r EXCEPT !.dirty = TRUE]
  OBVIOUS
<1>2. s = [kind |-> r.kind, target |-> r.target, pc |-> r.pc, patch |-> r.patch,
           read |-> r.read, new |-> r.new, dirty |-> TRUE]
  BY <1>1 DEF RequestOK
<1>3. s.dirty /\ s.kind = r.kind /\ s.target = r.target
  BY <1>2
<1>4. s.dirty = TRUE
  BY <1>2
<1>5. RequestOK(s)
  BY <1>2, <1>3, <1>4 DEF RequestOK
<1> QED BY <1>1, <1>3, <1>5

LEMMA NewRequestOK ==
  ASSUME NEW kind, NEW target, NEW pc, NEW patch, NEW read, NEW new, NEW r,
         r = NewRequest(kind, target, pc, patch, read, new),
         kind \in {"group", "cleargroup", "delete"} => target \in Groups,
         kind \in {"miner", "clearminer", "move"} => target \in Miners
  PROVE  /\ RequestOK(r)
         /\ r.kind = kind /\ r.target = target /\ r.pc = pc /\ r.patch = patch
         /\ r.read = read /\ r.new = new
BY DEF NewRequest, RequestOK

\* A step that writes: the other requests are overtaken.
LEMMA WriteStep ==
  ASSUME IInv, NEW q \in Requests, req[q] # None, Writes(q), StoreTypes',
         ~overlapped /\ ~req[q].dirty /\ LayersResolve /\ Fits(req[q])
           => LayersResolve'
  PROVE  IInv'
<1>1. ASSUME NEW p \in Requests, req'[p] # None
      PROVE  RequestOK(req'[p]) /\ req'[p].dirty
  <2>1. req[p] # None /\ req'[p] = [req[p] EXCEPT !.dirty = TRUE]
    BY <1>1 DEF Writes
  <2>2. PICK r : r = req[p] /\ RequestOK(r)
    BY <2>1 DEF IInv, RequestsOK
  <2>3. RequestOK([r EXCEPT !.dirty = TRUE]) /\ [r EXCEPT !.dirty = TRUE].dirty
    BY <2>2, RequestIsOvertaken
  <2> QED BY <2>1, <2>2, <2>3
<1>2. RequestsOK' /\ RequestsFit'
  BY <1>1 DEF Writes, RequestsOK, RequestsFit
<1>3. overlapped \/ req[q].dirty \/ LayersResolve'
  BY DEF IInv, RequestsFit
<1>4. overlapped \/ req[q].dirty => overlapped'
  BY DEF Writes
<1> QED BY <1>2, <1>3, <1>4 DEF IInv

LEMMA Held ==
  ASSUME IInv, NEW q \in Requests, req[q] # None
  PROVE  /\ StoreTypes /\ RequestOK(req[q])
         /\ ~overlapped /\ ~req[q].dirty => Fits(req[q])
BY DEF IInv, RequestsOK, RequestsFit

\* A request in flight goes on, or ends (s = None), without a write.
LEMMA Advances ==
  ASSUME IInv, NEW q \in Requests, NEW r, r = req[q], r # None,
         NEW s, Goes(q, s), UNCHANGED <<stored, overlapped>>,
         s # None => SameRequest(r, s),
         s # None /\ StoreTypes /\ LayersResolve /\ Fits(r) => Fits(s)
  PROVE  IInv'
<1>1. s # None => RequestOK(s) /\ s.dirty = r.dirty
  BY DEF SameRequest
<1>2. StoreTypes /\ (~overlapped /\ ~r.dirty => Fits(r))
  BY Held
<1>3. s # None /\ ~overlapped /\ ~s.dirty /\ LayersResolve => Fits(s)
  BY <1>1, <1>2
<1> QED BY <1>1, <1>3, ReadStep

-----------------------------------------------------------------------------
(* PUT /api/anomaly-policy                                                 *)

LEMMA PutGlobalStep ==
  ASSUME IInv, NEW q \in Requests, NEW p \in Policies, PutGlobal(q, p)
  PROVE  IInv'
<1>1. PICK r : r = NewRequest("global", None, "rows", Inherit,
                              [g \in Groups |-> GroupLayer(g)], p)
  OBVIOUS
<1>2. RequestOK(r) /\ Fits(r)
  BY <1>1, NewRequestOK DEF Fits, GlobalFits
<1> QED BY <1>1, <1>2, ReadStep DEF PutGlobal

LEMMA ValidateGlobalStep ==
  ASSUME IInv, NEW q \in Requests, validate_global_policy_against_overrides(q)
  PROVE  IInv'
<1> DEFINE layer(m) == IF group_of[m] = None THEN Inherit ELSE req[q].read[group_of[m]]
           valid == /\ \A g \in Groups : Resolves(req[q].new, req[q].read[g], Inherit)
                    /\ \A m \in Miners :
                         Resolves(policy, layer(m), miner_overrides[m])
                           => Resolves(req[q].new, layer(m), miner_overrides[m])
<1>1. req[q] # None /\ req[q].kind = "global" /\ req[q].pc = "rows"
  BY DEF validate_global_policy_against_overrides, At
<1>2. PICK r : r = req[q] /\ RequestOK(r)
  BY <1>1, Held
<1>3. PICK s : s = IF valid THEN [r EXCEPT !.pc = "write"] ELSE None
  OBVIOUS
<1>4. Goes(q, s) /\ UNCHANGED <<stored, overlapped>>
  BY <1>2, <1>3 DEF validate_global_policy_against_overrides, Reads
<1>5. ASSUME s # None
      PROVE  /\ valid /\ SameRequest(r, s) /\ s.pc = "write"
             /\ s.new = r.new /\ s.read = r.read
  <2>1. valid /\ s = [r EXCEPT !.pc = "write"]
    BY <1>3, <1>5
  <2> HIDE DEF valid
  <2> QED BY <1>2, <2>1, PositionMoves
<1>6. ASSUME s # None, StoreTypes, Fits(r)
      PROVE  Fits(s)
  <2>1. r.read = [g \in Groups |-> GroupLayer(g)]
    BY <1>1, <1>2, <1>6 DEF Fits, GlobalFits
  <2>2. \A m \in Miners : layer(m) = Layer(m)
    BY <1>2, <1>6, <2>1 DEF StoreTypes, Layer, GroupLayer
  <2>3. GlobalFits(s)
    BY <1>2, <1>5, <1>6, <2>1, <2>2 DEF GlobalFits
  <2> QED BY <1>1, <1>2, <1>5, <1>6, <2>3 DEF Fits, SameRequest
<1> QED BY <1>1, <1>2, <1>4, <1>5, <1>6, Advances

LEMMA SaveGlobalStep ==
  ASSUME IInv, NEW q \in Requests, save_anomaly_policy(q)
  PROVE  IInv'
<1>1. /\ req[q] # None /\ req[q].kind = "global" /\ req[q].pc = "write"
      /\ Writes(q) /\ policy' = req[q].new
      /\ UNCHANGED <<group_overrides, miner_overrides, groups, group_of>>
  BY DEF save_anomaly_policy, At
<1>2. StoreTypes /\ StoreTypes'
  BY <1>1, Held DEF StoreTypes
<1>3. ASSUME LayersResolve, Fits(req[q])
      PROVE  LayersResolve'
  <2>1. /\ \A g \in Groups : Resolves(policy', GroupLayer(g), Inherit)
        /\ \A m \in Miners : Resolves(policy', Layer(m), miner_overrides[m])
    BY <1>1, <1>3 DEF Fits, GlobalFits, LayersResolve, Layer
  <2>2. \A g \in groups : Resolves(policy', group_overrides[g], Inherit)
    BY <1>2, <1>3, <2>1, RowsCount DEF StoreTypes
  <2>3. \A m \in Miners : GroupLayer(group_of[m])' = Layer(m)
    BY <1>1, <1>2, <1>3, <2>2, RowsCount DEF Layer, GroupLayer
  <2> QED BY <1>1, <1>3, <2>1, <2>2, <2>3 DEF LayersResolve
<1> QED BY <1>1, <1>2, <1>3, WriteStep

-----------------------------------------------------------------------------
(* PUT and DELETE /api/miner-groups/{id}/anomaly-policy                    *)

LEMMA PutGroupStep ==
  ASSUME IInv, NEW q \in Requests, NEW g \in Groups, NEW patch, PutGroup(q, g, patch)
  PROVE  IInv'
<1>1. PICK r : r = NewRequest("group", g, "body", patch, Inherit, Inherit)
  OBVIOUS
<1>2. RequestOK(r) /\ Fits(r)
  BY <1>1, NewRequestOK DEF Fits, GroupFits, PutGroup
<1> QED BY <1>1, <1>2, ReadStep DEF PutGroup, Reads

LEMMA PutGroupBodyStep ==
  ASSUME IInv, NEW q \in Requests, PutGroupBody(q)
  PROVE  IInv'
<1>0. PICK merged : merged = Patched(GroupLayer(req[q].target), req[q].patch, None)
  OBVIOUS
<1>1. req[q] # None /\ req[q].kind = "group" /\ req[q].pc = "body"
  BY DEF PutGroupBody, At
<1>2. PICK r : r = req[q] /\ RequestOK(r)
  BY <1>1, Held
<1>3. CASE Goes(q, [r EXCEPT !.pc = "current", !.new = merged])
             /\ UNCHANGED <<stored, overlapped>>
  <2>1. PICK s : s = [r EXCEPT !.pc = "current", !.new = merged]
    OBVIOUS
  <2>2. SameRequest(r, s) /\ s.pc = "current"
    <3>1. s = [kind |-> r.kind, target |-> r.target, pc |-> "current", patch |-> r.patch,
               read |-> r.read, new |-> merged, dirty |-> r.dirty]
      BY <1>2, <2>1 DEF RequestOK
    <3> QED BY <1>2, <3>1, RecordMoves
  <2>3. ASSUME Fits(r)
        PROVE  Fits(s)
    BY <1>1, <1>2, <2>2, <2>3 DEF Fits, GroupFits, SameRequest
  <2> QED BY <1>1, <1>2, <1>3, <2>1, <2>2, <2>3, Advances
<1>4. CASE Reads(q, None)
  BY <1>4, ReadStep DEF Reads
<1> QED BY <1>0, <1>2, <1>3, <1>4 DEF PutGroupBody

LEMMA DeleteGroupPolicyStep ==
  ASSUME IInv, NEW q \in Requests, NEW g \in Groups, DeleteGroupPolicy(q, g)
  PROVE  IInv'
<1>1. PICK r : r = NewRequest("cleargroup", g, "current", Inherit, Inherit, Inherit)
  OBVIOUS
<1>2. RequestOK(r) /\ Fits(r)
  BY <1>1, NewRequestOK DEF Fits, GroupFits, DeleteGroupPolicy
<1> QED BY <1>1, <1>2, ReadStep DEF DeleteGroupPolicy, Reads

LEMMA ReadCurrentGroupStep ==
  ASSUME IInv, NEW q \in Requests, ReadCurrentGroup(q)
  PROVE  IInv'
<1>0. PICK layer : layer = GroupLayer(req[q].target)
  OBVIOUS
<1>1. req[q] # None /\ req[q].kind \in {"group", "cleargroup"} /\ req[q].pc = "current"
  BY DEF ReadCurrentGroup, At
<1>2. PICK r : r = req[q] /\ RequestOK(r)
  BY <1>1, Held
<1>3. PICK s : s = IF Resolves(policy, r.new, Inherit)
                   THEN [r EXCEPT !.pc = "members", !.read = layer] ELSE None
  OBVIOUS
<1>4. Goes(q, s) /\ UNCHANGED <<stored, overlapped>>
  BY <1>0, <1>2, <1>3 DEF ReadCurrentGroup, Reads
<1>5. ASSUME s # None
      PROVE  /\ Resolves(policy, r.new, Inherit) /\ SameRequest(r, s)
             /\ s.pc = "members" /\ s.new = r.new /\ s.read = layer
  <2>1. Resolves(policy, r.new, Inherit) /\ s = [r EXCEPT !.pc = "members", !.read = layer]
    BY <1>3, <1>5
  <2>2. s = [kind |-> r.kind, target |-> r.target, pc |-> "members", patch |-> r.patch,
             read |-> layer, new |-> r.new, dirty |-> r.dirty]
    BY <1>2, <2>1 DEF RequestOK
  <2> QED BY <1>2, <2>1, <2>2, RecordMoves
<1>6. ASSUME s # None, Fits(r)
      PROVE  Fits(s)
  BY <1>0, <1>1, <1>2, <1>5, <1>6 DEF Fits, GroupFits, SameRequest
<1> QED BY <1>1, <1>2, <1>4, <1>5, <1>6, Advances

LEMMA ValidateGroupStep ==
  ASSUME IInv, NEW q \in Requests, validate_group_policy_against_miner_overrides(q)
  PROVE  IInv'
<1> DEFINE valid == \A m \in Members(req[q].target) :
                      Resolves(policy, req[q].read, miner_overrides[m])
                        => Resolves(policy, req[q].new, miner_overrides[m])
<1>1. req[q] # None /\ req[q].kind \in {"group", "cleargroup"} /\ req[q].pc = "members"
  BY DEF validate_group_policy_against_miner_overrides, At
<1>2. PICK r : r = req[q] /\ RequestOK(r)
  BY <1>1, Held
<1>3. PICK s : s = IF valid THEN [r EXCEPT !.pc = "write"] ELSE None
  OBVIOUS
<1>4. Goes(q, s) /\ UNCHANGED <<stored, overlapped>>
  BY <1>2, <1>3 DEF validate_group_policy_against_miner_overrides, Reads
<1>5. ASSUME s # None
      PROVE  /\ valid /\ SameRequest(r, s) /\ s.pc = "write"
             /\ s.new = r.new /\ s.read = r.read
  <2>1. valid /\ s = [r EXCEPT !.pc = "write"]
    BY <1>3, <1>5
  <2> HIDE DEF valid
  <2> QED BY <1>2, <2>1, PositionMoves
<1>6. ASSUME s # None, Fits(r)
      PROVE  Fits(s)
  BY <1>1, <1>2, <1>5, <1>6 DEF Fits, GroupFits, SameRequest
<1> QED BY <1>1, <1>2, <1>4, <1>5, <1>6, Advances

LEMMA SaveGroupStep ==
  ASSUME IInv, NEW q \in Requests, save_group_anomaly_overrides(q)
  PROVE  IInv'
<1>1. /\ req[q] # None /\ req[q].kind \in {"group", "cleargroup"} /\ req[q].pc = "write"
      /\ group_overrides' = [group_overrides EXCEPT ![req[q].target] = req[q].new]
      /\ Writes(q)
      /\ UNCHANGED <<policy, miner_overrides, groups, group_of>>
  BY DEF save_group_anomaly_overrides, At
<1>2. StoreTypes /\ StoreTypes'
  BY <1>1, Held DEF StoreTypes
<1>3. ASSUME LayersResolve, Fits(req[q])
      PROVE  LayersResolve'
  <2>1. PICK g, new : g = req[q].target /\ new = req[q].new
    OBVIOUS
  <2>2. /\ g \in groups /\ g \in Groups /\ Resolves(policy, new, Inherit)
        /\ \A m \in Members(g) : Resolves(policy, GroupLayer(g), miner_overrides[m])
                                   => Resolves(policy, new, miner_overrides[m])
    BY <1>1, <1>2, <1>3, <2>1 DEF Fits, GroupFits, StoreTypes
  <2>3. group_overrides'[g] = new /\ \A h \in Groups \ {g} : group_overrides'[h] = group_overrides[h]
    BY <1>1, <1>2, <2>1, <2>2 DEF StoreTypes
  <2>4. ASSUME NEW m \in Miners
        PROVE  Resolves(policy, GroupLayer(group_of[m])', miner_overrides[m])
    <3>1. CASE group_of[m] = g
      <4>1. GroupLayer(group_of[m])' = new
        BY <1>1, <2>2, <2>3, <3>1, StoreAssumption DEF GroupLayer
      <4> QED BY <1>3, <2>2, <3>1, <4>1 DEF LayersResolve, Members
    <3>2. CASE group_of[m] # g
      <4>1. GroupLayer(group_of[m])' = GroupLayer(group_of[m])
        BY <1>1, <1>2, <2>3, <3>2 DEF GroupLayer, StoreTypes
      <4> QED BY <1>3, <4>1 DEF LayersResolve
    <3> QED BY <3>1, <3>2
  <2>5. \A h \in groups : Resolves(policy, group_overrides'[h], Inherit)
    BY <1>2, <1>3, <2>2, <2>3 DEF LayersResolve, StoreTypes
  <2>6. \A h \in Groups \ groups : group_overrides'[h] = Inherit
    BY <1>3, <2>2, <2>3 DEF LayersResolve
  <2> QED BY <1>1, <2>4, <2>5, <2>6 DEF LayersResolve
<1> QED BY <1>1, <1>2, <1>3, WriteStep

-----------------------------------------------------------------------------
(* PUT and DELETE /api/miners/{id}/anomaly-policy                          *)

LEMMA PutMinerStep ==
  ASSUME IInv, NEW q \in Requests, NEW m \in Miners, NEW patch, PutMiner(q, m, patch)
  PROVE  IInv'
<1>1. PICK r : r = NewRequest("miner", m, "body", patch, group_of[m], Inherit)
  OBVIOUS
<1>2. RequestOK(r) /\ Fits(r)
  BY <1>1, NewRequestOK DEF Fits, MinerFits
<1> QED BY <1>1, <1>2, ReadStep DEF PutMiner, Reads

LEMMA PutMinerBodyStep ==
  ASSUME IInv, NEW q \in Requests, PutMinerBody(q)
  PROVE  IInv'
<1>0. PICK layer : layer = GroupLayer(req[q].read)
  OBVIOUS
<1>1. req[q] # None /\ req[q].kind = "miner" /\ req[q].pc = "body"
  BY DEF PutMinerBody, At
<1>2. PICK r : r = req[q] /\ RequestOK(r)
  BY <1>1, Held
<1>3. PICK s : s = [r EXCEPT !.pc = "previous", !.read = layer]
  OBVIOUS
<1>4. Goes(q, s) /\ UNCHANGED <<stored, overlapped>>
  BY <1>0, <1>2, <1>3 DEF PutMinerBody
<1>5. SameRequest(r, s) /\ s.pc = "previous" /\ s.read = layer
  <2>1. s = [kind |-> r.kind, target |-> r.target, pc |-> "previous", patch |-> r.patch,
             read |-> layer, new |-> r.new, dirty |-> r.dirty]
    BY <1>2, <1>3 DEF RequestOK
  <2> QED BY <1>2, <2>1, RecordMoves
<1>6. ASSUME Fits(r)
      PROVE  Fits(s)
  <2>1. r.read = group_of[r.target] /\ s.target = r.target /\ s.kind = "miner"
    BY <1>1, <1>2, <1>5, <1>6 DEF Fits, MinerFits, SameRequest
  <2>2. s.read = Layer(s.target)
    BY <1>0, <1>2, <1>5, <2>1 DEF Layer
  <2> QED BY <1>5, <2>1, <2>2 DEF Fits, MinerFits
<1> QED BY <1>1, <1>2, <1>4, <1>5, <1>6, Advances

LEMMA ReadPreviousStep ==
  ASSUME IInv, NEW q \in Requests, ReadPrevious(q)
  PROVE  IInv'
<1>0. PICK previous, merged :
        /\ previous = load_miner_anomaly_overrides(policy, req[q].read,
                                                   miner_overrides[req[q].target])
        /\ merged = Patched(previous, req[q].patch, None)
  OBVIOUS
<1>1. req[q] # None /\ req[q].kind = "miner" /\ req[q].pc = "previous"
  BY DEF ReadPrevious, At
<1>2. PICK r : r = req[q] /\ RequestOK(r)
  BY <1>1, Held
<1>3. PICK s : /\ Goes(q, s)
               /\ s = None \/ s = [r EXCEPT !.pc = "group", !.new = merged]
  BY <1>0, <1>2 DEF ReadPrevious, Reads
<1>4. UNCHANGED <<stored, overlapped>>
  BY DEF ReadPrevious, Reads
<1>5. ASSUME s # None
      PROVE  SameRequest(r, s) /\ s.pc = "group" /\ s.new = merged
  <2>1. s = [kind |-> r.kind, target |-> r.target, pc |-> "group", patch |-> r.patch,
             read |-> r.read, new |-> merged, dirty |-> r.dirty]
    BY <1>2, <1>3, <1>5 DEF RequestOK
  <2> QED BY <1>2, <2>1, RecordMoves
<1>6. ASSUME s # None, LayersResolve, Fits(r)
      PROVE  Fits(s)
  <2>1. r.read = Layer(r.target) /\ r.target \in Miners
    BY <1>1, <1>2, <1>6 DEF Fits, MinerFits, RequestOK
  <2>2. previous = miner_overrides[r.target]
    BY <1>0, <1>2, <1>6, <2>1 DEF LayersResolve, Layer
  <2>3. s.new = Patched(miner_overrides[s.target], s.patch, None) /\ s.kind = "miner"
    BY <1>0, <1>1, <1>2, <1>5, <1>6, <2>2 DEF SameRequest
  <2> QED BY <1>5, <1>6, <2>3 DEF Fits, MinerFits
<1> QED BY <1>1, <1>2, <1>3, <1>4, <1>5, <1>6, Advances

LEMMA ReadGroupAgainStep ==
  ASSUME IInv, NEW q \in Requests, ReadGroupAgain(q)
  PROVE  IInv'
<1>0. PICK group : group = group_of[req[q].target]
  OBVIOUS
<1>1. req[q] # None /\ req[q].kind = "miner" /\ req[q].pc = "group"
  BY DEF ReadGroupAgain, At
<1>2. PICK r : r = req[q] /\ RequestOK(r)
  BY <1>1, Held
<1>3. PICK s : s = [r EXCEPT !.pc = "validate", !.read = group]
  OBVIOUS
<1>4. Goes(q, s) /\ UNCHANGED <<stored, overlapped>>
  BY <1>0, <1>2, <1>3 DEF ReadGroupAgain, Reads
<1>5. SameRequest(r, s) /\ s.pc = "validate" /\ s.read = group /\ s.new = r.new
  <2>1. s = [kind |-> r.kind, target |-> r.target, pc |-> "validate", patch |-> r.patch,
             read |-> group, new |-> r.new, dirty |-> r.dirty]
    BY <1>2, <1>3 DEF RequestOK
  <2> QED BY <1>2, <2>1, RecordMoves
<1>6. ASSUME Fits(r)
      PROVE  Fits(s)
  BY <1>0, <1>1, <1>2, <1>5, <1>6 DEF Fits, MinerFits, SameRequest
<1> QED BY <1>1, <1>2, <1>4, <1>5, <1>6, Advances

LEMMA ValidateMinerStep ==
  ASSUME IInv, NEW q \in Requests, ValidateMinerLayer(q)
  PROVE  IInv'
<1> DEFINE valid == Resolves(policy, GroupLayer(req[q].read), req[q].new)
<1>1. req[q] # None /\ req[q].kind = "miner" /\ req[q].pc = "validate"
  BY DEF ValidateMinerLayer, At
<1>2. PICK r : r = req[q] /\ RequestOK(r)
  BY <1>1, Held
<1>3. PICK s : s = IF valid THEN [r EXCEPT !.pc = "write"] ELSE None
  OBVIOUS
<1>4. Goes(q, s) /\ UNCHANGED <<stored, overlapped>>
  BY <1>2, <1>3 DEF ValidateMinerLayer, Reads
<1>5. ASSUME s # None
      PROVE  /\ valid /\ SameRequest(r, s) /\ s.pc = "write"
             /\ s.new = r.new /\ s.read = r.read
  <2>1. valid /\ s = [r EXCEPT !.pc = "write"]
    BY <1>3, <1>5
  <2> HIDE DEF valid
  <2> QED BY <1>2, <2>1, PositionMoves
<1>6. ASSUME s # None, Fits(r)
      PROVE  Fits(s)
  BY <1>1, <1>2, <1>5, <1>6 DEF Fits, MinerFits, SameRequest, Layer
<1> QED BY <1>1, <1>2, <1>4, <1>5, <1>6, Advances

LEMMA SaveMinerStep ==
  ASSUME IInv, NEW q \in Requests, save_miner_anomaly_overrides(q)
  PROVE  IInv'
<1>1. /\ req[q] # None /\ req[q].kind \in {"miner", "clearminer"} /\ req[q].pc = "write"
      /\ miner_overrides' = [miner_overrides EXCEPT ![req[q].target] = req[q].new]
      /\ Writes(q)
      /\ UNCHANGED <<policy, group_overrides, groups, group_of>>
  BY DEF save_miner_anomaly_overrides, At
<1>2. StoreTypes /\ StoreTypes'
  BY <1>1, Held DEF StoreTypes
<1>3. ASSUME LayersResolve, Fits(req[q])
      PROVE  LayersResolve'
  <2>1. PICK m, new : m = req[q].target /\ new = req[q].new
    OBVIOUS
  <2>2. m \in Miners /\ Resolves(policy, Layer(m), miner_overrides[m])
    BY <1>1, <1>3, <2>1, Held DEF RequestOK, LayersResolve, Layer
  <2>3. Resolves(policy, Layer(m), new)
    BY <1>1, <1>3, <2>1, <2>2, MinerLayerCanGo DEF Fits, MinerFits
  <2>4. miner_overrides'[m] = new /\ \A n \in Miners \ {m} : miner_overrides'[n] = miner_overrides[n]
    BY <1>1, <1>2, <2>1, <2>2 DEF StoreTypes
  <2>5. \A n \in Miners : Resolves(policy, Layer(n), miner_overrides'[n])
    BY <1>3, <2>3, <2>4 DEF LayersResolve, Layer
  <2> QED BY <1>1, <1>3, <2>5 DEF LayersResolve, Layer, GroupLayer
<1> QED BY <1>1, <1>2, <1>3, WriteStep

LEMMA DeleteMinerPolicyStep ==
  ASSUME IInv, NEW q \in Requests, NEW m \in Miners, DeleteMinerPolicy(q, m)
  PROVE  IInv'
<1>1. PICK r : r = NewRequest("clearminer", m, "write", Inherit, Inherit, Inherit)
  OBVIOUS
<1>2. RequestOK(r) /\ Fits(r)
  BY <1>1, NewRequestOK DEF Fits
<1> QED BY <1>1, <1>2, ReadStep DEF DeleteMinerPolicy, Reads

-----------------------------------------------------------------------------
(* PUT and DELETE /api/miners/{id}/group, DELETE /api/miner-groups/{id}    *)

LEMMA MoveStep ==
  ASSUME IInv, NEW q \in Requests, NEW m \in Miners, NEW g \in Groups \cup {None},
         Move(q, m, g)
  PROVE  IInv'
<1>1. PICK r : r = NewRequest("move", m, "row", Inherit, GroupLayer(g), g)
  OBVIOUS
<1>2. RequestOK(r) /\ Fits(r)
  BY <1>1, NewRequestOK DEF Fits, MoveFits
<1> QED BY <1>1, <1>2, ReadStep DEF Move, Reads

LEMMA ValidateMembershipStep ==
  ASSUME IInv, NEW q \in Requests, validate_miner_group_policy_membership(q)
  PROVE  IInv'
<1> DEFINE valid == Resolves(policy, req[q].read, miner_overrides[req[q].target])
<1>1. req[q] # None /\ req[q].kind = "move" /\ req[q].pc = "row"
  BY DEF validate_miner_group_policy_membership, At
<1>2. PICK r : r = req[q] /\ RequestOK(r)
  BY <1>1, Held
<1>3. PICK s : s = IF valid THEN [r EXCEPT !.pc = "write"] ELSE None
  OBVIOUS
<1>4. Goes(q, s) /\ UNCHANGED <<stored, overlapped>>
  BY <1>2, <1>3 DEF validate_miner_group_policy_membership, Reads
<1>5. ASSUME s # None
      PROVE  /\ valid /\ SameRequest(r, s) /\ s.pc = "write"
             /\ s.new = r.new /\ s.read = r.read
  <2>1. valid /\ s = [r EXCEPT !.pc = "write"]
    BY <1>3, <1>5
  <2> HIDE DEF valid
  <2> QED BY <1>2, <2>1, PositionMoves
<1>6. ASSUME s # None, Fits(r)
      PROVE  Fits(s)
  BY <1>1, <1>2, <1>5, <1>6 DEF Fits, MoveFits, SameRequest
<1> QED BY <1>1, <1>2, <1>4, <1>5, <1>6, Advances

LEMMA SetMinerGroupStep ==
  ASSUME IInv, NEW q \in Requests, set_miner_group(q)
  PROVE  IInv'
<1>1. req[q] # None /\ req[q].kind = "move" /\ req[q].pc = "write"
  BY DEF set_miner_group, At
<1>2. CASE Reads(q, None)
  BY <1>2, ReadStep DEF Reads
<1>3. CASE /\ req[q].new \in groups \cup {None}
           /\ group_of' = [group_of EXCEPT ![req[q].target] = req[q].new]
           /\ Writes(q)
           /\ UNCHANGED <<policy, group_overrides, miner_overrides, groups>>
  <2>1. StoreTypes /\ StoreTypes'
    BY <1>1, <1>3, Held DEF StoreTypes
  <2>2. ASSUME LayersResolve, Fits(req[q])
        PROVE  LayersResolve'
    <3>1. PICK m, g : m = req[q].target /\ g = req[q].new
      OBVIOUS
    <3>2. m \in Miners /\ Resolves(policy, GroupLayer(g), miner_overrides[m])
      BY <1>1, <2>2, <3>1, Held DEF RequestOK, Fits, MoveFits
    <3>3. group_of'[m] = g /\ \A n \in Miners \ {m} : group_of'[n] = group_of[n]
      BY <1>3, <2>1, <3>1, <3>2 DEF StoreTypes
    <3>4. \A n \in Miners : Resolves(policy, GroupLayer(group_of'[n]), miner_overrides[n])
      BY <2>2, <3>2, <3>3 DEF LayersResolve
    <3> QED BY <1>3, <2>2, <3>4 DEF LayersResolve, GroupLayer
  <2> QED BY <1>1, <1>3, <2>1, <2>2, WriteStep
<1> QED BY <1>2, <1>3 DEF set_miner_group

LEMMA DeleteGroupStep ==
  ASSUME IInv, NEW q \in Requests, NEW g \in Groups, DeleteGroup(q, g)
  PROVE  IInv'
<1>1. PICK r : r = NewRequest("delete", g, "rows", Inherit, Members(g), None)
  OBVIOUS
<1>2. RequestOK(r) /\ Fits(r)
  BY <1>1, NewRequestOK DEF Fits, DeletionFits
<1> QED BY <1>1, <1>2, ReadStep DEF DeleteGroup, Reads

LEMMA ValidateRemovalStep ==
  ASSUME IInv, NEW q \in Requests, validate_group_policy_removal(q)
  PROVE  IInv'
<1> DEFINE valid == \A m \in req[q].read : Resolves(policy, Inherit, miner_overrides[m])
<1>1. req[q] # None /\ req[q].kind = "delete" /\ req[q].pc = "rows"
  BY DEF validate_group_policy_removal, At
<1>2. PICK r : r = req[q] /\ RequestOK(r)
  BY <1>1, Held
<1>3. PICK s : s = IF valid THEN [r EXCEPT !.pc = "write"] ELSE None
  OBVIOUS
<1>4. Goes(q, s) /\ UNCHANGED <<stored, overlapped>>
  BY <1>2, <1>3 DEF validate_group_policy_removal, Reads
<1>5. ASSUME s # None
      PROVE  /\ valid /\ SameRequest(r, s) /\ s.pc = "write"
             /\ s.new = r.new /\ s.read = r.read
  <2>1. valid /\ s = [r EXCEPT !.pc = "write"]
    BY <1>3, <1>5
  <2> HIDE DEF valid
  <2> QED BY <1>2, <2>1, PositionMoves
<1>6. ASSUME s # None, Fits(r)
      PROVE  Fits(s)
  BY <1>1, <1>2, <1>5, <1>6 DEF Fits, DeletionFits, SameRequest
<1> QED BY <1>1, <1>2, <1>4, <1>5, <1>6, Advances

LEMMA RemoveGroupStep ==
  ASSUME IInv, NEW q \in Requests, delete_group(q)
  PROVE  IInv'
<1>0. PICK g : g = req[q].target
  OBVIOUS
<1>1. req[q] # None /\ req[q].kind = "delete" /\ req[q].pc = "write"
  BY DEF delete_group, At
<1>2. CASE Reads(q, None)
  BY <1>2, ReadStep DEF Reads
<1>3. CASE /\ groups' = groups \ {g}
           /\ group_overrides' = [group_overrides EXCEPT ![g] = Inherit]
           /\ group_of' = [m \in Miners |-> IF group_of[m] = g THEN None ELSE group_of[m]]
           /\ Writes(q)
           /\ UNCHANGED <<policy, miner_overrides>>
  <2>1. StoreTypes /\ StoreTypes'
    BY <1>1, <1>3, Held DEF StoreTypes
  <2>2. ASSUME LayersResolve, Fits(req[q])
        PROVE  LayersResolve'
    <3>1. /\ g \in Groups
          /\ \A m \in Members(g) : Resolves(policy, Inherit, miner_overrides[m])
      BY <1>0, <1>1, <2>2, Held DEF RequestOK, Fits, DeletionFits
    <3>2. group_overrides'[g] = Inherit /\ \A h \in Groups \ {g} : group_overrides'[h] = group_overrides[h]
      BY <1>3, <2>1, <3>1 DEF StoreTypes
    <3>3. ASSUME NEW m \in Miners
          PROVE  Resolves(policy, GroupLayer(group_of[m])', miner_overrides[m])
      <4>1. CASE group_of[m] = g
        <5>1. GroupLayer(group_of[m])' = Inherit
          BY <1>3, <4>1 DEF GroupLayer
        <5> QED BY <3>1, <4>1, <5>1 DEF Members
      <4>2. CASE group_of[m] # g
        <5>1. group_of'[m] = group_of[m]
          BY <1>3, <4>2
        <5>2. GroupLayer(group_of[m])' = GroupLayer(group_of[m])
          BY <1>3, <2>1, <3>2, <4>2, <5>1 DEF GroupLayer, StoreTypes
        <5> QED BY <2>2, <5>2 DEF LayersResolve
      <4> QED BY <4>1, <4>2
    <3>4. \A h \in groups' : Resolves(policy, group_overrides'[h], Inherit)
      BY <1>3, <2>1, <2>2, <3>2 DEF LayersResolve, StoreTypes
    <3>5. \A h \in Groups \ groups' : group_overrides'[h] = Inherit
      BY <1>3, <2>2, <3>2 DEF LayersResolve
    <3> QED BY <1>3, <3>3, <3>4, <3>5 DEF LayersResolve
  <2> QED BY <1>1, <1>3, <2>1, <2>2, WriteStep
<1> QED BY <1>0, <1>2, <1>3 DEF delete_group

-----------------------------------------------------------------------------
(* Theorems                                                                *)

LEMMA InitIsInvariant ==
  ASSUME Init
  PROVE  IInv
<1>1. normalize_anomaly_policy(policy)
  BY StoreAssumption DEF Init
<1>2. Resolves(policy, Inherit, Inherit)
  BY <1>1, NothingResolves
<1>3. StoreTypes /\ RequestsOK /\ RequestsFit
  BY DEF Init, StoreTypes, RequestsOK, RequestsFit
<1>4. \A g \in Groups \cup {None} : GroupLayer(g) = Inherit
  BY DEF Init, GroupLayer
<1>5. LayersResolve
  BY <1>2, <1>4 DEF Init, LayersResolve
<1> QED BY <1>3, <1>5 DEF IInv

LEMMA NextKeepsInvariant ==
  ASSUME IInv, [Next]_vars
  PROVE  IInv'
<1>1. CASE UNCHANGED vars
  <2>1. UNCHANGED stored /\ UNCHANGED <<req, overlapped>>
    BY <1>1 DEF vars
  <2>2. StoreTypes' /\ RequestsOK' /\ (LayersResolve' <=> LayersResolve)
    BY <2>1 DEF IInv, stored, StoreTypes, RequestsOK, LayersResolve, GroupLayer
  <2>3. RequestsFit' <=> RequestsFit
    BY <2>1, KnowledgeStays DEF RequestsFit
  <2> QED BY <2>1, <2>2, <2>3 DEF IInv
<1>2. CASE Next
  <2>1. PICK q \in Requests :
          \/ \E p \in Policies : PutGlobal(q, p)
          \/ validate_global_policy_against_overrides(q)
          \/ save_anomaly_policy(q)
          \/ \E g \in Groups : \/ \E patch \in GroupPatches : PutGroup(q, g, patch)
                               \/ DeleteGroupPolicy(q, g)
                               \/ DeleteGroup(q, g)
          \/ PutGroupBody(q)
          \/ ReadCurrentGroup(q)
          \/ validate_group_policy_against_miner_overrides(q)
          \/ save_group_anomaly_overrides(q)
          \/ \E m \in Miners : \/ \E patch \in MinerPatches : PutMiner(q, m, patch)
                               \/ DeleteMinerPolicy(q, m)
                               \/ \E g \in Groups \cup {None} : Move(q, m, g)
          \/ PutMinerBody(q)
          \/ ReadPrevious(q)
          \/ ReadGroupAgain(q)
          \/ ValidateMinerLayer(q)
          \/ save_miner_anomaly_overrides(q)
          \/ validate_miner_group_policy_membership(q)
          \/ set_miner_group(q)
          \/ validate_group_policy_removal(q)
          \/ delete_group(q)
    BY <1>2 DEF Next
  <2>2. CASE \/ \E p \in Policies : PutGlobal(q, p)
             \/ validate_global_policy_against_overrides(q)
             \/ save_anomaly_policy(q)
    BY <2>2, PutGlobalStep, ValidateGlobalStep, SaveGlobalStep
  <2>3. CASE \E g \in Groups : \/ \E patch \in GroupPatches : PutGroup(q, g, patch)
                               \/ DeleteGroupPolicy(q, g)
                               \/ DeleteGroup(q, g)
    BY <2>3, PutGroupStep, DeleteGroupPolicyStep, DeleteGroupStep
  <2>4. CASE \/ PutGroupBody(q)
             \/ ReadCurrentGroup(q)
             \/ validate_group_policy_against_miner_overrides(q)
             \/ save_group_anomaly_overrides(q)
    BY <2>4, PutGroupBodyStep, ReadCurrentGroupStep, ValidateGroupStep, SaveGroupStep
  <2>5. CASE \E m \in Miners : \/ \E patch \in MinerPatches : PutMiner(q, m, patch)
                               \/ DeleteMinerPolicy(q, m)
                               \/ \E g \in Groups \cup {None} : Move(q, m, g)
    BY <2>5, PutMinerStep, DeleteMinerPolicyStep, MoveStep
  <2>6. CASE \/ PutMinerBody(q)
             \/ ReadPrevious(q)
             \/ ReadGroupAgain(q)
             \/ ValidateMinerLayer(q)
             \/ save_miner_anomaly_overrides(q)
    BY <2>6, PutMinerBodyStep, ReadPreviousStep, ReadGroupAgainStep,
       ValidateMinerStep, SaveMinerStep
  <2>7. CASE \/ validate_miner_group_policy_membership(q)
             \/ set_miner_group(q)
             \/ validate_group_policy_removal(q)
             \/ delete_group(q)
    BY <2>7, ValidateMembershipStep, SetMinerGroupStep, ValidateRemovalStep, RemoveGroupStep
  <2> QED BY <2>1, <2>2, <2>3, <2>4, <2>5, <2>6, <2>7
<1> QED BY <1>1, <1>2

THEOREM InductiveInvariant == Spec => []IInv
<1>1. Init => IInv
  BY InitIsInvariant
<1>2. IInv /\ [Next]_vars => IInv'
  BY NextKeepsInvariant
<1> QED BY <1>1, <1>2, PTL DEF Spec

\* Until a write overtakes another request that later writes, every layer
\* that is stored resolves, and none is left of a group that is gone.
THEOREM LayersStayValid == Spec => []LayersResolveUnlessOverlapped
<1>1. IInv => LayersResolveUnlessOverlapped
  BY DEF IInv, LayersResolveUnlessOverlapped
<1> QED BY <1>1, InductiveInvariant, PTL

\* What a PUT of a miner's layer writes is the stored layer with the fields
\* of its body changed, although the layer was read three statements earlier.
THEOREM PatchesArePartial == Spec => PatchesKeepOtherFields
<1> DEFINE Keeps ==
      \A q \in Requests :
       At(q, {"miner"}, "write") /\ save_miner_anomaly_overrides(q)
         /\ ~req[q].dirty /\ ~overlapped
       => LET m == req[q].target
              untouched == MINER_ANOMALY_OVERRIDE_FIELDS \ DOMAIN req[q].patch
          IN \A f \in untouched :
               /\ f \in DOMAIN miner_overrides[m] <=> f \in DOMAIN miner_overrides'[m]
               /\ f \in DOMAIN miner_overrides[m]
                    => miner_overrides'[m][f] = miner_overrides[m][f]
<1>1. IInv => Keeps
  <2> SUFFICES ASSUME IInv, NEW q \in Requests,
                      At(q, {"miner"}, "write"), save_miner_anomaly_overrides(q),
                      ~req[q].dirty, ~overlapped,
                      NEW m, m = req[q].target,
                      NEW f, f \notin DOMAIN req[q].patch
               PROVE  /\ f \in DOMAIN miner_overrides[m] <=> f \in DOMAIN miner_overrides'[m]
                      /\ f \in DOMAIN miner_overrides[m]
                           => miner_overrides'[m][f] = miner_overrides[m][f]
    OBVIOUS
  <2>1. req[q] # None /\ req[q].kind = "miner" /\ req[q].pc = "write"
    BY DEF At
  <2>2. m \in Miners /\ DOMAIN miner_overrides = Miners
    BY <2>1, Held DEF RequestOK, StoreTypes
  <2>3. req[q].new = Patched(miner_overrides[m], req[q].patch, None)
    BY <2>1, Held DEF Fits, MinerFits
  <2>4. miner_overrides'[m] = Patched(miner_overrides[m], req[q].patch, None)
    BY <2>2, <2>3 DEF save_miner_anomaly_overrides
  <2> QED BY <2>4 DEF Patched
<1>2. Spec => [][Keeps]_vars
  <2>1. IInv /\ [Next]_vars => [Keeps]_vars
    BY <1>1
  <2> QED BY <2>1, InductiveInvariant, PTL DEF Spec
<1> QED BY <1>2 DEF PatchesKeepOtherFields
=============================================================================
