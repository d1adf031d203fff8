----------------------------- MODULE Permissions -----------------------------
(***************************************************************************)
(* An account's permissions: the operation bitmap, weights and thresholds, *)
(* and their way to the node and back (contract.rs and account.rs of       *)
(* rpc-types, the permission part of the codec, the update's builder).     *)
(* A contract kind is its number (ContractKinds has the names); a bitmap   *)
(* is the set of its bits, each <<byte, bit>>.                             *)
(***************************************************************************)
EXTENDS Keys, FiniteSetsExt

-------------------------------------------------------------------------------
(* OperationSet.                                                           *)

Bit(id) == <<id \div 8, id % 8>>

\* Mutated form: the bits of a byte from the other end.
OpContainsReversed(set, id) == id >= 0 /\ <<id \div 8, 7 - (id % 8)>> \in set
OpContains(set, id) == id >= 0 /\ Bit(id) \in set
OpInsert(set, id) == IF id \in 0 .. 255 THEN Ok(set \cup {Bit(id)}) ELSE Err("OutOfRange")
OpRemove(set, id) == IF id >= 0 THEN set \ {Bit(id)} ELSE set
TryFromIter(ids) ==
    IF \A i \in DOMAIN ids : OpInsert({}, ids[i]).ok THEN Ok({Bit(ids[i]) : i \in DOMAIN ids})
    ELSE Err("OutOfRange")

BitmapAsBytes(set) == [len |-> 32, bits |-> set]
BitmapFromBytes(bytes) ==
    IF bytes.len > 32 /\ \E b \in bytes.bits : b[1] >= 32 THEN Err("NonZeroExcessBits")
    ELSE Ok({b \in bytes.bits : b[1] < 32})

-------------------------------------------------------------------------------
(* Permission and AccountPermissions.  An option is <<>> or <<it>>.        *)

Permission(id, threshold, keys, operations) ==
    [id |-> id, threshold |-> threshold, keys |-> keys, operations |-> operations]
PermissionKey(address, weight) == [address |-> address, weight |-> weight]

WeightOf(p, a) ==
    LET own == {i \in DOMAIN p.keys : p.keys[i].address = a}
    IN IF own = {} THEN <<>> ELSE <<p.keys[Min(own)].weight>>
\* All weights of a function together.
Total(weights) == MapThenSumSet(LAMBDA a : weights[a], DOMAIN weights)
\* Mutated form: a key that signed twice counts twice.
WeightOfAllRepeated(p, addresses) ==
    Total([i \in {i \in DOMAIN addresses : WeightOf(p, addresses[i]) # <<>>} |->
              WeightOf(p, addresses[i])[1]])
WeightOfAll(p, addresses) ==
    Total([a \in {a \in {addresses[i] : i \in DOMAIN addresses} : WeightOf(p, a) # <<>>} |->
              WeightOf(p, a)[1]])
IsSatisfiedBy(p, addresses) == WeightOfAll(p, addresses) >= p.threshold

Role(role, p) == [role |-> role, p |-> p]
Locate(ps, id) ==
    IF id = 0 THEN [i \in DOMAIN ps.owner |-> Role("owner", ps.owner[i])]
    ELSE IF id = 1 THEN [i \in DOMAIN ps.witness |-> Role("witness", ps.witness[i])]
    ELSE LET found == {i \in DOMAIN ps.actives : ps.actives[i].id = id}
         IN IF found = {} THEN <<>> ELSE <<Role("active", ps.actives[Min(found)])>>
ById(ps, id) == [i \in DOMAIN Locate(ps, id) |-> Locate(ps, id)[i].p]
Allows(ps, id, kind) ==
    LET found == Locate(ps, id)
    IN /\ found # <<>>
       /\ \/ found[1].role = "owner"
          \/ found[1].role = "active" /\ OpContains(found[1].p.operations, kind)

\* check_operations, before an update is asked for.
CheckOperations(ps) ==
    /\ \A i \in DOMAIN ps.owner : ps.owner[i].operations = {}
    /\ \A i \in DOMAIN ps.witness : ps.witness[i].operations = {}
    /\ \A i \in DOMAIN ps.actives : ps.actives[i].operations # {}

-------------------------------------------------------------------------------
(* To the node and back.                                                   *)

WireKey(k) == [address |-> k.address, valid |-> TRUE, weight |-> k.weight]
PermissionToProto(p, role) ==
    [id |-> p.id, threshold |-> p.threshold, keys |-> [i \in DOMAIN p.keys |-> WireKey(p.keys[i])],
     operations |-> IF role = "active" THEN BitmapAsBytes(p.operations) ELSE [len |-> 0, bits |-> {}]]
UpdateToProto(ps) ==
    [owner |-> [i \in DOMAIN ps.owner |-> PermissionToProto(ps.owner[i], "owner")],
     witness |-> [i \in DOMAIN ps.witness |-> PermissionToProto(ps.witness[i], "witness")],
     actives |-> [i \in DOMAIN ps.actives |-> PermissionToProto(ps.actives[i], "active")]]

\* filter_map: those of a list at the given places.
Sifted(list, places) ==
    LET at == Ascending(places) IN [i \in DOMAIN at |-> list[at[i]]]

\* A key whose address is broken is left out; a broken bitmap is an error.
PermissionFromProto(w) ==
    LET operations == BitmapFromBytes(w.operations)
        keys == Sifted(w.keys, {i \in DOMAIN w.keys : w.keys[i].valid})
    IN IF operations.ok
       THEN Ok(Permission(w.id, w.threshold,
                          [i \in DOMAIN keys |-> PermissionKey(keys[i].address, keys[i].weight)],
                          operations.v))
       ELSE operations
\* account_from_proto: a permission that is an error is left out.
Kept(ps) ==
    LET good == Sifted(ps, {i \in DOMAIN ps : PermissionFromProto(ps[i]).ok})
    IN [i \in DOMAIN good |-> PermissionFromProto(good[i]).v]
PermissionsFromProto(w) ==
    [owner |-> Kept(w.owner), witness |-> Kept(w.witness), actives |-> Kept(w.actives)]

\* sign_weight_from_proto: without a permission, the required weight is 0; of
\* the result only the message is kept, not the code.
SignWeight(w) ==
    [approved |-> w.approved, current |-> w.current,
     required |-> IF w.permission = <<>> THEN 0 ELSE w.permission[1].threshold,
     result |-> w.result.message]

-------------------------------------------------------------------------------
(* The node (external): what it weighs, and what it executes.              *)

NodeLocate(w, id) ==
    IF id = 0 THEN w.owner ELSE IF id = 1 THEN w.witness
    ELSE LET found == {i \in DOMAIN w.actives : w.actives[i].id = id}
         IN IF found = {} THEN <<>> ELSE <<w.actives[Min(found)]>>
NodeApproved(p, addresses) ==
    {a \in {addresses[i] : i \in DOMAIN addresses} : \E j \in DOMAIN p.keys : p.keys[j].address = a}
\* The weight of those who signed, each once.
NodeWeighs(p, addresses) ==
    Total([a \in NodeApproved(p, addresses) |->
              p.keys[CHOOSE j \in DOMAIN p.keys : p.keys[j].address = a].weight])
\* A signature of a key that is not in the permission, or a second one of the
\* same key, is an error and not just no weight.
NodeTakes(p, addresses) ==
    /\ \A i \in DOMAIN addresses : \E j \in DOMAIN p.keys : p.keys[j].address = addresses[i]
    /\ \A i, j \in DOMAIN addresses : addresses[i] = addresses[j] => i = j
NodeSignWeight(w, id, addresses) ==
    LET p == NodeLocate(w, id)
        taken == p # <<>> /\ NodeTakes(p[1], addresses)
        weight == IF taken THEN NodeWeighs(p[1], addresses) ELSE 0
    IN [permission |-> p,
        approved |-> IF taken THEN NodeApproved(p[1], addresses) ELSE {},
        current |-> weight,
        result |-> IF ~taken THEN [code |-> "PERMISSION_ERROR", message |-> "refused"]
                   ELSE [code |-> IF weight >= p[1].threshold THEN "ENOUGH_PERMISSION"
                                  ELSE "NOT_ENOUGH_PERMISSION", message |-> ""]]
NodeAccepts(w, id, kind, addresses) ==
    LET p == NodeLocate(w, id)
    IN /\ p # <<>> /\ id # 1
       /\ id # 0 => <<kind \div 8, kind % 8>> \in p[1].operations.bits
       /\ NodeTakes(p[1], addresses)
       /\ NodeWeighs(p[1], addresses) >= p[1].threshold
=============================================================================
