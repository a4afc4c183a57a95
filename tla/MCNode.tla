------------------------------- MODULE MCNode -------------------------------
(* An instance of the parts of a node that share no variable, for TLC: it     *)
(* explores the steps of each while the others are at rest.  Every behaviour  *)
(* of all together is one of each.                                            *)
EXTENDS FuelLedger, Vouchers, Market, Vitality, Ingress, Keys, OciRegistry,
        ArtifactStores, ToolServer, ContextRouter, Tunnel, Snapshots, TLC

CONSTANTS a1, a2, b1, b2, n1, n2, x1

VARIABLES focus     \* the part that takes steps

-----------------------------------------------------------------------------
(* Values of constants *)

\* One nonce used twice for one node, and once more for the other.
MCVoucher ==
    {[provider |-> n1, expiry |-> 1, nonce |-> 1, fuel |-> 5, signed |-> TRUE],
     [provider |-> n1, expiry |-> 0, nonce |-> 1, fuel |-> 3, signed |-> TRUE],
     [provider |-> n2, expiry |-> 1, nonce |-> 1, fuel |-> 5, signed |-> TRUE],
     [provider |-> n2, expiry |-> 1, nonce |-> 2, fuel |-> 5, signed |-> FALSE]}
MCDeposit == {[to |-> a, amount |-> 1] : a \in {a1, a2}}

\* A route for every path of an agent and one for a part of them.
MCPath == {<<>>, <<"x">>}
\* The aliases share a shard of the route table.
MCShardOf == [a \in Agent |-> 1]

\* Two keys of one prefix.
MCPrefixOf == [k \in Key |-> "tet_"]

\* Two artifacts with one filesystem layer.
MCBlobsOf == [x \in Artifact |-> IF x = x1 THEN <<"wasm1", "vfs", "sig1", "config1">>
                                           ELSE <<"wasm2", "vfs", "sig2", "config2">>]

\* A block that fits into the cache alone, one that does not, and one that is larger than
\* a total that is too large without it.
MCSizeOf == [f \in Block |-> IF f = b1 THEN 1 ELSE IF f = b2 THEN 2 ELSE 3]

\* With chunks of 4 bytes: commands that fit when sealed, one that the server finds too
\* large and one that the client does.  Two acknowledge their failures.
MCCommand ==
    {[size |-> 1, answer |-> "empty", mayFail |-> FALSE, acksFailure |-> FALSE],
     [size |-> 5, answer |-> "sealed", mayFail |-> FALSE, acksFailure |-> FALSE],
     [size |-> 5, answer |-> "plain", mayFail |-> FALSE, acksFailure |-> FALSE],
     [size |-> 5, answer |-> "empty", mayFail |-> TRUE, acksFailure |-> FALSE],
     [size |-> 8, answer |-> "empty", mayFail |-> TRUE, acksFailure |-> TRUE],
     [size |-> 11, answer |-> "empty", mayFail |-> TRUE, acksFailure |-> FALSE],
     [size |-> 5, answer |-> "empty", mayFail |-> TRUE, acksFailure |-> TRUE]}

-----------------------------------------------------------------------------
(* One part at a time *)

Part == {"ledger", "vouchers", "market", "vitality", "ingress", "keys", "oci", "stores",
         "tools", "context", "tunnel", "snapshots"}

\* A part at rest starts in one of its initial states, whichever.
Rest(part, state, one) == focus = part \/ state = one

MCInit ==
    /\ focus \in Part
    /\ Init /\ VoucherInit /\ VitalityInit /\ OciInit /\ StoresInit /\ ToolsInit
    /\ TunnelInit /\ SnapshotsInit
    /\ MarketInit
    /\ Rest("market", <<cost, lives>>,
            <<[n \in Seller |-> 50], [a \in Settler |-> CHOOSE n \in Seller : TRUE]>>)
    /\ IngressInit
    /\ Rest("ingress", <<wiring, registry>>, <<"own", "noop">>)
    /\ KeysInit
    /\ Rest("keys", keys, [k \in Key |-> "absent"])
    /\ IF focus = "context" THEN ContextInit
       ELSE /\ window = 0 /\ strategy = "Fifo" /\ session = <<>> /\ given = <<>>
            /\ report = "called"

Only(part) ==
    /\ focus = part /\ UNCHANGED focus
    /\ IF part = "ledger" THEN TRUE ELSE UNCHANGED vars
    /\ IF part = "vouchers" THEN TRUE ELSE UNCHANGED voucherVars
    /\ IF part = "market" THEN TRUE ELSE UNCHANGED marketVars
    /\ IF part = "vitality" THEN TRUE ELSE UNCHANGED vitalityVars
    /\ IF part = "ingress" THEN TRUE ELSE UNCHANGED ingressVars
    /\ IF part = "keys" THEN TRUE ELSE UNCHANGED keysVars
    /\ IF part = "oci" THEN TRUE ELSE UNCHANGED ociVars
    /\ IF part = "stores" THEN TRUE ELSE UNCHANGED storeVars
    /\ IF part = "tools" THEN TRUE ELSE UNCHANGED toolVars
    /\ IF part = "context" THEN TRUE ELSE UNCHANGED contextVars
    /\ IF part = "tunnel" THEN TRUE ELSE UNCHANGED link
    /\ IF part = "snapshots" THEN TRUE ELSE UNCHANGED snapshotVars

MCNext ==
    \/ focus = "ledger" /\ Next /\ Only("ledger")
    \/ focus = "vouchers" /\ VoucherNext /\ Only("vouchers")
    \/ focus = "market" /\ MarketNext /\ Only("market")
    \/ focus = "vitality" /\ VitalityNext /\ Only("vitality")
    \/ focus = "ingress" /\ IngressNext /\ Only("ingress")
    \/ focus = "keys" /\ KeysNext /\ Only("keys")
    \/ focus = "oci" /\ OciNext /\ Only("oci")
    \/ focus = "stores" /\ StoresNext /\ Only("stores")
    \/ focus = "tools" /\ ToolsNext /\ Only("tools")
    \/ focus = "context" /\ ContextNext /\ Only("context")
    \/ focus = "tunnel" /\ TunnelNext /\ Only("tunnel")
    \/ focus = "snapshots" /\ SnapshotsNext /\ Only("snapshots")

MCSpec == MCInit /\ [][MCNext]_<<vars, voucherVars, marketVars, vitalityVars, ingressVars,
                                 keysVars, ociVars, storeVars, toolVars, contextVars, link, snapshotVars,
                                 focus>>

\* Type correctness of the part that takes steps; the others are as they started.
NodeTypeOK ==
    CASE focus = "ledger" -> TypeOK          [] focus = "vouchers" -> VoucherTypeOK
      [] focus = "market" -> MarketTypeOK    [] focus = "vitality" -> VitalityTypeOK
      [] focus = "ingress" -> IngressTypeOK  [] focus = "keys" -> KeysTypeOK
      [] focus = "oci" -> OciTypeOK          [] focus = "stores" -> StoresTypeOK
      [] focus = "tools" -> ToolsTypeOK      [] focus = "context" -> ContextTypeOK
      [] focus = "tunnel" -> TunnelTypeOK    [] focus = "snapshots" -> SnapshotsTypeOK
=============================================================================
