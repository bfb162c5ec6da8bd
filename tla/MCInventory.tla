----------------------------- MODULE MCInventory -----------------------------
(* An instance of Inventory for TLC.                                         *)
EXTENDS Inventory

Says(owner, project, tenant, lacks) ==
    [owner |-> owner, project |-> project, tenant |-> tenant, lacks |-> lacks]

\* Both projects, reported in full, in either field alone, not at all, in
\* contradiction; and items without a fact that some collections require.
MCReports == {Says("mine", "mine", "mine", {}), Says("mine", "mine", "", {}),
              Says("mine", "", "mine", {}), Says("mine", "", "", {}),
              Says("other", "other", "", {}), Says("other", "", "other", {}),
              Says("other", "mine", "other", {}), Says("mine", "mine", "mine", {"item"}),
              Says("mine", "mine", "mine", {"tags"}), Says("mine", "mine", "mine", {"port_id"})}
==============================================================================
