------------------------------ MODULE Inventory ------------------------------
(***************************************************************************)
(* One inventory: a service's List method, which walks through the pages of *)
(* an OpenStack collection while other clients go on deleting.              *)
(*                                                                          *)
(* Items are numbered in the order the API sorts them in.  A page shows the *)
(* items after a marker, up to wherever the server stops: a server that     *)
(* filters after it has cut the page sends sparse and even empty pages with *)
(* a link to the next one.  Nothing is created: see CleanupRunner.          *)
(***************************************************************************)
EXTENDS Naturals

CONSTANTS
    Last,       \* the items are 1..Last
    Reports     \* what the API may say of an item, a subset of Report

Items == 1..Last
Kinds == {"loadbalancers", "floatingips", "security_groups", "snapshots", "volumes"}
Neutron == {"floatingips", "security_groups"}
Cinder == {"snapshots", "volumes"}
Projects == {"mine", "other"}

\* What a List method insists on in an item: that it can be decoded, and what
\* Gophercloud would silently replace by an empty value.
Facts == {"item", "tags", "vip_port_id", "port_id"}
Required(k) ==
    {"item"} \cup (IF k = "loadbalancers" THEN {"tags", "vip_port_id"}
                   ELSE IF k = "floatingips" THEN {"port_id"} ELSE {})

\* owner is the true project of an item, the rest is what the API reports: its
\* project_id and tenant_id ("" when omitted), and the facts it lacks or has in
\* another type.  For Cinder, project is the one field of the two that is read.
Report == [owner : Projects, project : Projects \cup {""},
           tenant : Projects \cup {""}, lacks : SUBSET Facts]

ASSUME InventoryAssumption == Last \in Nat /\ Reports \subseteq Report

VARIABLES
    kind,      \* which collection is listed
    report,    \* what the API says of each item
    present,   \* items that exist
    marker,    \* the pages up to this item have been read
    listed,    \* items gathered so far
    outcome    \* "none" while the inventory runs

vars == <<kind, report, present, marker, listed, outcome>>

------------------------------------------------------------------------------
(* Which items are the project's                                             *)

\* resourceBelongsToProject: Neutron's two fields may not both be missing, nor
\* contradict one another, and then either of them will do.
Contradictory(r) ==
    \/ r.project = "" /\ r.tenant = ""
    \/ r.project # "" /\ r.tenant # "" /\ r.project # r.tenant
NeutronBelongs(r) == r.project = "mine" \/ (r.project = "" /\ r.tenant = "mine")

\* Cinder shows its own scope and may omit the project; Octavia may not.
CinderBelongs(r) == r.project \in {"mine", ""}

\* An item that makes the whole inventory fail.
BugRejected(i) == Required(kind) \cap report[i].lacks # {}
Rejected(i) ==
    \/ Required(kind) \cap report[i].lacks # {}
    \/ kind = "loadbalancers" /\ report[i].project = ""
    \/ kind \in Neutron /\ Contradictory(report[i])

Belongs(i) ==
    \/ kind = "loadbalancers" /\ report[i].project = "mine"
    \/ kind \in Neutron /\ NeutronBelongs(report[i])
    \/ kind \in Cinder /\ CinderBelongs(report[i])

\* The API may omit the project but does not lie about it, and what Cinder
\* shows without one is in its scope.  Only Neutron's tenant_id is ever read.
Honest(k, r) ==
    /\ r.project \in {r.owner, ""} \/ (k \in Neutron /\ r.tenant = r.owner)
    /\ k \in Neutron => r.tenant \in {r.owner, ""} \/ r.project = r.owner
    /\ k \in Cinder /\ r.owner = "other" => r.project # ""

------------------------------------------------------------------------------
(* Pages                                                                     *)

\* What the server may answer to a request for the items after the marker.  A
\* page without a proper collection shows nothing, and 204 is the answer of a
\* server that has nothing left.
Rest(m) == {i \in present : i > m}

Page(m, last, next) ==
    [status |-> 200, collection |-> TRUE, items |-> Rest(m) \ Rest(last),
     next |-> next, last |-> last]

Pages(m) ==
    {p \in {Page(m, last, next) : last \in Items \cup {Last}, next \in BOOLEAN} :
        p.last >= m /\ (Rest(p.last) # {} => p.next)}

Malformed(m) ==
    [status : {200, 300}, collection : {FALSE}, items : {{}}, next : BOOLEAN, last : {m}]

Nothing(m) ==
    [status |-> 204, collection |-> FALSE, items |-> {}, next |-> FALSE, last |-> m]

Answers(m) ==
    Pages(m) \cup Malformed(m) \cup {a \in {Nothing(m)} : Rest(m) = {}}

Acceptable(a) == a.status = 204 \/ (a.status = 200 /\ a.collection)

\* validatedCollectionPage.IsEmpty: an empty page that has a next link does
\* not end the inventory.
BugIsEmpty(a) == a.items = {}
IsEmpty(a) == a.status = 204 \/ (a.items = {} /\ ~a.next)

Finish(result) == outcome' = result /\ UNCHANGED marker

\* Gophercloud's EachPage with the handler of the services: fetch a page, end
\* at an empty one, keep what belongs to the project, follow the link.
FetchPage ==
    /\ outcome = "none"
    /\ \E a \in Answers(marker) :
          IF ~Acceptable(a) \/ (~IsEmpty(a) /\ \E i \in a.items : Rejected(i))
          THEN listed' = {} /\ Finish("error")
          ELSE /\ listed' = listed \cup {i \in a.items : Belongs(i)}
               /\ IF ~IsEmpty(a) /\ a.next THEN marker' = a.last /\ UNCHANGED outcome
                                           ELSE Finish("complete")
    /\ UNCHANGED <<kind, report, present>>

\* The request fails: no answer, an error status, a broken next link, or a
\* marker that has been deleted.
BugFail ==
    /\ outcome = "none"
    /\ UNCHANGED listed /\ Finish("error")
    /\ UNCHANGED <<kind, report, present>>
Fail ==
    /\ outcome = "none"
    /\ listed' = {} /\ Finish("error")
    /\ UNCHANGED <<kind, report, present>>

\* Another client deletes an item, or an earlier deletion is carried out.
Remove(i) ==
    /\ i \in present
    /\ present' = present \ {i}
    /\ UNCHANGED <<kind, report, marker, listed, outcome>>

------------------------------------------------------------------------------
Init ==
    /\ kind \in Kinds
    /\ report \in [Items -> Reports]
    /\ \A i \in Items : Honest(kind, report[i])
    /\ present = Items
    /\ marker = 0 /\ listed = {} /\ outcome = "none"

Next == FetchPage \/ Fail \/ \E i \in Items : Remove(i)

Spec == Init /\ [][Next]_vars

------------------------------------------------------------------------------
(* Properties                                                                *)

\* Every variable has its type, and a failed inventory hands out nothing.
TypeOK ==
    /\ kind \in Kinds
    /\ report \in [Items -> Report]
    /\ present \subseteq Items
    /\ marker \in 0..Last
    /\ listed \subseteq Items
    /\ outcome \in {"none", "complete", "error"}
    /\ outcome = "error" => listed = {}

\* An inventory that ends without an error is complete: it has every item of
\* the project that still exists, whatever pages it came in and whatever was
\* deleted in between (README: "an incomplete inventory blocks cleanup").
CompleteListsAll ==
    outcome = "complete" =>
        \A i \in present : report[i].owner = "mine" => i \in listed

\* Nothing of another project is ever listed, so nothing of it can be deleted.
OnlyOwnProject == \A i \in listed : report[i].owner = "mine"
==============================================================================
