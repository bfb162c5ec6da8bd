--------------------------- MODULE InventoryProofs ---------------------------
(***************************************************************************)
(* Inventories of any length, in any paging: what they list is the          *)
(* project's, and when they end without an error it is all of it.           *)
(***************************************************************************)
EXTENDS Inventory, TLAPS

\* The API is honest about every item.
HonestAPI == \A i \in Items : Honest(kind, report[i])

\* Up to the marker nothing of the project has been missed.
NothingMissed ==
    outcome = "none" =>
        \A i \in present : i <= marker /\ report[i].owner = "mine" => i \in listed

Inv == TypeOK /\ HonestAPI /\ NothingMissed /\ CompleteListsAll /\ OnlyOwnProject

\* An item that is not rejected is taken for the project's exactly if it is.
LEMMA BelongsIsOwnership ==
  ASSUME TypeOK, HonestAPI, NEW i \in Items, ~Rejected(i)
  PROVE  Belongs(i) <=> report[i].owner = "mine"
BY DEF TypeOK, HonestAPI, Honest, Rejected, Belongs, Contradictory, NeutronBelongs,
       CinderBelongs, Report, Projects, Kinds, Neutron, Cinder

\* What every answer shows: the present items after the marker, up to where
\* the server stopped; and nothing remains after an answer without a link.
LEMMA AnswerShows ==
  ASSUME TypeOK, NEW a \in Answers(marker), Acceptable(a)
  PROVE  /\ a.last \in 0..Last /\ a.last >= marker
         /\ a.items = {i \in present : marker < i /\ i <= a.last}
         /\ ~IsEmpty(a) /\ ~a.next => \A i \in present : i <= a.last
         /\ IsEmpty(a) => \A i \in present : i <= marker
<1>1. a \notin Malformed(marker)
  <2> SUFFICES ASSUME a \in Malformed(marker) PROVE FALSE
    OBVIOUS
  <2>1. a.status \in {200, 300} /\ a.collection = FALSE
    BY DEF Malformed
  <2> QED BY <2>1 DEF Acceptable
<1>2. CASE a = Nothing(marker) /\ Rest(marker) = {}
  <2>1. a.status = 204 /\ a.items = {} /\ a.last = marker /\ IsEmpty(a)
    BY <1>2 DEF Nothing, IsEmpty
  <2>2. \A i \in present : i <= marker
    BY <1>2, InventoryAssumption DEF Rest, TypeOK, Items
  <2>3. {i \in present : marker < i /\ i <= marker} = {}
    <3>1. \A i \in present : ~(marker < i /\ i <= marker)
      BY InventoryAssumption DEF TypeOK, Items
    <3> QED BY <3>1
  <2>4. marker \in 0..Last /\ marker >= marker
    BY InventoryAssumption DEF TypeOK
  <2> QED BY <2>1, <2>2, <2>3, <2>4
<1>3. CASE a \in Pages(marker)
  <2>1. PICK last \in Items \cup {Last}, next \in BOOLEAN : a = Page(marker, last, next)
    BY <1>3 DEF Pages
  <2>2. a.last >= marker /\ (Rest(a.last) # {} => a.next)
    BY <1>3 DEF Pages
  <2>3. /\ a.status = 200 /\ a.last = last /\ a.next = next
        /\ a.items = Rest(marker) \ Rest(last)
    BY <2>1 DEF Page
  <2>4. last \in 0..Last
    BY InventoryAssumption DEF Items
  <2>5. a.items = {i \in present : marker < i /\ i <= last}
    <3>1. \A i \in present : (i > marker /\ ~(i > last)) <=> (marker < i /\ i <= last)
      BY <2>4, InventoryAssumption DEF TypeOK, Items
    <3>2. Rest(marker) \ Rest(last) = {i \in present : i > marker /\ ~(i > last)}
      BY DEF Rest
    <3> QED BY <2>3, <3>1, <3>2
  <2>6. ~a.next => \A i \in present : i <= a.last
    BY <2>2, <2>3, <2>4, InventoryAssumption DEF Rest, TypeOK, Items
  <2>7. IsEmpty(a) => a.items = {} /\ ~a.next
    BY <2>3 DEF IsEmpty
  <2>8. IsEmpty(a) => \A i \in present : i <= marker
    BY <2>3, <2>4, <2>5, <2>6, <2>7, InventoryAssumption DEF TypeOK, Items
  <2> QED BY <2>2, <2>3, <2>4, <2>5, <2>6, <2>8
<1> QED BY <1>1, <1>2, <1>3 DEF Answers

\* A page keeps the inventory complete up to its marker, or completes it.
LEMMA FetchPageInv == Inv /\ FetchPage => Inv'
<1> SUFFICES ASSUME Inv, FetchPage PROVE Inv'
  OBVIOUS
<1> USE DEF Inv
<1>1. PICK a \in Answers(marker) :
        IF ~Acceptable(a) \/ (~IsEmpty(a) /\ \E i \in a.items : Rejected(i))
        THEN listed' = {} /\ Finish("error")
        ELSE /\ listed' = listed \cup {i \in a.items : Belongs(i)}
             /\ IF ~IsEmpty(a) /\ a.next THEN marker' = a.last /\ UNCHANGED outcome
                                         ELSE Finish("complete")
  BY DEF FetchPage
<1>2. UNCHANGED <<kind, report, present>> /\ outcome = "none"
  BY DEF FetchPage
<1>3. HonestAPI'
  BY <1>2 DEF HonestAPI, Honest
<1>4. CASE ~Acceptable(a) \/ (~IsEmpty(a) /\ \E i \in a.items : Rejected(i))
  BY <1>1, <1>2, <1>3, <1>4
  DEF Finish, TypeOK, NothingMissed, CompleteListsAll, OnlyOwnProject
<1>5. CASE Acceptable(a) /\ (IsEmpty(a) \/ \A i \in a.items : ~Rejected(i))
  <2>1. /\ a.last \in 0..Last /\ a.last >= marker
        /\ a.items = {i \in present : marker < i /\ i <= a.last}
        /\ ~IsEmpty(a) /\ ~a.next => \A i \in present : i <= a.last
        /\ IsEmpty(a) => \A i \in present : i <= marker
    BY <1>5, AnswerShows
  <2>2. a.items \subseteq Items
    BY <2>1 DEF TypeOK
  <2>3. IsEmpty(a) => a.items = {}
    BY <2>1, <2>2, InventoryAssumption DEF TypeOK, Items
  <2>4. \A i \in a.items : Belongs(i) <=> report[i].owner = "mine"
    BY <1>5, <2>2, <2>3, BelongsIsOwnership
  <2>5. listed' = listed \cup {i \in a.items : report[i].owner = "mine"}
    BY <1>1, <1>5, <2>4
  <2>6. OnlyOwnProject' /\ listed' \subseteq Items
    BY <1>2, <2>2, <2>5 DEF OnlyOwnProject, TypeOK
  <2>7. \A i \in present : i <= a.last /\ report[i].owner = "mine" => i \in listed'
    BY <1>2, <2>1, <2>5, InventoryAssumption DEF NothingMissed, TypeOK, Items
  <2>8. CASE ~IsEmpty(a) /\ a.next
    BY <1>1, <1>2, <1>3, <1>5, <2>1, <2>6, <2>7, <2>8
    DEF TypeOK, NothingMissed, CompleteListsAll
  <2>9. CASE IsEmpty(a) \/ ~a.next
    <3>1. \A i \in present : report[i].owner = "mine" => i \in listed'
      BY <1>2, <2>1, <2>5, <2>7, <2>9 DEF NothingMissed
    <3> QED
      BY <1>1, <1>2, <1>3, <1>5, <2>6, <2>9, <3>1
      DEF TypeOK, NothingMissed, CompleteListsAll, Finish
  <2> QED BY <2>8, <2>9
<1> QED BY <1>4, <1>5

\* The invariant is inductive.
LEMMA InvInductive == Inv /\ [Next]_vars => Inv'
<1> SUFFICES ASSUME Inv, [Next]_vars PROVE Inv'
  OBVIOUS
<1>1. CASE FetchPage
  BY <1>1, FetchPageInv
<1>2. CASE Fail
  BY <1>2 DEF Fail, Finish, Inv, TypeOK, HonestAPI, Honest, NothingMissed,
              CompleteListsAll, OnlyOwnProject
<1>3. CASE \E i \in Items : Remove(i)
  BY <1>3 DEF Remove, Inv, TypeOK, HonestAPI, Honest, NothingMissed,
              CompleteListsAll, OnlyOwnProject
<1>4. CASE UNCHANGED vars
  BY <1>4 DEF vars, Inv, TypeOK, HonestAPI, Honest, NothingMissed,
              CompleteListsAll, OnlyOwnProject
<1> QED BY <1>1, <1>2, <1>3, <1>4 DEF Next

\* It holds at the start, when nothing has been read.
LEMMA InitInv == Init => Inv
<1> SUFFICES ASSUME Init PROVE Inv
  OBVIOUS
<1>1. TypeOK
  BY InventoryAssumption DEF Init, TypeOK
<1> QED
  BY <1>1, InventoryAssumption DEF Init, Inv, HonestAPI, NothingMissed, CompleteListsAll,
              OnlyOwnProject, Items

\* Every inventory keeps the invariant.
THEOREM InventoryInv == Spec => []Inv
<1>1. Init => Inv BY InitInv
<1>2. Inv /\ [Next]_vars => Inv' BY InvInductive
<1> QED BY <1>1, <1>2, PTL DEF Spec

\* Every variable keeps its type, and a failed inventory hands out nothing,
\* however far it got before it failed.
THEOREM InventoryTypes == Spec => []TypeOK
<1>1. Inv => TypeOK BY DEF Inv
<1> QED BY <1>1, InventoryInv, PTL

\* A complete inventory has every item of the project that still exists, for
\* any number of items, any paging and any deletions meanwhile (EachPage over
\* validatedCollectionPage).
THEOREM InventoryIsComplete == Spec => []CompleteListsAll
<1>1. Inv => CompleteListsAll BY DEF Inv
<1> QED BY <1>1, InventoryInv, PTL

\* No item of another project is ever listed (resourceBelongsToProject and the
\* checks of the Octavia and Cinder services).
THEOREM InventoryIsOwn == Spec => []OnlyOwnProject
<1>1. Inv => OnlyOwnProject BY DEF Inv
<1> QED BY <1>1, InventoryInv, PTL
==============================================================================
