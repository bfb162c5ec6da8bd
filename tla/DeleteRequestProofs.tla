-------------------------- MODULE DeleteRequestProofs --------------------------
(***************************************************************************)
(* One DELETE against a service that may answer any set of status codes in  *)
(* any order, or not at all.                                                *)
(***************************************************************************)
EXTENDS DeleteRequest, TLAPS

------------------------------------------------------------------------------
(* The invariant                                                             *)

\* Where the exchange stands: it ends after a verdict, and only a first 401
\* interrupts it.
Protocol ==
    /\ stage # "done" => verdict = "none"
    /\ stage = "send" => attempt \in {0, 1}
    /\ stage = "reauthenticate" => attempt = 1 /\ code = 401
    /\ stage \in {"send", "reauthenticate"} => wrapper # "unableToReauthenticate"

\* What an answer of the service says of the target.  It stays true, because
\* a target never comes back.
Achieved == IF service = "credential" THEN target = "gone" ELSE target # "there"

AnswerIsTrue ==
    stage \in {"classify", "done"} =>
        /\ code = 404 => target = "gone"
        /\ code \in Success => target # "there" \/ (service = "credential" /\ code # 204)
        /\ code = 204 => Achieved

\* What the verdict is based on: the last answer of the service itself.
VerdictIsTheServices ==
    /\ verdict # "none" /\ verdict # "error" => wrapper # "unableToReauthenticate"
    /\ verdict = "ok" => \/ code = 404 \/ code = 204
                         \/ service = "resource" /\ code \in Success

Inv == /\ TypeOK /\ Protocol /\ AnswerIsTrue /\ VerdictIsTheServices
       /\ DoneMeansDone /\ RefusalIsTheServices

------------------------------------------------------------------------------
(* Its preservation                                                          *)

\* The absence of an answer is not taken for one.
LEMMA NoAnswerIsNoCode ==
    NoAnswer \notin Success /\ NoAnswer \notin {204, 400, 403, 404, 409}
<1>1. NoAnswer \notin Success
  BY DeleteAssumption DEF Success
<1>2. 204 \in 100..599 /\ 400 \in 100..599 /\ 403 \in 100..599 /\ 404 \in 100..599
      /\ 409 \in 100..599
  OBVIOUS
<1>3. \A c \in 100..599 : NoAnswer # c
  BY DeleteAssumption, Zenon
<1> QED
  BY <1>1, <1>2, <1>3

\* A service that carries out a request leaves its target as its answer says.
LEMMA ServeIsTrue ==
    ASSUME TypeOK, NEW c \in Codes \cup {NoAnswer}, Serve(c), service' = service
    PROVE  /\ target' \in {"there", "accepted", "gone"}
           /\ c = 404 => target' = "gone"
           /\ c \in Success => target' # "there" \/ (service = "credential" /\ c # 204)
           /\ c = 204 => Achieved'
<1>1. NoAnswer \notin Success /\ NoAnswer # 404 /\ NoAnswer # 204
  BY NoAnswerIsNoCode
<1>2. c = 204 => c \in Success
  BY <1>1 DEF Success
<1>3. 404 \notin Success
  BY DEF Success
<1>4. CASE c \in Success \cup {NoAnswer} /\ target # "gone" /\ target' \in CarriedOut(c)
  BY <1>1, <1>2, <1>3, <1>4 DEF TypeOK, CarriedOut, Services, Achieved
<1>5. CASE c \notin Success \cup {NoAnswer}
  BY <1>2, <1>3, <1>5 DEF Serve, TypeOK
<1>6. CASE c = NoAnswer /\ UNCHANGED target
  BY <1>1, <1>6 DEF TypeOK
<1> QED
  BY <1>3, <1>4, <1>5, <1>6 DEF Serve

LEMMA SendInv == Inv /\ Send => Inv'
<1> SUFFICES ASSUME Inv, Send PROVE Inv'
  OBVIOUS
<1> USE DEF Inv
<1>1. PICK c \in Codes \cup {NoAnswer} :
        /\ Serve(c) /\ code' = c
        /\ stage' = IF c = 401 /\ attempt = 0 THEN "reauthenticate" ELSE "classify"
  BY DEF Send
<1>2. /\ stage = "send" /\ verdict = "none" /\ attempt \in {0, 1}
      /\ attempt' = attempt + 1 /\ service' = service /\ reauth' = reauth
      /\ verdict' = "none" /\ wrapper' \in {"plain", "afterReauthentication"}
  BY DEF Send, Protocol
<1>3. /\ target' \in {"there", "accepted", "gone"}
      /\ c = 404 => target' = "gone"
      /\ c \in Success => target' # "there" \/ (service = "credential" /\ c # 204)
      /\ c = 204 => Achieved'
  BY <1>1, <1>2, ServeIsTrue
<1>4. TypeOK' /\ Protocol'
  BY <1>1, <1>2, <1>3 DEF TypeOK, Protocol, Wrappers
<1>5. AnswerIsTrue'
  <2>1. Success' = Success
    BY DEF Success
  <2> QED
    BY <1>1, <1>2, <1>3, <2>1 DEF AnswerIsTrue
<1> QED
  BY <1>2, <1>4, <1>5 DEF VerdictIsTheServices, DoneMeansDone, RefusalIsTheServices

LEMMA ReauthenticateInv == Inv /\ Reauthenticate => Inv'
<1> SUFFICES ASSUME Inv, Reauthenticate PROVE Inv'
  OBVIOUS
<1> USE DEF Inv
<1>1. /\ stage = "reauthenticate" /\ code = 401 /\ attempt = 1 /\ verdict = "none"
      /\ UNCHANGED <<service, target, attempt, code, verdict>>
      /\ stage' \in {"send", "classify"}
  BY DEF Reauthenticate, Protocol
<1>2. TypeOK' /\ Protocol'
  BY <1>1 DEF Reauthenticate, TypeOK, Protocol, Wrappers
<1>3. AnswerIsTrue'
  BY <1>1 DEF AnswerIsTrue, Success
<1> QED
  BY <1>1, <1>2, <1>3 DEF VerdictIsTheServices, DoneMeansDone, RefusalIsTheServices

LEMMA VanishInv == Inv /\ Vanish => Inv'
<1> SUFFICES ASSUME Inv, Vanish PROVE Inv'
  OBVIOUS
<1>1. /\ target' = "gone" /\ UNCHANGED <<service, attempt, code, reauth, wrapper, stage, verdict>>
  BY DEF Vanish
<1> QED
  BY <1>1 DEF Inv, TypeOK, Protocol, AnswerIsTrue, Achieved, VerdictIsTheServices,
     DoneMeansDone, RefusalIsTheServices, Success

\* A verdict is the service's answer, read the way its service means it.
LEMMA ClassifyInv == Inv /\ Classify => Inv'
<1> SUFFICES ASSUME Inv, Classify PROVE Inv'
  OBVIOUS
<1> USE DEF Inv
<1>1. /\ stage = "classify" /\ stage' = "done"
      /\ UNCHANGED <<service, target, attempt, code, reauth, wrapper>>
      /\ verdict' = IF service = "credential" THEN ClassifyApplicationCredentialDelete
                                              ELSE ClassifyDelete
  BY DEF Classify
<1>2. NoAnswer \notin Success /\ NoAnswer \notin {204, 400, 403, 404, 409} /\ 404 \notin Success
  BY NoAnswerIsNoCode DEF Success
<1>3. CASE wrapper = "unableToReauthenticate"
  <2>1. verdict' = "error"
    BY <1>1, <1>2, <1>3 DEF ClassifyApplicationCredentialDelete, ClassifyDelete, ResponseCode
  <2> QED
    BY <1>1, <1>3, <2>1 DEF TypeOK, Protocol, AnswerIsTrue, Achieved, VerdictIsTheServices,
       DoneMeansDone, RefusalIsTheServices, Success
<1>4. CASE wrapper # "unableToReauthenticate" /\ service = "credential"
  <2>1. verdict' = IF code \in {204, 404} THEN "ok"
                   ELSE IF code = 403 THEN "forbidden" ELSE "error"
    BY <1>1, <1>4 DEF ClassifyApplicationCredentialDelete, ResponseCode
  <2> QED
    BY <1>1, <1>4, <2>1 DEF TypeOK, Protocol, AnswerIsTrue, Achieved, VerdictIsTheServices,
       DoneMeansDone, RefusalIsTheServices, Success
<1>5. CASE wrapper # "unableToReauthenticate" /\ service = "resource"
  <2>1. verdict' = IF code \in Success \cup {404} THEN "ok"
                   ELSE IF code \in {400, 409} THEN "pending" ELSE "error"
    BY <1>1, <1>5 DEF ClassifyDelete, ResponseCode
  <2> QED
    BY <1>1, <1>5, <2>1 DEF TypeOK, Protocol, AnswerIsTrue, Achieved, VerdictIsTheServices,
       DoneMeansDone, RefusalIsTheServices, Success
<1> QED
  BY <1>3, <1>4, <1>5 DEF TypeOK, Services

LEMMA InitInv == Init => Inv
<1> SUFFICES ASSUME Init PROVE Inv
  OBVIOUS
<1>1. NoAnswer \notin Success /\ NoAnswer # 404 /\ NoAnswer # 204
  BY NoAnswerIsNoCode
<1> QED
  BY <1>1 DEF Init, Inv, TypeOK, Protocol, AnswerIsTrue, VerdictIsTheServices,
     DoneMeansDone, RefusalIsTheServices, Services, Wrappers

\* Every exchange keeps the invariant.
THEOREM DeleteInv == Spec => []Inv
<1>1. Inv /\ [Next]_vars => Inv'
  <2>1. Inv /\ UNCHANGED vars => Inv'
    BY DEF vars, Inv, TypeOK, Protocol, AnswerIsTrue, Achieved, VerdictIsTheServices,
       DoneMeansDone, RefusalIsTheServices, Success
  <2> QED
    BY <2>1, SendInv, ReauthenticateInv, VanishInv, ClassifyInv DEF Next
<1> QED
  BY <1>1, InitInv, PTL DEF Spec

\* A request is repeated once at most, and only a 401 makes Keystone's word
\* replace the service's (Gophercloud's reauthentication).
THEOREM DeleteTypes == Spec => []TypeOK
<1>1. Inv => TypeOK
  BY DEF Inv
<1> QED
  BY <1>1, DeleteInv, PTL

\* Whatever was lost, repeated or refused on the way, a DELETE that is reported
\* done was carried out (ClassifyDelete, ClassifyApplicationCredentialDelete).
THEOREM DoneIsDone == Spec => []DoneMeansDone
<1>1. Inv => DoneMeansDone
  BY DEF Inv
<1> QED
  BY <1>1, DeleteInv, PTL

\* "Wait" and "forbidden" are the service's answers about the target, never
\* Keystone's about a token (splitDeleteError).
THEOREM RefusalsAreTheServices == Spec => []RefusalIsTheServices
<1>1. Inv => RefusalIsTheServices
  BY DEF Inv
<1> QED
  BY <1>1, DeleteInv, PTL
==============================================================================
