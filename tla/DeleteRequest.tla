---------------------------- MODULE DeleteRequest ----------------------------
(***************************************************************************)
(* One DELETE: what Gophercloud does with the answers it gets, and what     *)
(* package apierrors makes of the result.                                   *)
(*                                                                          *)
(* A 401 makes Gophercloud authenticate again and repeat the request, once. *)
(* Its error then wraps either the second answer of the service or the      *)
(* failure of Keystone; the two must not be taken for one another, for a    *)
(* 404 of Keystone says nothing about the target.                           *)
(***************************************************************************)
EXTENDS Naturals

CONSTANTS
    Codes,       \* status codes a service or Keystone may answer with
    NoAnswer     \* no response at all: time-out, lost connection

ASSUME DeleteAssumption == Codes \subseteq 100..599 /\ NoAnswer \notin 100..599

Success == {c \in Codes : c >= 200 /\ c < 300}

Services == {"resource", "credential"}

\* How Gophercloud hands over an error.
Wrappers == {"plain", "afterReauthentication", "unableToReauthenticate"}

VARIABLES
    service,     \* what is deleted
    target,      \* "there", "accepted" (is going away) or "gone"
    attempt,     \* requests sent to the service
    code,        \* code of the last answer; NoAnswer if there was none
    reauth,      \* code of a failed reauthentication
    wrapper,
    stage,       \* "send", "reauthenticate", "classify" or "done"
    verdict      \* "ok", "pending", "forbidden" or "error"

vars == <<service, target, attempt, code, reauth, wrapper, stage, verdict>>

------------------------------------------------------------------------------
(* The service and Keystone                                                  *)

\* What may have become of the target when it was there and the request was
\* carried out.  Keystone documents no success but 204.
CarriedOut(c) ==
    CASE service = "resource" -> {"accepted", "gone"}
      [] service = "credential" /\ c = 204 -> {"gone"}
      [] service = "credential" /\ c # 204 -> {"gone", target}

\* The service answers c.  404 and only 404 tells that the target is absent.  A
\* request whose answer is lost may or may not have been carried out.
Serve(c) ==
    \/ c \in Success \cup {NoAnswer} /\ target # "gone" /\ target' \in CarriedOut(c)
    \/ c = 404 /\ target = "gone" /\ UNCHANGED target
    \/ c \notin Success \cup {404} /\ UNCHANGED target

BugSend ==
    /\ stage = "send"
    /\ \E c \in Codes \cup {NoAnswer} :
          /\ Serve(c)
          /\ code' = c
          /\ stage' = IF c = 401 THEN "reauthenticate" ELSE "classify"
    /\ attempt' = attempt + 1
    /\ wrapper' = IF attempt = 0 THEN "plain" ELSE "afterReauthentication"
    /\ UNCHANGED <<service, reauth, verdict>>
Send ==
    /\ stage = "send"
    /\ \E c \in Codes \cup {NoAnswer} :
          /\ Serve(c)
          /\ code' = c
          /\ stage' = IF c = 401 /\ attempt = 0 THEN "reauthenticate" ELSE "classify"
    /\ attempt' = attempt + 1
    /\ wrapper' = IF attempt = 0 THEN "plain" ELSE "afterReauthentication"
    /\ UNCHANGED <<service, reauth, verdict>>

\* Keystone issues a new token, or refuses, or does not answer.
Reauthenticate ==
    /\ stage = "reauthenticate"
    /\ \/ stage' = "send" /\ UNCHANGED <<reauth, wrapper>>
       \/ /\ reauth' \in (Codes \ Success) \cup {NoAnswer}
          /\ wrapper' = "unableToReauthenticate"
          /\ stage' = "classify"
    /\ UNCHANGED <<service, target, attempt, code, verdict>>

\* Someone else deletes the target, or its deletion is carried out.
Vanish ==
    /\ target # "gone" /\ stage # "done"
    /\ target' = "gone"
    /\ UNCHANGED <<service, attempt, code, reauth, wrapper, stage, verdict>>

------------------------------------------------------------------------------
(* apierrors                                                                 *)

\* splitDeleteError and responseCode: the code to classify.  A failed
\* reauthentication leaves nothing to classify.
BugResponseCode == IF wrapper = "unableToReauthenticate" THEN reauth ELSE code
ResponseCode == IF wrapper = "unableToReauthenticate" THEN NoAnswer ELSE code

\* ClassifyDelete
ClassifyDelete ==
    IF ResponseCode \in Success \cup {404} THEN "ok"
    ELSE IF ResponseCode \in {400, 409} THEN "pending" ELSE "error"

\* ClassifyApplicationCredentialDelete: any success but 204 is an error here.
BugClassifyApplicationCredentialDelete ==
    IF ResponseCode \in Success \cup {404} THEN "ok"
    ELSE IF ResponseCode = 403 THEN "forbidden" ELSE "error"
ClassifyApplicationCredentialDelete ==
    IF ResponseCode \in {204, 404} THEN "ok"
    ELSE IF ResponseCode = 403 THEN "forbidden" ELSE "error"

Classify ==
    /\ stage = "classify"
    /\ verdict' = IF service = "credential" THEN ClassifyApplicationCredentialDelete
                                            ELSE ClassifyDelete
    /\ stage' = "done"
    /\ UNCHANGED <<service, target, attempt, code, reauth, wrapper>>

------------------------------------------------------------------------------
Init ==
    /\ service \in Services
    /\ target \in {"there", "gone"}
    /\ attempt = 0 /\ code = NoAnswer /\ reauth = NoAnswer
    /\ wrapper = "plain" /\ stage = "send" /\ verdict = "none"

Next == Send \/ Reauthenticate \/ Vanish \/ Classify

Spec == Init /\ [][Next]_vars

------------------------------------------------------------------------------
(* Properties                                                                *)

\* Every variable has its type; a request is repeated once at most, and only a
\* 401 leads to a reauthentication.
TypeOK ==
    /\ service \in Services
    /\ target \in {"there", "accepted", "gone"}
    /\ attempt \in 0..2
    /\ code \in Codes \cup {NoAnswer} /\ reauth \in Codes \cup {NoAnswer}
    /\ wrapper \in Wrappers
    /\ wrapper = "unableToReauthenticate" => code = 401
    /\ stage \in {"send", "reauthenticate", "classify", "done"}
    /\ verdict \in {"none", "ok", "pending", "forbidden", "error"}

\* A DELETE that is reported done was carried out: the credential is gone, the
\* resource at least going.  secretDeleteStarted and the phases of the runner
\* rest on this, whatever was lost, repeated or refused on the way.
DoneMeansDone ==
    verdict = "ok" => IF service = "credential" THEN target = "gone" ELSE target # "there"

\* "Wait" and "forbidden" are the service's own words about the target, never
\* those of Keystone about a token (splitDeleteError's comment).
RefusalIsTheServices ==
    /\ verdict = "pending" => service = "resource" /\ code \in {400, 409}
    /\ verdict = "forbidden" => service = "credential" /\ code = 403
==============================================================================
