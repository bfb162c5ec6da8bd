---------------------------- MODULE CleanupSession ----------------------------
(***************************************************************************)
(* A credential deletion seen from the configuration: how an entry of       *)
(* clouds.yaml becomes a session, what of it a checkpoint records, and when  *)
(* a later session, opened on a configuration that may have been edited, is  *)
(* still the recorded one.  CredentialCleanup has one value in place of all  *)
(* this; in return the cluster, its finalizers and the Secret's own removal  *)
(* are left to it.                                                          *)
(*                                                                          *)
(* An operator named Bug... is a plausible error in the definition below it. *)
(* No behaviour uses it: the properties are tested against it.               *)
(*                                                                          *)
(* Abstracted: a URL is the record of the parts that are told apart (a port *)
(* that is written but empty has no place in it), "padded" is a value with  *)
(* surrounding space, and what makes an entry useless before any request is *)
(* sent is one field.                                                       *)
(***************************************************************************)
EXTENDS Naturals

CONSTANTS
    Entries,     \* entries a clouds.yaml may hold
    CloudNames,  \* names under which it may hold them
    Padded,      \* those with surrounding space
    Selections,  \* spec.identityRef.cloudName, possibly empty
    KeystoneOf,  \* the Keystone behind a host and a path
    TokenOf,     \* user and project of a credential of a Keystone
    MaxEdits, MaxFaults

Unset == ""  \* a setting that is absent
DefaultCloudName == "openstack"
Schemes == {"http", "https"}
Interfaces == {"public", "internal", "admin"}

Keystones == {KeystoneOf[p] : p \in DOMAIN KeystoneOf}
CredentialIDs == {e.id : e \in Entries}

ASSUME SessionAssumption ==
    /\ DefaultCloudName \in CloudNames
    /\ Padded \subseteq CloudNames
    /\ Selections \subseteq CloudNames \cup {Unset}
    /\ \A e \in Entries : <<e.url.host, e.url.path>> \in DOMAIN KeystoneOf
    /\ DOMAIN TokenOf = Keystones \X CredentialIDs
    /\ MaxEdits \in Nat /\ MaxFaults \in Nat

\* What an entry holds, with Unset for a setting that is absent, and what a token
\* says: strings, a URL in parts.
ASSUME EntriesAssumption ==
    LET URLs == [scheme : STRING, host : STRING, upper : BOOLEAN, port : STRING,
                 path : STRING, slashes : Nat, extra : BOOLEAN]
    IN  /\ Entries \subseteq [url : URLs, id : STRING, project : STRING, user : STRING,
                              region : STRING, interface : STRING, usable : BOOLEAN]
        /\ TokenOf \in [Keystones \X CredentialIDs -> [user : STRING, project : STRING]]

VARIABLES
    clouds,     \* what the Secret holds: an entry for each name
    selection,  \* the cloud name in the OpenStackCluster
    secretRV, clusterRV,
    live,       \* credentials the Keystones know
    remaining,  \* projects and regions with resources of the cluster
    ckpt,       \* the stored checkpoint: its phase and its binding
    pc, goal,   \* the call that comes next, and what for
    seen,       \* the configuration the reconciliation has read
    session,    \* the binding of its session
    edits, faults

vars == <<clouds, selection, secretRV, clusterRV, live, remaining, ckpt, pc, goal,
          seen, session, edits, faults>>

------------------------------------------------------------------------------
(* Configuration                                                             *)

\* A URL that NormalizeAuthority accepts.
Valid(url) == url.scheme \in Schemes /\ ~url.extra

DefaultPort(scheme) == IF scheme = "https" THEN "443" ELSE "80"

\* The host in lower case, no default port, no trailing slash; the path stays.
NormalizeAuthority(url) ==
    [url EXCEPT !.upper = FALSE, !.slashes = 0,
                !.port = IF @ = DefaultPort(url.scheme) THEN Unset ELSE @]

\* The endpoint type of an interface as clouds.yaml spells it.
EndpointType(interface) ==
    CASE interface \in {"internal", "internalURL"} -> "internal"
      [] interface \in {"admin", "adminURL"} -> "admin"
      [] OTHER -> "public"

SelectedCloudName(name) == IF name = Unset THEN DefaultCloudName ELSE name

\* loadCredential succeeds.
Loads(conf) == LET e == conf.clouds[SelectedCloudName(conf.selection)] IN
               e.usable /\ Valid(e.url)

\* The settings it returns; project and user are optional.
BugConfig(conf) ==
    LET name == SelectedCloudName(conf.selection)  e == conf.clouds[name] IN
    [authority |-> NormalizeAuthority(e.url), project |-> e.project, user |-> e.user,
     region |-> Unset, interface |-> EndpointType(e.interface),
     cloudName |-> name, id |-> e.id]
Config(conf) ==
    LET name == SelectedCloudName(conf.selection)  e == conf.clouds[name] IN
    [authority |-> NormalizeAuthority(e.url), project |-> e.project, user |-> e.user,
     region |-> e.region, interface |-> EndpointType(e.interface),
     cloudName |-> name, id |-> e.id]

Current == [clouds |-> clouds, selection |-> selection,
            secretRV |-> secretRV, clusterRV |-> clusterRV]

------------------------------------------------------------------------------
(* Binding                                                                   *)

Keystone(authority) == KeystoneOf[<<authority.host, authority.path>>]
Credential(binding) == <<Keystone(binding.authority), binding.id>>

\* Binding of a session: the settings, with the user and project of its token.
Binding(conf) ==
    LET c == Config(conf)  token == TokenOf[Credential(c)] IN
    [c EXCEPT !.project = token.project, !.user = token.user]

\* ValidateCredentialBinding, for the parts that are not valid by their type.
ValidBinding(b) ==
    /\ Valid(b.authority) /\ NormalizeAuthority(b.authority) = b.authority
    /\ b.interface \in Interfaces
    /\ b.project # Unset /\ b.user # Unset
    /\ b.cloudName \notin Padded

\* checkCheckpointBinding, for a Secret that exists.
BugMatches(conf, b) ==
    Loads(conf) /\ [Config(conf) EXCEPT !.user = b.user] = b
Matches(conf, b) ==
    LET c == Config(conf) IN
    /\ Loads(conf)
    /\ c.project \in {Unset, b.project} /\ c.user \in {Unset, b.user}
    /\ [c EXCEPT !.project = b.project, !.user = b.user] = b

\* What reconcileDelete demands before it saves the first checkpoint.
BugMayRecord(conf, b) == Matches(conf, b)
MayRecord(conf, b) == ValidBinding(b) /\ Matches(conf, b)

\* What a resumption demands before it opens a session: a checkpoint that
\* readCredentialCheckpoint accepts, and the recorded configuration.
MayResume(conf, b) == ValidBinding(b) /\ Matches(conf, b)

------------------------------------------------------------------------------
(* One reconciliation                                                        *)

None == [phase |-> "none"]
Checkpoint(phase, b) == [phase |-> phase, binding |-> b]
NoConfig == [secretRV |-> 0]
NoSession == [id |-> Unset]

Goto(stage, g) == pc' = stage /\ goal' = g
Go(stage) == Goto(stage, goal) /\ UNCHANGED <<seen, session>>
Return == Goto("idle", "none") /\ seen' = NoConfig /\ session' = NoSession

Kept == UNCHANGED <<clouds, selection, secretRV, clusterRV, live, remaining, ckpt, edits, faults>>

\* Cluster and Secret are read; an unusable configuration ends it at once.
Read ==
    /\ pc = "idle" /\ seen' = Current
    /\ \/ ckpt = None /\ Loads(Current) /\ Goto("newClient", "record")
       \/ /\ ckpt.phase = "credentialDeleteStarted"
          /\ MayResume(Current, ckpt.binding) /\ Goto("newClient", "delete")
    /\ UNCHANGED session /\ Kept

\* NewClient: authentication, token and catalog.  A token without user or
\* project is refused, and so is a resumption under another binding.
NewClient ==
    LET b == Binding(seen) IN
    /\ pc = "newClient"
    /\ IF /\ Credential(b) \in live
          /\ b.user # Unset /\ b.project # Unset
          /\ goal = "delete" => b = ckpt.binding
       THEN /\ session' = b /\ UNCHANGED seen
            /\ Goto(IF goal = "delete" THEN "check" ELSE "cleanup", goal)
       ELSE Return
    /\ Kept

\* Cleanup works in the session's project and region, and either has to wait
\* or has verified that nothing is left there.
Place(b) == <<Keystone(b.authority), b.project, b.region>>

CleanupWaits == pc = "cleanup" /\ Place(session) \in remaining /\ Return /\ Kept

CleanupCompletes ==
    /\ pc = "cleanup"
    /\ remaining' = remaining \ {Place(session)}
    /\ IF MayRecord(seen, session) THEN Go("check") ELSE Return
    /\ UNCHANGED <<clouds, selection, secretRV, clusterRV, live, ckpt, edits, faults>>

\* checkCleanupInputs: neither object has been edited since it was read.
Check ==
    /\ pc = "check"
    /\ IF seen.secretRV = secretRV /\ seen.clusterRV = clusterRV
       THEN Go(IF goal = "delete" THEN "delete" ELSE "save") ELSE Return
    /\ Kept

\* The checkpoint is written under a lock on the OpenStackCluster alone.
Save ==
    /\ pc = "save"
    /\ IF seen.clusterRV = clusterRV
       THEN /\ ckpt' = IF goal = "record"
                       THEN Checkpoint("credentialDeleteStarted", session)
                       ELSE [ckpt EXCEPT !.phase = "secretDeleteStarted"]
            /\ clusterRV' = clusterRV + 1
       ELSE UNCHANGED <<ckpt, clusterRV>>
    /\ Return
    /\ UNCHANGED <<clouds, selection, secretRV, live, remaining, edits, faults>>

\* The session deletes the credential it has authenticated with, if that is
\* the one the checkpoint names.
BugDelete ==
    /\ pc = "delete"
    /\ live' = IF session.id = ckpt.binding.id THEN live \ {Credential(session)} ELSE live
    /\ Return
    /\ UNCHANGED <<clouds, selection, secretRV, clusterRV, remaining, ckpt, edits, faults>>
Delete ==
    /\ pc = "delete"
    /\ IF session.id = ckpt.binding.id
       THEN /\ live' = live \ {Credential(session)}
            /\ Goto("check", "confirm") /\ UNCHANGED <<seen, session>>
       ELSE Return /\ UNCHANGED live
    /\ UNCHANGED <<clouds, selection, secretRV, clusterRV, remaining, ckpt, edits, faults>>

Step == Read \/ NewClient \/ CleanupWaits \/ CleanupCompletes \/ Check \/ Save \/ Delete

\* A call fails, or the process stops.
Fail ==
    /\ pc # "idle" /\ faults < MaxFaults /\ faults' = faults + 1
    /\ Return
    /\ UNCHANGED <<clouds, selection, secretRV, clusterRV, live, remaining, ckpt, edits>>

------------------------------------------------------------------------------
(* Users                                                                     *)

EditSecret ==
    /\ edits < MaxEdits /\ edits' = edits + 1
    /\ \E n \in CloudNames : \E e \in Entries \ {clouds[n]} :
          clouds' = [clouds EXCEPT ![n] = e]
    /\ secretRV' = secretRV + 1
    /\ UNCHANGED <<selection, clusterRV, live, remaining, ckpt, pc, goal, seen, session, faults>>

EditSelection ==
    /\ edits < MaxEdits /\ edits' = edits + 1
    /\ selection' \in Selections \ {selection}
    /\ clusterRV' = clusterRV + 1
    /\ UNCHANGED <<clouds, secretRV, live, remaining, ckpt, pc, goal, seen, session, faults>>

------------------------------------------------------------------------------
Places == {<<k, TokenOf[<<k, i>>].project, e.region>> :
              k \in Keystones, i \in CredentialIDs, e \in Entries}

Init ==
    /\ \E e \in Entries : clouds = [n \in CloudNames |-> e]
    /\ selection \in Selections
    /\ secretRV = 1 /\ clusterRV = 1
    /\ live = Keystones \X CredentialIDs
    /\ remaining = Places
    /\ ckpt = None
    /\ pc = "idle" /\ goal = "none"
    /\ seen = NoConfig /\ session = NoSession
    /\ edits = 0 /\ faults = 0

Next == Step \/ Fail \/ EditSecret \/ EditSelection

Spec == Init /\ [][Next]_vars

\* The controller retries a deletion until it succeeds, and a cleanup that is
\* repeated comes to its end (module CleanupRunner).
Fairness == WF_vars(Step) /\ SF_vars(CleanupCompletes)

FairSpec == Spec /\ Fairness

------------------------------------------------------------------------------
(* Properties                                                                *)

Begun == ckpt # None

\* Every variable has its type, and a worker on its way to a write has what it
\* writes.
TypeOK ==
    /\ clouds \in [CloudNames -> Entries] /\ selection \in Selections
    /\ secretRV \in Nat /\ clusterRV \in Nat
    /\ live \subseteq Keystones \X CredentialIDs /\ remaining \subseteq Places
    /\ pc \in {"idle", "newClient", "cleanup", "check", "save", "delete"}
    /\ goal \in {"none", "record", "delete", "confirm"}
    /\ (pc = "idle") = (goal = "none")
    /\ pc \notin {"idle", "newClient"} =>
          session.region \in {e.region : e \in Entries} /\ session.cloudName \in CloudNames
    /\ goal \in {"delete", "confirm"} =>
          Begun /\ (pc # "newClient" => session = ckpt.binding)
    /\ edits \in 0..MaxEdits /\ faults \in 0..MaxFaults

\* What the controller stores it can read back: the validation of a stored
\* checkpoint never rejects one of its own, which would leave the deletion
\* without a way on.
StoredCheckpointIsReadable == Begun => ValidBinding(ckpt.binding)

\* The same service, as HTTP sees it.
SameEndpoint(u, v) ==
    LET Port(w) == IF w.port = Unset THEN DefaultPort(w.scheme) ELSE w.port IN
    <<u.scheme, u.host, Port(u), u.path>> = <<v.scheme, v.host, Port(v), v.path>>

\* The configuration names the recorded credential, in the recorded place.
Recorded(conf, b) ==
    LET name == SelectedCloudName(conf.selection)  e == conf.clouds[name] IN
    /\ e.usable /\ Valid(e.url)
    /\ SameEndpoint(e.url, b.authority)
    /\ name = b.cloudName /\ e.id = b.id /\ e.region = b.region
    /\ EndpointType(e.interface) = b.interface
    /\ e.project = Unset \/ e.project = b.project
    /\ e.user = Unset \/ e.user = b.user

\* docs/design/python-compatibility-policy.md: "any binding change remains
\* blocked".  A resumption is let through exactly when the configuration still
\* means the recorded credential, however it is spelled.
ResumesExactlyTheRecorded ==
    Begun => (MayResume(Current, ckpt.binding) <=> Recorded(Current, ckpt.binding))

\* A credential is destroyed only where everything has been verified: in the
\* project its token is for and the region that was configured when the
\* session that deletes it was opened, and as the checkpoint has it.
DestroyedWhereVerified ==
    [][\A k \in live \ live' :
        LET e == seen.clouds[SelectedCloudName(seen.selection)] IN
        /\ Begun /\ k = Credential(ckpt.binding)
        /\ k = <<KeystoneOf[<<e.url.host, e.url.path>>], e.id>>
        /\ <<k[1], TokenOf[k].project, e.region>> \notin remaining]_vars

\* The reconciliation under way has read what has been edited since.
Outdated == pc # "idle" /\ ~(seen.secretRV = secretRV /\ seen.clusterRV = clusterRV)

\* README.md: a "204 or 404 for that credential allows the controller to save
\* secretDeleteStarted".  As long as the recorded credential exists, a deletion
\* that has begun gets there, past its DELETE and however the configuration is
\* spelled by now, unless a fault, an edit during the reconciliation or another
\* configuration comes first.  One that comes between the DELETE and the write
\* is the end of it, since nobody can authenticate again; any other leaves a
\* credential of which this has to hold anew.
BegunDeletionGoesOn ==
    \A n \in 0..MaxFaults :
        faults = n /\ Begun /\ Credential(ckpt.binding) \in live
            ~> \/ ckpt.phase = "secretDeleteStarted"
               \/ faults # n \/ Outdated
               \/ Begun /\ ~Recorded(Current, ckpt.binding)
==============================================================================
