----------------------------- MODULE SessionProofs -----------------------------
(***************************************************************************)
(* Sessions and checkpoints for any configuration: a stored binding is the  *)
(* normal form of what it was made from, so it can be read back and is      *)
(* recognized under every spelling, and a credential goes only where its    *)
(* project and region have been verified.                                   *)
(***************************************************************************)
EXTENDS CleanupSession, TLAPS

------------------------------------------------------------------------------
(* The invariant                                                             *)

URLs == [scheme : STRING, host : STRING, upper : BOOLEAN, port : STRING \cup {Unset},
         path : STRING, slashes : Nat, extra : BOOLEAN]

Bindings == [authority : URLs, project : STRING, user : STRING, region : STRING,
             interface : Interfaces, cloudName : CloudNames, id : STRING]

Configurations == [clouds : [CloudNames -> Entries], selection : Selections,
                   secretRV : Nat, clusterRV : Nat]

InSession == pc \in {"cleanup", "check", "save", "delete"}

\* A reconciliation under way has read a configuration that loads, and its
\* session is the binding of what it has read.
SessionsAreRead ==
    /\ pc # "idle" => seen \in Configurations /\ Loads(seen)
    /\ InSession => /\ session = Binding(seen)
                    /\ session.user # Unset /\ session.project # Unset
    /\ pc = "cleanup" => goal = "record"
    /\ pc = "newClient" => goal \in {"record", "delete"}

\* What is about to be recorded has been checked, verified clean, and is the
\* first to be recorded.
FirstRecord ==
    /\ goal = "record" => ~Begun
    /\ goal = "record" /\ pc \in {"check", "save", "delete"} =>
          MayRecord(seen, session) /\ Place(session) \notin remaining /\ pc # "delete"
    /\ pc = "delete" => goal = "delete"

\* The stored checkpoint has a valid binding, and its place has been verified.
CheckpointHolds ==
    Begun => /\ ckpt = Checkpoint(ckpt.phase, ckpt.binding)
             /\ ckpt.phase \in {"credentialDeleteStarted", "secretDeleteStarted"}
             /\ ckpt.binding \in Bindings /\ ValidBinding(ckpt.binding)
             /\ Place(ckpt.binding) \notin remaining

Inv == TypeOK /\ SessionsAreRead /\ FirstRecord /\ CheckpointHolds


------------------------------------------------------------------------------
(* URLs and bindings                                                         *)

\* URLs are equal when all their parts are.
LEMMA EqualURLs ==
    ASSUME NEW u \in URLs, NEW v \in URLs,
           u.scheme = v.scheme, u.host = v.host, u.upper = v.upper, u.port = v.port,
           u.path = v.path, u.slashes = v.slashes, u.extra = v.extra
    PROVE  u = v
<1>1. /\ u = [scheme |-> u.scheme, host |-> u.host, upper |-> u.upper, port |-> u.port,
              path |-> u.path, slashes |-> u.slashes, extra |-> u.extra]
      /\ v = [scheme |-> v.scheme, host |-> v.host, upper |-> v.upper, port |-> v.port,
              path |-> v.path, slashes |-> v.slashes, extra |-> v.extra]
  BY DEF URLs
<1> QED
  BY <1>1

\* The parts of a normal form.
LEMMA NormalParts ==
    ASSUME NEW u \in URLs
    PROVE  LET v == NormalizeAuthority(u) IN
           /\ v \in URLs /\ v.scheme = u.scheme /\ v.host = u.host /\ v.path = u.path
           /\ v.upper = FALSE /\ v.slashes = 0 /\ v.extra = u.extra
           /\ v.port = IF u.port = DefaultPort(u.scheme) THEN Unset ELSE u.port
<1> DEFINE p == IF u.port = DefaultPort(u.scheme) THEN Unset ELSE u.port
<1>1. p \in STRING \cup {Unset}
  BY DEF URLs
<1>2. NormalizeAuthority(u) = [u EXCEPT !.upper = FALSE, !.slashes = 0, !.port = p]
  BY DEF NormalizeAuthority, URLs
<1> HIDE DEF p
<1>3. LET v == [u EXCEPT !.upper = FALSE, !.slashes = 0, !.port = p] IN
      /\ v \in URLs /\ v.scheme = u.scheme /\ v.host = u.host /\ v.path = u.path
      /\ v.upper = FALSE /\ v.slashes = 0 /\ v.extra = u.extra /\ v.port = p
  BY <1>1 DEF URLs
<1> QED
  BY <1>2, <1>3 DEF p

\* A scheme has a default port.
LEMMA PortsAreSet == \A scheme : DefaultPort(scheme) # Unset
BY DEF DefaultPort, Unset

\* The normal form of a valid URL is valid, and its own normal form.
LEMMA NormalForm ==
    ASSUME NEW u \in URLs, Valid(u)
    PROVE  LET v == NormalizeAuthority(u) IN
           /\ v \in URLs /\ Valid(v) /\ NormalizeAuthority(v) = v
           /\ v.scheme = u.scheme /\ v.host = u.host /\ v.path = u.path
<1> DEFINE v == NormalizeAuthority(u)  w == NormalizeAuthority(v)
<1>1. /\ v \in URLs /\ v.scheme = u.scheme /\ v.host = u.host /\ v.path = u.path
      /\ v.upper = FALSE /\ v.slashes = 0 /\ v.extra = u.extra
      /\ v.port # DefaultPort(v.scheme)
  BY NormalParts, PortsAreSet
<1>2. w = v
  <2> HIDE DEF v
  <2>1. /\ w \in URLs /\ w.scheme = v.scheme /\ w.host = v.host /\ w.path = v.path
        /\ w.upper = FALSE /\ w.slashes = 0 /\ w.extra = v.extra /\ w.port = v.port
    BY <1>1, NormalParts
  <2> HIDE DEF w
  <2> QED
    BY <1>1, <2>1, EqualURLs
<1> HIDE DEF v, w
<1>3. Valid(v)
  BY <1>1 DEF Valid
<1> QED
  BY <1>1, <1>2, <1>3 DEF v, w

\* Two spellings of a URL have one normal form exactly if HTTP takes them for
\* the same service.
LEMMA OneNormalForm ==
    ASSUME NEW u \in URLs, NEW v \in URLs, Valid(u), Valid(v), NormalizeAuthority(v) = v
    PROVE  NormalizeAuthority(u) = v <=> SameEndpoint(u, v)
<1> DEFINE w == NormalizeAuthority(u)  d == DefaultPort(v.scheme)
           Port(x) == IF x.port = Unset THEN DefaultPort(x.scheme) ELSE x.port
<1>e. u.extra = FALSE /\ v.extra = FALSE
  BY DEF Valid, URLs
<1>1. /\ w \in URLs /\ w.scheme = u.scheme /\ w.host = u.host /\ w.path = u.path
      /\ w.upper = FALSE /\ w.slashes = 0 /\ w.extra = FALSE
      /\ w.port = IF u.port = DefaultPort(u.scheme) THEN Unset ELSE u.port
  BY <1>e, NormalParts
<1>2. d # Unset
  BY PortsAreSet
<1>3. v.upper = FALSE /\ v.slashes = 0 /\ v.port # d
  BY <1>2, NormalParts
<1>4. SameEndpoint(u, v) <=> /\ u.scheme = v.scheme /\ u.host = v.host /\ u.path = v.path
                             /\ Port(u) = Port(v)
  BY DEF SameEndpoint
<1>5. u.scheme = v.scheme => (w.port = v.port <=> Port(u) = Port(v))
  <2> SUFFICES ASSUME u.scheme = v.scheme
               PROVE  (IF u.port = d THEN Unset ELSE u.port) = v.port <=>
                         (IF u.port = Unset THEN d ELSE u.port) = (IF v.port = Unset THEN d ELSE v.port)
    BY <1>1
  <2> HIDE DEF d
  <2> QED
    BY <1>2, <1>3
<1> HIDE DEF w, d, Port
<1>6. w = v => /\ u.scheme = v.scheme /\ u.host = v.host /\ u.path = v.path
               /\ Port(u) = Port(v)
  BY <1>1, <1>5
<1>7. ASSUME u.scheme = v.scheme, u.host = v.host, u.path = v.path, Port(u) = Port(v)
      PROVE  w = v
  <2>1. /\ w.scheme = v.scheme /\ w.host = v.host /\ w.path = v.path /\ w.port = v.port
        /\ w.upper = v.upper /\ w.slashes = v.slashes /\ w.extra = v.extra
    BY <1>e, <1>1, <1>3, <1>5, <1>7
  <2> QED
    BY <1>1, <2>1, EqualURLs
<1>8. w = v <=> SameEndpoint(u, v)
  BY <1>4, <1>6, <1>7
<1> QED
  BY <1>8 DEF w

\* Bindings are equal up to user and project.
LEMMA EqualBindings ==
    ASSUME NEW b \in Bindings, NEW c \in Bindings
    PROVE  [c EXCEPT !.project = b.project, !.user = b.user] = b <=>
               /\ c.authority = b.authority /\ c.region = b.region
               /\ c.interface = b.interface /\ c.cloudName = b.cloudName /\ c.id = b.id
BY DEF Bindings

\* The entry that a configuration selects.
Entry(conf) == conf.clouds[SelectedCloudName(conf.selection)]

LEMMA EntryHolds ==
    ASSUME NEW conf \in Configurations
    PROVE  /\ SelectedCloudName(conf.selection) \in CloudNames
           /\ Entry(conf) \in Entries /\ Entry(conf).url \in URLs
           /\ Entry(conf).id \in STRING /\ Entry(conf).region \in STRING
           /\ Entry(conf).project \in STRING /\ Entry(conf).user \in STRING
<1>1. SelectedCloudName(conf.selection) \in CloudNames
  BY SessionAssumption DEF SelectedCloudName, Configurations
<1>2. Entry(conf) \in Entries
  BY <1>1 DEF Entry, Configurations
<1> QED
  BY <1>1, <1>2, EntriesAssumption DEF URLs

\* The settings of a configuration that loads, as a binding.
LEMMA ConfigHolds ==
    ASSUME NEW conf \in Configurations, Loads(conf)
    PROVE  LET c == Config(conf)  e == Entry(conf) IN
           /\ c \in Bindings /\ c.authority = NormalizeAuthority(e.url)
           /\ Valid(c.authority) /\ NormalizeAuthority(c.authority) = c.authority
           /\ c.interface = EndpointType(e.interface) /\ c.interface \in Interfaces
           /\ c.cloudName = SelectedCloudName(conf.selection)
           /\ c.id = e.id /\ c.region = e.region
           /\ c.project = e.project /\ c.user = e.user
           /\ Keystone(c.authority) = KeystoneOf[<<e.url.host, e.url.path>>]
           /\ Keystone(c.authority) \in Keystones /\ c.id \in CredentialIDs
<1> DEFINE c == Config(conf)  e == Entry(conf)  n == NormalizeAuthority(e.url)
<1>1. Valid(e.url)
  BY DEF Loads, Entry
<1>2. /\ n \in URLs /\ Valid(n) /\ NormalizeAuthority(n) = n
      /\ n.host = e.url.host /\ n.path = e.url.path
  BY <1>1, EntryHolds, NormalForm
<1>3. c = [authority |-> n, project |-> e.project, user |-> e.user,
           region |-> e.region, interface |-> EndpointType(e.interface),
           cloudName |-> SelectedCloudName(conf.selection), id |-> e.id]
  BY DEF Config, Entry
<1>4. EndpointType(e.interface) \in Interfaces
  <2> HIDE DEF e
  <2> QED
    BY DEF EndpointType, Interfaces
<1>5. /\ Keystone(n) = KeystoneOf[<<e.url.host, e.url.path>>]
      /\ Keystone(n) \in Keystones /\ e.id \in CredentialIDs
  BY <1>2, EntryHolds, SessionAssumption DEF Keystone, Keystones, CredentialIDs
<1>6. c \in Bindings
  <2> HIDE DEF n, e, c
  <2> QED
    BY <1>2, <1>3, <1>4, EntryHolds DEF Bindings, e
<1> HIDE DEF n, e
<1> QED
  BY <1>2, <1>3, <1>4, <1>5, <1>6 DEF n, e

\* The binding of a session: the settings, but for the token's user and project.
LEMMA BindingHolds ==
    ASSUME NEW conf \in Configurations, Loads(conf)
    PROVE  LET b == Binding(conf)  c == Config(conf)  token == TokenOf[Credential(b)] IN
           /\ b \in Bindings /\ Credential(b) = Credential(c)
           /\ Credential(b) \in Keystones \X CredentialIDs
           /\ b.authority = c.authority /\ b.region = c.region /\ b.id = c.id
           /\ b.interface = c.interface /\ b.cloudName = c.cloudName
           /\ b.project = token.project /\ b.user = token.user
<1> DEFINE c == Config(conf)  b == Binding(conf)  token == TokenOf[Credential(c)]
<1>1. /\ c \in Bindings /\ Keystone(c.authority) \in Keystones /\ c.id \in CredentialIDs
  BY ConfigHolds
<1>2. Credential(c) \in Keystones \X CredentialIDs
  BY <1>1 DEF Credential
<1>3. token \in [user : STRING, project : STRING]
  BY <1>2, EntriesAssumption
<1>4. b = [c EXCEPT !.project = token.project, !.user = token.user]
  BY DEF Binding
<1>5. /\ b \in Bindings /\ b.authority = c.authority /\ b.region = c.region /\ b.id = c.id
      /\ b.interface = c.interface /\ b.cloudName = c.cloudName
      /\ b.project = token.project /\ b.user = token.user
  <2> HIDE DEF c, b, token
  <2> QED
    BY <1>1, <1>3, <1>4 DEF Bindings
<1>6. Credential(b) = Credential(c)
  BY <1>5 DEF Credential
<1> HIDE DEF c, b, token
<1> QED
  BY <1>2, <1>5, <1>6 DEF c, b, token

\* A configuration matches a valid binding exactly if it means what the
\* binding records.
LEMMA MatchesTheRecorded ==
    ASSUME NEW conf \in Configurations, NEW b \in Bindings, ValidBinding(b)
    PROVE  Matches(conf, b) <=> Recorded(conf, b)
<1> DEFINE e == Entry(conf)  c == Config(conf)
<1>1. Recorded(conf, b) <=>
          /\ Loads(conf) /\ SameEndpoint(e.url, b.authority)
          /\ SelectedCloudName(conf.selection) = b.cloudName
          /\ e.id = b.id /\ e.region = b.region
          /\ EndpointType(e.interface) = b.interface
          /\ e.project \in {Unset, b.project} /\ e.user \in {Unset, b.user}
  BY DEF Recorded, Loads, Entry
<1>2. Matches(conf, b) => Loads(conf)
  BY DEF Matches
<1>3. SUFFICES ASSUME Loads(conf) PROVE Matches(conf, b) <=> Recorded(conf, b)
  BY <1>1, <1>2
<1>4. NormalizeAuthority(e.url) = b.authority <=> SameEndpoint(e.url, b.authority)
  <2>1. e.url \in URLs /\ Valid(e.url)
    BY <1>3, EntryHolds DEF Loads, Entry
  <2>2. /\ b.authority \in URLs /\ Valid(b.authority)
        /\ NormalizeAuthority(b.authority) = b.authority
    BY DEF ValidBinding, Bindings
  <2> HIDE DEF e
  <2> QED
    BY <2>1, <2>2, OneNormalForm
<1>5. Matches(conf, b) <=>
          /\ c.project \in {Unset, b.project} /\ c.user \in {Unset, b.user}
          /\ c.authority = b.authority /\ c.region = b.region
          /\ c.interface = b.interface /\ c.cloudName = b.cloudName /\ c.id = b.id
  BY <1>3, ConfigHolds, EqualBindings DEF Matches
<1>6. /\ c.authority = NormalizeAuthority(e.url) /\ c.interface = EndpointType(e.interface)
      /\ c.cloudName = SelectedCloudName(conf.selection) /\ c.id = e.id
      /\ c.region = e.region /\ c.project = e.project /\ c.user = e.user
  BY <1>3, ConfigHolds
<1> HIDE DEF e, c
<1> QED
  BY <1>1, <1>3, <1>4, <1>5, <1>6


------------------------------------------------------------------------------
(* The steps                                                                 *)

\* What is read and what is recorded are typed.
LEMMA CurrentIsRead ==
    ASSUME TypeOK
    PROVE  Current \in Configurations
BY DEF TypeOK, Current, Configurations

\* A session is as its configuration says, with the place its token is for.
LEMMA SessionHolds ==
    ASSUME Inv, InSession
    PROVE  /\ session \in Bindings /\ session = Binding(seen)
           /\ session.region \in {e.region : e \in Entries}
           /\ session.cloudName \in CloudNames
<1>1. /\ seen \in Configurations /\ Loads(seen) /\ session = Binding(seen)
      /\ Entry(seen) \in Entries
  BY EntryHolds DEF Inv, SessionsAreRead, InSession
<1>2. session \in Bindings /\ session.region = Entry(seen).region
  BY <1>1, BindingHolds, ConfigHolds
<1> QED
  BY <1>1, <1>2 DEF Bindings

\* A reconciliation that ends leaves nothing behind.
LEMMA ReturnInv ==
    ASSUME Inv, Return,
           UNCHANGED <<clouds, selection, secretRV, clusterRV, live, remaining, ckpt, edits>>,
           faults' \in 0..MaxFaults
    PROVE  Inv'
<1>1. TypeOK'
  BY DEF Inv, TypeOK, Return, Goto, Begun
<1>2. SessionsAreRead' /\ FirstRecord'
  BY DEF Return, Goto, SessionsAreRead, FirstRecord, InSession
<1>3. CheckpointHolds'
  BY DEF Inv, CheckpointHolds, Begun, Place, Keystone
<1> QED
  BY <1>1, <1>2, <1>3 DEF Inv

LEMMA ReadInv ==
    ASSUME Inv, Read
    PROVE  Inv'
<1>1. /\ pc = "idle" /\ pc' = "newClient" /\ seen' = Current /\ session' = session /\ Kept
      /\ \/ ckpt = None /\ Loads(Current) /\ goal' = "record"
         \/ ckpt.phase = "credentialDeleteStarted" /\ Loads(Current) /\ goal' = "delete"
  BY DEF Read, Goto, MayResume, Matches
<1>2. goal' = "record" => ~Begun
  BY <1>1 DEF Begun
<1>3. goal' = "delete" => Begun
  BY <1>1 DEF Begun, None
<1>4. TypeOK'
  BY <1>1, <1>3 DEF Inv, TypeOK, Kept, Begun
<1>5. SessionsAreRead'
  <2>1. seen' \in Configurations /\ Loads(seen')
    BY <1>1, CurrentIsRead DEF Inv
  <2> QED
    BY <1>1, <2>1 DEF SessionsAreRead, InSession, Loads
<1>6. FirstRecord' /\ CheckpointHolds'
  BY <1>1, <1>2 DEF Inv, FirstRecord, CheckpointHolds, Kept, Begun, Place, Keystone
<1> QED
  BY <1>4, <1>5, <1>6 DEF Inv

LEMMA NewClientInv ==
    ASSUME Inv, NewClient
    PROVE  Inv'
<1> DEFINE b == Binding(seen)
<1>k. /\ pc = "newClient" /\ goal \in {"record", "delete"} /\ Kept
      /\ UNCHANGED <<clouds, selection, secretRV, clusterRV, live, remaining, ckpt, edits, faults>>
  BY DEF NewClient, Kept, Inv, SessionsAreRead
<1>1. CASE Return
  BY <1>1, <1>k, ReturnInv DEF Inv, TypeOK
<1>2. CASE /\ session' = b /\ seen' = seen /\ goal' = goal
           /\ pc' = IF goal = "delete" THEN "check" ELSE "cleanup"
           /\ b.user # Unset /\ b.project # Unset
           /\ goal = "delete" => b = ckpt.binding
  <2>1. seen \in Configurations /\ Loads(seen) /\ Entry(seen) \in Entries
    BY <1>k, EntryHolds DEF Inv, SessionsAreRead
  <2>2. b \in Bindings /\ b.region = Entry(seen).region
    BY <2>1, BindingHolds, ConfigHolds
  <2> HIDE DEF b
  <2>3. b.region \in {e.region : e \in Entries} /\ b.cloudName \in CloudNames
    BY <2>1, <2>2 DEF Bindings
  <2>4. TypeOK'
    BY <1>2, <1>k, <2>3 DEF Inv, TypeOK, Begun
  <2>5. SessionsAreRead'
    BY <1>2, <1>k, <2>1 DEF SessionsAreRead, InSession, Loads, Binding, Config, b
  <2>6. FirstRecord' /\ CheckpointHolds'
    BY <1>2, <1>k DEF Inv, FirstRecord, CheckpointHolds, Begun, Place, Keystone
  <2> QED
    BY <2>4, <2>5, <2>6 DEF Inv
<1> QED
  BY <1>1, <1>2 DEF NewClient, Goto

LEMMA CleanupInv ==
    ASSUME Inv, CleanupCompletes
    PROVE  Inv'
<1>k. /\ pc = "cleanup" /\ goal = "record" /\ InSession /\ ~Begun
      /\ remaining' = remaining \ {Place(session)}
      /\ UNCHANGED <<clouds, selection, secretRV, clusterRV, live, ckpt, edits, faults>>
  BY DEF CleanupCompletes, Inv, SessionsAreRead, FirstRecord, InSession
<1>c. CheckpointHolds'
  BY <1>k DEF CheckpointHolds, Begun
<1>1. CASE MayRecord(seen, session)
  <2>1. pc' = "check" /\ UNCHANGED <<goal, seen, session>>
    BY <1>1 DEF CleanupCompletes, Go, Goto
  <2>2. TypeOK'
    BY <1>k, <2>1 DEF Inv, TypeOK, Begun
  <2>3. SessionsAreRead'
    BY <1>k, <2>1 DEF Inv, SessionsAreRead, InSession
  <2>4. FirstRecord'
    BY <1>1, <1>k, <2>1 DEF FirstRecord, Begun
  <2> QED
    BY <1>c, <2>2, <2>3, <2>4 DEF Inv
<1>2. CASE ~MayRecord(seen, session)
  <2>1. Return
    BY <1>2 DEF CleanupCompletes
  <2>2. TypeOK'
    BY <1>k, <2>1 DEF Return, Goto, Inv, TypeOK, Begun
  <2> QED
    BY <1>c, <2>1, <2>2 DEF Return, Goto, Inv, SessionsAreRead, FirstRecord, InSession
<1> QED
  BY <1>1, <1>2

LEMMA CheckInv ==
    ASSUME Inv, Check
    PROVE  Inv'
<1>k. /\ pc = "check" /\ InSession
      /\ UNCHANGED <<clouds, selection, secretRV, clusterRV, live, remaining, ckpt, edits, faults>>
  BY DEF Check, Kept, InSession
<1>1. CASE Return
  BY <1>1, <1>k, ReturnInv DEF Inv, TypeOK
<1>2. CASE pc' = (IF goal = "delete" THEN "delete" ELSE "save") /\ UNCHANGED <<goal, seen, session>>
  <2>1. TypeOK'
    BY <1>2, <1>k DEF Inv, TypeOK, Begun
  <2>2. SessionsAreRead'
    BY <1>2, <1>k DEF Inv, SessionsAreRead, InSession
  <2>3. FirstRecord'
    BY <1>2, <1>k DEF Inv, FirstRecord, Begun
  <2>4. CheckpointHolds'
    BY <1>2, <1>k DEF Inv, CheckpointHolds, Begun, Place, Keystone
  <2> QED
    BY <2>1, <2>2, <2>3, <2>4 DEF Inv
<1> QED
  BY <1>1, <1>2 DEF Check, Go, Goto

LEMMA SaveInv ==
    ASSUME Inv, Save
    PROVE  Inv'
<1>k. /\ pc = "save" /\ InSession /\ Return
      /\ UNCHANGED <<clouds, selection, secretRV, live, remaining, edits, faults>>
  BY DEF Save, InSession
<1>1. SessionsAreRead' /\ FirstRecord'
  BY <1>k DEF Return, Goto, SessionsAreRead, FirstRecord, InSession
<1>2. CheckpointHolds' /\ clusterRV' \in Nat
  <2>1. CASE seen.clusterRV # clusterRV
    BY <1>k, <2>1 DEF Save, Inv, TypeOK, CheckpointHolds, Begun, Place, Keystone
  <2>2. CASE seen.clusterRV = clusterRV /\ goal = "record"
    <3>1. ckpt' = Checkpoint("credentialDeleteStarted", session)
      BY <2>2 DEF Save
    <3>2. /\ session \in Bindings /\ ValidBinding(session) /\ Place(session) \notin remaining
      BY <1>k, <2>2, SessionHolds DEF Inv, FirstRecord, MayRecord
    <3>3. /\ ckpt'.phase = "credentialDeleteStarted" /\ ckpt'.binding = session
      BY <3>1 DEF Checkpoint
    <3>4. CheckpointHolds'
      BY <1>k, <3>1, <3>2, <3>3 DEF CheckpointHolds, Checkpoint, ValidBinding, Place,
         Keystone, Valid, NormalizeAuthority, DefaultPort
    <3> QED
      BY <2>2, <3>4 DEF Save, Inv, TypeOK
  <2>3. CASE seen.clusterRV = clusterRV /\ goal # "record"
    <3>1. ckpt' = [ckpt EXCEPT !.phase = "secretDeleteStarted"]
      BY <2>3 DEF Save
    <3>2. Begun
      BY <1>k, <2>3 DEF Inv, TypeOK
    <3>3. /\ ckpt = Checkpoint(ckpt.phase, ckpt.binding)
          /\ ckpt.binding \in Bindings /\ ValidBinding(ckpt.binding)
          /\ Place(ckpt.binding) \notin remaining
      BY <3>2 DEF Inv, CheckpointHolds
    <3>4. ckpt' = Checkpoint("secretDeleteStarted", ckpt.binding)
      BY <3>1, <3>3 DEF Checkpoint
    <3>5. ckpt'.phase = "secretDeleteStarted" /\ ckpt'.binding = ckpt.binding
      BY <3>4 DEF Checkpoint
    <3>6. CheckpointHolds'
      BY <1>k, <3>3, <3>4, <3>5 DEF CheckpointHolds, Checkpoint, ValidBinding, Place,
         Keystone, Valid, NormalizeAuthority, DefaultPort
    <3> QED
      BY <2>3, <3>6 DEF Save, Inv, TypeOK
  <2> QED
    BY <2>1, <2>2, <2>3
<1>3. TypeOK'
  BY <1>k, <1>2 DEF Return, Goto, Inv, TypeOK
<1> QED
  BY <1>1, <1>2, <1>3 DEF Inv

LEMMA DeleteInv ==
    ASSUME Inv, Delete
    PROVE  Inv'
<1>k. /\ pc = "delete" /\ InSession /\ goal = "delete" /\ Begun
      /\ UNCHANGED <<clouds, selection, secretRV, clusterRV, remaining, ckpt, edits, faults>>
      /\ live' \subseteq live
  BY DEF Delete, InSession, Inv, FirstRecord, TypeOK
<1>1. CASE Return /\ live' = live
  BY <1>1, <1>k, ReturnInv DEF Inv, TypeOK
<1>2. CASE pc' = "check" /\ goal' = "confirm" /\ UNCHANGED <<seen, session>>
  <2>1. TypeOK'
    BY <1>2, <1>k DEF Inv, TypeOK, Begun
  <2>2. SessionsAreRead'
    BY <1>2, <1>k DEF Inv, SessionsAreRead, InSession
  <2>3. FirstRecord' /\ CheckpointHolds'
    BY <1>2, <1>k DEF Inv, FirstRecord, CheckpointHolds, Begun, Place, Keystone
  <2> QED
    BY <2>1, <2>2, <2>3 DEF Inv
<1> QED
  BY <1>1, <1>2 DEF Delete, Goto

\* Users touch neither the reconciliation nor the checkpoint.
LEMMA EditInv ==
    ASSUME Inv, EditSecret \/ EditSelection
    PROVE  Inv'
<1>1. UNCHANGED <<live, remaining, ckpt, pc, goal, seen, session, faults>>
  BY DEF EditSecret, EditSelection
<1>2. TypeOK'
  <2>1. CASE EditSecret
    BY <2>1, SessionAssumption DEF EditSecret, Inv, TypeOK, Begun
  <2>2. CASE EditSelection
    BY <2>2, SessionAssumption DEF EditSelection, Inv, TypeOK, Begun
  <2> QED
    BY <2>1, <2>2
<1>3. SessionsAreRead'
  BY <1>1 DEF Inv, SessionsAreRead, InSession
<1>4. FirstRecord' /\ CheckpointHolds'
  BY <1>1 DEF Inv, FirstRecord, CheckpointHolds, Begun, Place, Keystone
<1> QED
  BY <1>2, <1>3, <1>4 DEF Inv

LEMMA NextInv ==
    ASSUME Inv, [Next]_vars
    PROVE  Inv'
<1>1. CASE CleanupWaits
  BY <1>1, ReturnInv DEF CleanupWaits, Kept, Inv, TypeOK
<1>2. CASE Fail
  BY <1>2, ReturnInv, SessionAssumption DEF Fail, Inv, TypeOK
<1>3. CASE UNCHANGED vars
  <2>1. TypeOK' /\ SessionsAreRead'
    BY <1>3 DEF vars, Inv, TypeOK, SessionsAreRead, InSession, Begun
  <2>2. FirstRecord' /\ CheckpointHolds'
    BY <1>3 DEF vars, Inv, FirstRecord, CheckpointHolds, Begun, Place, Keystone
  <2> QED
    BY <2>1, <2>2 DEF Inv
<1> QED
  BY <1>1, <1>2, <1>3, ReadInv, NewClientInv, CleanupInv, CheckInv, SaveInv, DeleteInv, EditInv
     DEF Next, Step

LEMMA InitInv == Init => Inv
<1> SUFFICES ASSUME Init PROVE Inv
  OBVIOUS
<1>1. TypeOK
  BY SessionAssumption DEF Init, TypeOK, Begun
<1>2. SessionsAreRead /\ FirstRecord /\ CheckpointHolds
  BY DEF Init, SessionsAreRead, InSession, FirstRecord, CheckpointHolds, Begun
<1> QED
  BY <1>1, <1>2 DEF Inv

------------------------------------------------------------------------------
(* The theorems                                                              *)

\* A session stays the binding of what was read, and what is recorded has been
\* checked and verified clean.
THEOREM SessionInv == Spec => []Inv
<1>1. Inv /\ [Next]_vars => Inv'
  BY NextInv
<1> QED
  BY <1>1, InitInv, PTL DEF Spec

\* Every variable of a session has its type.
THEOREM SessionTypes == Spec => []TypeOK
<1>1. Inv => TypeOK
  BY DEF Inv
<1> QED
  BY <1>1, SessionInv, PTL

\* The controller can always read back the checkpoint it has stored.
THEOREM CheckpointsAreReadable == Spec => []StoredCheckpointIsReadable
<1>1. Inv => StoredCheckpointIsReadable
  BY DEF Inv, CheckpointHolds, StoredCheckpointIsReadable
<1> QED
  BY <1>1, SessionInv, PTL

\* A deletion is resumed exactly under the configurations that mean the
\* recorded credential, for every spelling a configuration can have.
THEOREM ResumptionIsExact == Spec => []ResumesExactlyTheRecorded
<1>1. Inv => ResumesExactlyTheRecorded
  BY CurrentIsRead, MatchesTheRecorded DEF Inv, CheckpointHolds, ResumesExactlyTheRecorded,
     MayResume
<1> QED
  BY <1>1, SessionInv, PTL

\* What a session destroys is the credential of the entry it has read, and the
\* place of its token is that of the checkpoint.
LEMMA DeletedIsVerified ==
    ASSUME Inv, [Next]_vars, NEW k \in live \ live'
    PROVE  /\ Begun /\ k = Credential(ckpt.binding)
           /\ k = <<KeystoneOf[<<Entry(seen).url.host, Entry(seen).url.path>>], Entry(seen).id>>
           /\ <<k[1], TokenOf[k].project, Entry(seen).region>> \notin remaining
<1>1. /\ pc = "delete" /\ live' = live \ {Credential(session)}
  BY DEF Next, Step, Read, NewClient, CleanupWaits, CleanupCompletes, Check, Save, Delete,
     Fail, EditSecret, EditSelection, Kept, vars
<1>2. /\ goal = "delete" /\ Begun /\ session = ckpt.binding /\ k = Credential(session)
  BY <1>1 DEF Inv, FirstRecord, TypeOK
<1>3. seen \in Configurations /\ Loads(seen) /\ session = Binding(seen)
  BY <1>1 DEF Inv, SessionsAreRead, InSession
<1>4. /\ Credential(session) = Credential(Config(seen))
      /\ session.authority = Config(seen).authority /\ session.region = Config(seen).region
      /\ session.project = TokenOf[Credential(session)].project
  BY <1>3, BindingHolds
<1>5. /\ Keystone(Config(seen).authority) =
             KeystoneOf[<<Entry(seen).url.host, Entry(seen).url.path>>]
      /\ Config(seen).id = Entry(seen).id /\ Config(seen).region = Entry(seen).region
  BY <1>3, ConfigHolds
<1>6. k = <<KeystoneOf[<<Entry(seen).url.host, Entry(seen).url.path>>], Entry(seen).id>>
  BY <1>2, <1>4, <1>5 DEF Credential
<1>7. Place(session) = <<k[1], TokenOf[k].project, Entry(seen).region>>
  BY <1>2, <1>4, <1>5, <1>6 DEF Place
<1>8. Place(session) \notin remaining
  BY <1>2 DEF Inv, CheckpointHolds
<1> QED
  BY <1>2, <1>6, <1>7, <1>8

\* A credential is destroyed only by a session for the recorded binding, whose
\* project and region have been verified to hold nothing any more.
THEOREM DestructionIsVerified == Spec => DestroyedWhereVerified
<1> DEFINE Verified ==
        \A k \in live \ live' :
            LET e == seen.clouds[SelectedCloudName(seen.selection)] IN
            /\ Begun /\ k = Credential(ckpt.binding)
            /\ k = <<KeystoneOf[<<e.url.host, e.url.path>>], e.id>>
            /\ <<k[1], TokenOf[k].project, e.region>> \notin remaining
<1>1. Inv /\ [Next]_vars => [Verified]_vars
  <2> SUFFICES ASSUME Inv, [Next]_vars PROVE Verified
    OBVIOUS
  <2> QED
    BY DeletedIsVerified DEF Entry
<1> QED
  BY <1>1, SessionInv, PTL DEF Spec, DestroyedWhereVerified
==============================================================================
