------------------------------ MODULE Onboarding ------------------------------
(***************************************************************************)
(* The company profile (src/onboarding.py): upload, removal and approval,  *)
(* served by request threads that interleave freely, and the evidence they *)
(* hand to requirement matching, to which two endpoints add more.          *)
(*                                                                         *)
(* One company.  A profile version is known by its version_no, unique per  *)
(* company.  Nobody reads a version before it becomes the current one, so  *)
(* what one document brings (its row, chunks and facts), and the rows of   *)
(* _build_scope, are a step each although they commit one by one.  Stored  *)
(* files are written before their rows and never deleted.                  *)
(***************************************************************************)
EXTENDS Naturals, FiniteSets

CONSTANTS
    Requests,     \* threads that serve the onboarding endpoints
    Documents,    \* contents of company documents, by their hash
    Readable,     \* those with a supported format and some text
    Domains,      \* regulatory domains with a scope rule
    Evidenced,    \* domains a document's facts make mandatory
    Implied,      \* domains a mandatory one leaves to be confirmed
    Edits,        \* what an approval may enter as the profile's attributes
    Kinds,        \* document_kind of an ingested document
    Uploads,      \* bound: documents, and kinds, ingested by the endpoints
    Statuses,     \* the statuses of ScopeUpdate
    Updates,      \* bound: the scope updates an approval may ask for
    Roles,        \* roles of the users who approve
    NoEdit,       \* placeholder: no attributes stored
    MaxVersion,   \* bound: requests that create versions stop at it
    MayFail       \* whether a step may raise, or the process die

ASSUME ReadableAssumption == Readable \subseteq Documents
ASSUME DomainAssumption ==
    /\ Evidenced \in [Documents -> SUBSET Domains]
    /\ Implied \in [Domains -> SUBSET Domains]
    /\ Updates \subseteq UNION {[named -> Statuses] : named \in SUBSET Domains}
ASSUME KindAssumption == Uploads \subseteq Readable \X Kinds /\ "other" \in Kinds
ASSUME StatusAssumption ==
    Statuses = {"confirmed", "proposed", "needs_confirmation", "removed"}
ASSUME OnboardingBounds == MaxVersion \in Nat /\ MayFail \in BOOLEAN
ASSUME OnboardingPlaceholder == NoEdit \notin Edits

Versions == 1..MaxVersion

VARIABLES
    profile,     \* company_profiles row: current version (0 for NULL), status
    step,        \* onboarding_status: its current_step
    versions,    \* company_profile_versions rows and their documents
    scope,       \* company_regulatory_scope rows
    snapshots,   \* attributes in the company_snapshots row of a version
    evidence,    \* company_documents rows of a version's snapshot: their
                 \* identity is content and kind
    pc,          \* where the request is
    request      \* what it works on

profileTables == <<profile, step, versions, scope, snapshots, evidence>>
onboardingVars == <<profileTables, pc, request>>

Version == [status : {"absent", "draft", "approved"},
            documents : SUBSET Documents, payload : Edits \cup {NoEdit}]

Scope == [classification : {"absent", "mandatory", "needs_confirmation",
                            "user_added"},
          status : Statuses, override : BOOLEAN]

(* files: the documents of the version to create; removed: the one it is   *)
(* created to drop; version: its number, or the version to approve; fresh: *)
(* no profile was found; seen: the scope rows found for approval.          *)
Request == [files : SUBSET Documents, removed : SUBSET Documents,
            version : 0..MaxVersion, fresh : BOOLEAN, seen : SUBSET Domains,
            updates : Updates \cup {<<>>}, edit : Edits \cup {NoEdit},
            role : Roles \cup {"none"}]

NoVersion == [status |-> "absent", documents |-> {}, payload |-> NoEdit]
NoScope == [classification |-> "absent", status |-> "proposed", override |-> FALSE]
NoRequest == [files |-> {}, removed |-> {}, version |-> 0, fresh |-> FALSE,
              seen |-> {}, updates |-> <<>>, edit |-> NoEdit, role |-> "none"]

Creating == {"number", "insert", "store", "build", "publish"}
Approving == {"update", "snapshot", "materialize", "approve"}

OnboardingTypeOK ==
    /\ profile \in [current : 0..MaxVersion,
                    status : {"absent", "onboarding", "approved"}]
    /\ step \in {"absent", "upload", "review_scope", "dashboard"}
    /\ versions \in [Versions -> Version]
    /\ scope \in [Versions -> [Domains -> Scope]]
    /\ snapshots \in [Versions -> Edits \cup {NoEdit}]
    /\ evidence \in [Versions -> SUBSET (Documents \X Kinds)]
    /\ pc \in [Requests -> Creating \cup Approving \cup {"idle"}]
    /\ request \in [Requests -> Request]
    /\ \A q \in Requests :
         pc[q] \in (Creating \cup Approving) \ {"number"} => request[q].version # 0

OnboardingInit ==
    /\ profile = [current |-> 0, status |-> "absent"]
    /\ step = "absent"
    /\ versions = [v \in Versions |-> NoVersion]
    /\ scope = [v \in Versions |-> [c \in Domains |-> NoScope]]
    /\ snapshots = [v \in Versions |-> NoEdit]
    /\ evidence = [v \in Versions |-> {}]
    /\ pc = [q \in Requests |-> "idle"]
    /\ request = [q \in Requests |-> NoRequest]

-----------------------------------------------------------------------------
Goto(q, l) == pc' = [pc EXCEPT ![q] = l]

Begin(q, l, asked) ==
    /\ pc[q] = "idle"
    /\ Goto(q, l)
    /\ request' = [request EXCEPT ![q] = asked]
    /\ UNCHANGED profileTables

(* The request is answered, or ends with an error.                         *)
Return(q) ==
    /\ pc' = [pc EXCEPT ![q] = "idle"]
    /\ request' = [request EXCEPT ![q] = NoRequest]

(* Documents of the version the profile points to.                         *)
CurrentDocuments ==
    IF profile.current = 0 THEN {} ELSE versions[profile.current].documents

Stored == {v \in Versions : versions[v].status # "absent"}

(* COALESCE(MAX(version_no), 0) + 1                                        *)
NextNumber == CHOOSE n \in 1 .. MaxVersion + 1 :
                 /\ \A v \in Stored : v < n
                 /\ n = 1 \/ n - 1 \in Stored

(* The scope rules: what the facts of these documents make of a domain.    *)
Classification(documents, c) ==
    LET facts == UNION {Evidenced[d] : d \in documents}
    IN  IF c \in facts THEN "mandatory"
        ELSE IF \E f \in facts : c \in Implied[f] THEN "needs_confirmation"
        ELSE "absent"

-----------------------------------------------------------------------------
(* Mutants, each an action below with one mistake: nothing is validated;   *)
(* the status is written to the step; the rebuild after a removal retains  *)
(* what the profile had; approval does not wait for its evidence; a new    *)
(* approval replaces the snapshot.                                         *)
UploadAnything(q, files) ==
    /\ files # {}
    /\ Begin(q, "number", [NoRequest EXCEPT !.files = files \cup CurrentDocuments])

ApprovedSwappingColumns(q) ==
    LET r == request[q] IN
    /\ pc[q] = "approve"
    /\ versions' = [versions EXCEPT ![r.version].status = "approved",
                                    ![r.version].payload = r.edit]
    /\ profile' = [profile EXCEPT !.status = "approved"]
    /\ step' = "completed"
    /\ Return(q)
    /\ UNCHANGED <<scope, snapshots, evidence>>

RemoveRetaining(q, d) ==
    /\ d \in CurrentDocuments
    /\ Begin(q, "number", [NoRequest EXCEPT !.removed = {d},
                !.files = IF CurrentDocuments = {d} THEN {} ELSE CurrentDocuments])

SkipMaterialize(q) ==
    /\ pc[q] = "materialize"
    /\ Goto(q, "approve")
    /\ UNCHANGED <<profileTables, request>>

ReplaceSnapshot(q) ==
    /\ pc[q] = "snapshot"
    /\ snapshots' = [snapshots EXCEPT ![request[q].version] = request[q].edit]
    /\ Goto(q, "materialize")
    /\ UNCHANGED <<profile, step, versions, scope, evidence, request>>

-----------------------------------------------------------------------------
(* Upload and removal.                                                     *)

(* create_profile_from_documents adds the current version's documents and  *)
(* validates all of them before it writes: a bad one changes nothing.      *)
Upload(q, files) ==
    /\ files # {} /\ files \subseteq Readable
    /\ Begin(q, "number", [NoRequest EXCEPT !.files = files \cup CurrentDocuments])

(* remove_profile_document: a new version of the documents that are left.  *)
Remove(q, d) ==
    /\ d \in CurrentDocuments
    /\ Begin(q, "number", [NoRequest EXCEPT !.removed = {d},
                                            !.files = CurrentDocuments \ {d}])

(* The number is read before the INSERT opens a transaction.               *)
ReadNumber(q) ==
    /\ pc[q] = "number"
    /\ NextNumber <= MaxVersion
    /\ request' = [request EXCEPT ![q].version = NextNumber,
                                  ![q].fresh = (profile.status = "absent")]
    /\ Goto(q, "insert")
    /\ UNCHANGED profileTables

(* It fails if the profile, or the number, was inserted meanwhile.  Without*)
(* documents left the new version is current at once.                      *)
InsertVersion(q) ==
    LET r == request[q] IN
    /\ pc[q] = "insert"
    /\ IF versions[r.version].status = "absent" /\ r.fresh = (profile.status = "absent")
       THEN /\ versions' = [versions EXCEPT ![r.version].status = "draft"]
            /\ IF r.files = {}
               THEN /\ profile' = [current |-> r.version, status |-> "onboarding"]
                    /\ step' = "upload"
                    /\ Return(q)
               ELSE /\ profile' = IF r.fresh THEN [profile EXCEPT !.status = "onboarding"]
                                  ELSE profile
                    /\ Goto(q, "store")
                    /\ UNCHANGED <<step, request>>
       ELSE Return(q) /\ UNCHANGED <<profile, step, versions>>
    /\ UNCHANGED <<scope, snapshots, evidence>>

(* In the order of the list; nothing here depends on it.                   *)
StoreDocument(q, d) ==
    LET r == request[q] IN
    /\ pc[q] = "store"
    /\ d \in r.files \ versions[r.version].documents
    /\ versions' = [versions EXCEPT ![r.version].documents = @ \cup {d}]
    /\ Goto(q, IF r.files \subseteq versions[r.version].documents \cup {d}
               THEN "build" ELSE "store")
    /\ UNCHANGED <<profile, step, scope, snapshots, evidence, request>>

BuildScope(q) ==
    LET v == request[q].version IN
    /\ pc[q] = "build"
    /\ scope' = [scope EXCEPT ![v] = [c \in Domains |->
            [NoScope EXCEPT !.classification =
                Classification(versions[v].documents, c)]]]
    /\ Goto(q, "publish")
    /\ UNCHANGED <<profile, step, versions, snapshots, evidence, request>>

(* The profile's own status stays what it was.                             *)
Publish(q) ==
    /\ pc[q] = "publish"
    /\ profile' = [profile EXCEPT !.current = request[q].version]
    /\ step' = "review_scope"
    /\ Return(q)
    /\ UNCHANGED <<versions, scope, snapshots, evidence>>

-----------------------------------------------------------------------------
(* Approval.                                                               *)

(* The version is compared with the expected one, once; a request that     *)
(* expects another changes nothing.                                        *)
Approve(q, updates, edit, role) ==
    /\ profile.current # 0
    /\ Begin(q, "update",
             [NoRequest EXCEPT !.version = profile.current,
                !.updates = updates, !.edit = edit, !.role = role,
                !.seen = {c \in Domains :
                    scope[profile.current][c].classification # "absent"}])

(* The domains the request names, of which each has its status; the others *)
(* stay.  A row that appeared since it was looked for fails the insert, and*)
(* all updates are one transaction.                                        *)
UpdateScope(q) ==
    LET r == request[q]
        rows == scope[r.version]
        named == DOMAIN r.updates
        refused == /\ r.role # "admin"
                   /\ \E c \in r.seen \cap named :
                        /\ rows[c].classification = "mandatory"
                        /\ r.updates[c] = "removed"
        duplicate == \E c \in named \ r.seen : rows[c].classification # "absent"
    IN
    /\ pc[q] = "update"
    /\ IF refused \/ duplicate
       THEN Return(q) /\ UNCHANGED scope
       ELSE /\ scope' = [scope EXCEPT ![r.version] = [c \in Domains |->
                IF c \notin named THEN rows[c]
                ELSE [classification |-> IF c \in r.seen THEN rows[c].classification
                                         ELSE "user_added",
                      status |-> r.updates[c],
                      override |-> /\ c \in r.seen /\ r.role = "admin"
                                   /\ r.updates[c] = "removed"]]]
            /\ Goto(q, "snapshot")
            /\ request' = [request EXCEPT ![q] = [NoRequest EXCEPT
                                !.version = r.version, !.edit = r.edit]]
    /\ UNCHANGED <<profile, step, versions, snapshots, evidence>>

(* insert_company_snapshot keeps the row of an earlier approval.           *)
InsertSnapshot(q) ==
    LET r == request[q] IN
    /\ pc[q] = "snapshot"
    /\ snapshots' = [snapshots EXCEPT ![r.version] = IF @ = NoEdit THEN r.edit ELSE @]
    /\ Goto(q, "materialize")
    /\ UNCHANGED <<profile, step, versions, scope, evidence, request>>

(* Strict: each document of the version is ingested, or the request fails. *)
Materialize(q) ==
    LET v == request[q].version
        left == (versions[v].documents \X {"other"}) \ evidence[v]
    IN
    /\ pc[q] = "materialize"
    /\ \/ /\ left = {}
          /\ Goto(q, "approve")
          /\ UNCHANGED evidence
       \/ /\ \E item \in left : evidence' = [evidence EXCEPT ![v] = @ \cup {item}]
          /\ UNCHANGED pc
    /\ UNCHANGED <<profile, step, versions, scope, snapshots, request>>

(* The last transaction.  It does not ask whether the version it approves  *)
(* is still the current one.                                               *)
Approved(q) ==
    LET r == request[q] IN
    /\ pc[q] = "approve"
    /\ versions' = [versions EXCEPT ![r.version].status = "approved",
                                    ![r.version].payload = r.edit]
    /\ profile' = [profile EXCEPT !.status = "approved"]
    /\ step' = "dashboard"
    /\ Return(q)
    /\ UNCHANGED <<scope, snapshots, evidence>>

(* ingest_company_document, behind /company-documents/upload and           *)
(* /compliance-reviews/upload: any readable document, for any snapshot that*)
(* exists, whether or not its approval was completed.                      *)
AddDocument(v, item) ==
    /\ snapshots[v] # NoEdit
    /\ evidence' = [evidence EXCEPT ![v] = @ \cup {item}]
    /\ UNCHANGED <<profile, step, versions, scope, snapshots, pc, request>>

-----------------------------------------------------------------------------
(* A step raises before its transaction commits.  The process dies with    *)
(* every request under way, which is the failure of each of them.          *)
Fail(q) ==
    /\ MayFail
    /\ pc[q] # "idle"
    /\ Return(q)
    /\ UNCHANGED profileTables

OnboardingNext ==
  \/ \E v \in Versions, item \in Uploads : AddDocument(v, item)
  \/ \E q \in Requests :
        \/ \E files \in SUBSET Documents : Upload(q, files)
        \/ \E d \in Documents : Remove(q, d)
        \/ ReadNumber(q)
        \/ InsertVersion(q)
        \/ \E d \in Documents : StoreDocument(q, d)
        \/ BuildScope(q)
        \/ Publish(q)
        \/ \E u \in Updates, e \in Edits, role \in Roles : Approve(q, u, e, role)
        \/ UpdateScope(q)
        \/ InsertSnapshot(q)
        \/ Materialize(q)
        \/ Approved(q)
        \/ Fail(q)

OnboardingSpec == OnboardingInit /\ [][OnboardingNext]_onboardingVars

-----------------------------------------------------------------------------
(* Properties.                                                             *)

(* Whatever fails or races, the profile never points to a half-built       *)
(* version (onboarding.py:208-210): every document of the current one is   *)
(* readable, and its scope has exactly the rows its documents' facts call  *)
(* for, beside those a user added.                                         *)
CurrentIsBuilt ==
    LET v == profile.current IN v # 0 =>
        /\ versions[v].status # "absent"
        /\ versions[v].documents \subseteq Readable
        /\ step # "absent"
        /\ \A c \in Domains :
             scope[v][c].classification \in
                IF Classification(versions[v].documents, c) = "absent"
                THEN {"absent", "user_added"}
                ELSE {Classification(versions[v].documents, c)}

(* An approved version has its snapshot, and every one of its documents is *)
(* evidence for requirement matching, beside any that the endpoints of     *)
(* app.py:313 and app.py:373 added: approval is told apart from its        *)
(* interrupted attempts.  What is evidence has text and a snapshot.        *)
ApprovedHasEvidence ==
    \A v \in Versions :
        /\ versions[v].status = "approved" =>
              /\ snapshots[v] # NoEdit
              /\ versions[v].documents \X {"other"} \subseteq evidence[v]
        /\ evidence[v] # {} => snapshots[v] # NoEdit
        /\ evidence[v] \subseteq Readable \X Kinds

(* What an analysis was based on is not rewritten: a snapshot keeps its    *)
(* attributes, a published version its documents and its evidence, an      *)
(* approved one its approval.                                              *)
ProfileHistoryIsKept ==
    [][\A v \in Versions :
        /\ snapshots[v] # NoEdit => snapshots'[v] = snapshots[v]
        /\ evidence[v] \subseteq evidence'[v]
        /\ profile.current = v => versions'[v].documents = versions[v].documents
        /\ versions[v].status = "approved" =>
              /\ versions'[v].status = "approved"
              /\ versions'[v].documents = versions[v].documents]_onboardingVars

(* A document that was removed is not in the version that results          *)
(* (onboarding.py:372-374), whatever was uploaded meanwhile.               *)
RemovalDrops ==
    [][\A q \in Requests :
        /\ pc[q] \in {"insert", "publish"} /\ pc'[q] = "idle"
        /\ profile'.current # profile.current
        => versions'[profile'.current].documents \cap request[q].removed = {}
      ]_onboardingVars
=============================================================================
