--------------------------- MODULE OnboardingProofs ---------------------------
(***************************************************************************)
(* Proofs about Onboarding, for any number of requests, documents, domains *)
(* and versions.                                                           *)
(***************************************************************************)
EXTENDS Onboarding, FoldLemmas, TLAPS

-----------------------------------------------------------------------------
(* Version numbers.                                                        *)

(* The number read for a new version is one above the stored ones.         *)
LEMMA NextNumberIsNumber ==
    NextNumber \in 1 .. MaxVersion + 1
<1> DEFINE T == {n \in 1 .. MaxVersion + 1 : \A v \in Stored : v < n}
<1>0. MaxVersion \in Nat /\ Stored \subseteq 1..MaxVersion
  BY OnboardingBounds DEF Stored, Versions
<1>1. T \in SUBSET Nat /\ MaxVersion + 1 \in T
  BY <1>0
<1>2. PICK n \in T : \A k \in T : n <= k
  BY <1>1, LeastNatural
<1>3. n = 1 \/ n - 1 \in Stored
  <2> SUFFICES ASSUME n # 1, n - 1 \notin Stored PROVE FALSE
    OBVIOUS
  <2>1. n - 1 \in T
    BY <1>0
  <2> QED BY <1>2, <2>1
<1> QED BY <1>3 DEF NextNumber

-----------------------------------------------------------------------------
(* The inductive invariant.                                                *)

(* Between its INSERT and its publication a version belongs to the request *)
(* that creates it.                                                        *)
Owning == {"store", "build", "publish"}
Owned(v) == \E q \in Requests : pc[q] \in Owning /\ request[q].version = v

ScopeFollows(v) ==
    \A c \in Domains :
        scope[v][c].classification \in
            IF Classification(versions[v].documents, c) = "absent"
            THEN {"absent", "user_added"}
            ELSE {Classification(versions[v].documents, c)}

(* What is true of a version from its publication on.                      *)
Built(v) ==
    /\ versions[v].status # "absent"
    /\ versions[v].documents \subseteq Readable
    /\ ScopeFollows(v)
    /\ ~Owned(v)

(* Every document of the version is evidence, as its approval ingests it.  *)
AllIngested(v) == versions[v].documents \X {"other"} \subseteq evidence[v]

VersionInv(v) ==
    /\ versions[v].status = "absent" =>
         /\ versions[v].documents = {}
         /\ scope[v] = [c \in Domains |-> NoScope]
         /\ snapshots[v] = NoEdit
    /\ evidence[v] # {} => snapshots[v] # NoEdit
    /\ evidence[v] \subseteq Readable \X Kinds
    /\ versions[v].status = "approved" =>
         /\ Built(v)
         /\ snapshots[v] # NoEdit
         /\ AllIngested(v)

(* What a request relies on between its steps, by what it creates and by   *)
(* what it approves.                                                       *)
CreationInv(q) ==
    /\ pc[q] \in Creating =>
         /\ request[q].files \subseteq Readable
         /\ request[q].files \cap request[q].removed = {}
    /\ pc[q] \in Owning =>
         /\ versions[request[q].version].status = "draft"
         /\ profile.current # request[q].version
         /\ versions[request[q].version].documents \subseteq request[q].files
    /\ pc[q] \in {"build", "publish"} =>
         versions[request[q].version].documents = request[q].files
    /\ pc[q] = "publish" => ScopeFollows(request[q].version)

ApprovalInv(q) ==
    /\ pc[q] \in Approving => Built(request[q].version) /\ request[q].edit \in Edits
    /\ pc[q] = "update" => request[q].updates \in Updates
    /\ pc[q] \in {"materialize", "approve"} =>
         snapshots[request[q].version] # NoEdit
    /\ pc[q] = "approve" => AllIngested(request[q].version)

SoleOwner ==
    \A p, q \in Requests :
        pc[p] \in Owning /\ pc[q] \in Owning /\ request[p].version = request[q].version
            => p = q

CurrentInv == profile.current # 0 => Built(profile.current) /\ step # "absent"

OnboardingInv ==
    /\ \A v \in Versions : VersionInv(v)
    /\ \A q \in Requests : CreationInv(q) /\ ApprovalInv(q)
    /\ SoleOwner
    /\ CurrentInv

-----------------------------------------------------------------------------
(* Types.                                                                  *)

LEMMA InitTypeOK == OnboardingInit => OnboardingTypeOK
BY OnboardingBounds, StatusAssumption
DEF OnboardingInit, OnboardingTypeOK, Versions, Version, Scope, Request,
    NoVersion, NoScope, NoRequest, Creating, Approving

LEMMA NoRequestIsRequest == NoRequest \in Request
BY OnboardingBounds DEF NoRequest, Request

LEMMA CurrentDocumentsType ==
    ASSUME OnboardingTypeOK
    PROVE  CurrentDocuments \subseteq Documents
BY DEF CurrentDocuments, OnboardingTypeOK, Version, Versions

(* A request that ends, or goes on as a well-typed one.                    *)
RequestsTypeOK ==
    /\ pc \in [Requests -> Creating \cup Approving \cup {"idle"}]
    /\ request \in [Requests -> Request]
    /\ \A q \in Requests :
         pc[q] \in (Creating \cup Approving) \ {"number"} => request[q].version # 0

LEMMA ReturnTypeOK ==
    ASSUME OnboardingTypeOK, NEW q \in Requests, Return(q)
    PROVE  RequestsTypeOK'
BY NoRequestIsRequest DEF OnboardingTypeOK, RequestsTypeOK, Return, Creating, Approving

LEMMA GotoTypeOK ==
    ASSUME OnboardingTypeOK, NEW q \in Requests, NEW r \in Request,
           NEW l \in Creating \cup Approving, l = "number" \/ r.version # 0,
           Goto(q, l), request' = [request EXCEPT ![q] = r]
    PROVE  RequestsTypeOK'
BY DEF OnboardingTypeOK, RequestsTypeOK, Goto, Creating, Approving

LEMMA GoOnTypeOK ==
    ASSUME OnboardingTypeOK, NEW q \in Requests, pc[q] \notin {"idle", "number"},
           NEW l \in Creating \cup Approving, Goto(q, l), UNCHANGED request
    PROVE  RequestsTypeOK'
BY DEF OnboardingTypeOK, RequestsTypeOK, Goto, Creating, Approving

LEMMA BeginTypeOK ==
    ASSUME OnboardingTypeOK, NEW q \in Requests, NEW r \in Request,
           NEW l \in Creating \cup Approving, l = "number" \/ r.version # 0,
           Begin(q, l, r)
    PROVE  OnboardingTypeOK'
BY GotoTypeOK DEF OnboardingTypeOK, RequestsTypeOK, Begin, profileTables

(* No step takes any variable out of its type.                             *)
LEMMA NextTypeOK ==
    ASSUME OnboardingTypeOK, OnboardingInv, [OnboardingNext]_onboardingVars
    PROVE  OnboardingTypeOK'
<1>1. ASSUME NEW q \in Requests, NEW files \in SUBSET Documents, Upload(q, files)
      PROVE  OnboardingTypeOK'
  <2> DEFINE all == files \cup CurrentDocuments
  <2>1. all \in SUBSET Documents
    BY CurrentDocumentsType
  <2>2. Begin(q, "number", [NoRequest EXCEPT !.files = all])
    BY <1>1 DEF Upload
  <2> HIDE DEF all
  <2>3. [NoRequest EXCEPT !.files = all] \in Request
    BY <2>1, NoRequestIsRequest DEF Request
  <2> QED BY <2>2, <2>3, BeginTypeOK DEF Creating
<1>2. ASSUME NEW q \in Requests, NEW d \in Documents, Remove(q, d)
      PROVE  OnboardingTypeOK'
  <2> DEFINE left == CurrentDocuments \ {d}
             gone == {d}
  <2>1. left \in SUBSET Documents /\ gone \in SUBSET Documents
    BY CurrentDocumentsType
  <2>2. Begin(q, "number", [NoRequest EXCEPT !.removed = gone, !.files = left])
    BY <1>2 DEF Remove
  <2> HIDE DEF left, gone
  <2>3. [NoRequest EXCEPT !.removed = gone, !.files = left] \in Request
    BY <2>1, NoRequestIsRequest DEF Request
  <2> QED BY <2>2, <2>3, BeginTypeOK DEF Creating
<1>3. ASSUME NEW q \in Requests, ReadNumber(q)
      PROVE  OnboardingTypeOK'
  <2> DEFINE n == NextNumber
             fresh == profile.status = "absent"
  <2>1. n \in 0..MaxVersion /\ n # 0 /\ fresh \in BOOLEAN
    BY <1>3, NextNumberIsNumber, OnboardingBounds DEF ReadNumber
  <2>2. request' = [request EXCEPT ![q] = [@ EXCEPT !.version = n, !.fresh = fresh]]
    BY <1>3 DEF ReadNumber
  <2> HIDE DEF n, fresh
  <2>3. request[q] \in Request
    BY DEF OnboardingTypeOK
  <2>4. [request[q] EXCEPT !.version = n, !.fresh = fresh] \in Request
    BY <2>1, <2>3 DEF Request
  <2>5. RequestsTypeOK'
    <3>1. [request[q] EXCEPT !.version = n, !.fresh = fresh].version # 0
      BY <2>1, <2>3 DEF Request
    <3> QED BY <1>3, <2>2, <2>4, <3>1, GotoTypeOK DEF ReadNumber, Creating
  <2> QED BY <1>3, <2>5 DEF ReadNumber, profileTables, OnboardingTypeOK, RequestsTypeOK
<1>4. ASSUME NEW q \in Requests, InsertVersion(q)
      PROVE  OnboardingTypeOK'
  <2>1. request[q].version \in Versions
    BY <1>4 DEF InsertVersion, OnboardingTypeOK, Request, Versions, Creating
  <2>2. CASE ~ (/\ versions[request[q].version].status = "absent"
                /\ request[q].fresh = (profile.status = "absent"))
    BY <1>4, <2>2, ReturnTypeOK DEF InsertVersion, OnboardingTypeOK, RequestsTypeOK
  <2>3. CASE /\ versions[request[q].version].status = "absent"
             /\ request[q].fresh = (profile.status = "absent")
    <3>0. versions[request[q].version] \in Version
      BY <2>1 DEF OnboardingTypeOK
    <3>1. [versions[request[q].version] EXCEPT !.status = "draft"] \in Version
      BY <3>0 DEF Version
    <3>. versions' \in [Versions -> Version]
      BY <1>4, <2>3, <3>1 DEF InsertVersion, OnboardingTypeOK
    <3>2. CASE request[q].files = {}
      BY <1>4, <2>1, <2>3, <3>2, ReturnTypeOK
      DEF InsertVersion, OnboardingTypeOK, RequestsTypeOK, Versions
    <3>3. CASE request[q].files # {}
      BY <1>4, <2>1, <2>3, <3>3, GoOnTypeOK
      DEF InsertVersion, OnboardingTypeOK, RequestsTypeOK, Versions, Creating
    <3> QED BY <3>2, <3>3
  <2> QED BY <2>2, <2>3
<1>5. ASSUME NEW q \in Requests, NEW d \in Documents, StoreDocument(q, d)
      PROVE  OnboardingTypeOK'
  <2>1. request[q].version \in Versions
    BY <1>5 DEF StoreDocument, OnboardingTypeOK, Request, Versions, Creating
  <2>2. versions[request[q].version] \in Version
    BY <2>1 DEF OnboardingTypeOK
  <2> DEFINE files == versions[request[q].version].documents \cup {d}
  <2>3. files \in SUBSET Documents
    BY <2>2 DEF Version
  <2>4. versions' = [versions EXCEPT ![request[q].version] = [@ EXCEPT !.documents = files]]
    BY <1>5 DEF StoreDocument
  <2> HIDE DEF files
  <2>5. [versions[request[q].version] EXCEPT !.documents = files] \in Version
    BY <2>2, <2>3 DEF Version
  <2>6. versions' \in [Versions -> Version]
    BY <2>1, <2>4, <2>5 DEF OnboardingTypeOK
  <2>7. RequestsTypeOK'
    BY <1>5, GoOnTypeOK DEF StoreDocument, Creating
  <2> QED BY <1>5, <2>6, <2>7 DEF StoreDocument, OnboardingTypeOK, RequestsTypeOK
<1>6. ASSUME NEW q \in Requests, BuildScope(q)
      PROVE  OnboardingTypeOK'
  <2>1. \A c \in Domains : [NoScope EXCEPT !.classification =
            Classification(versions[request[q].version].documents, c)] \in Scope
    BY StatusAssumption DEF Classification, NoScope, Scope
  <2>2. RequestsTypeOK'
    BY <1>6, GoOnTypeOK DEF BuildScope, Creating
  <2> QED BY <1>6, <2>1, <2>2 DEF BuildScope, OnboardingTypeOK, RequestsTypeOK
<1>7. ASSUME NEW q \in Requests, Publish(q)
      PROVE  OnboardingTypeOK'
  BY <1>7, ReturnTypeOK DEF Publish, OnboardingTypeOK, RequestsTypeOK, Request
<1>8. ASSUME NEW q \in Requests, NEW u \in Updates, NEW e \in Edits, NEW role \in Roles,
             Approve(q, u, e, role)
      PROVE  OnboardingTypeOK'
  <2> DEFINE r == [NoRequest EXCEPT !.version = profile.current,
                !.updates = u, !.edit = e, !.role = role,
                !.seen = {c \in Domains :
                    scope[profile.current][c].classification # "absent"}]
  <2>1. r \in Request /\ r.version # 0
    BY <1>8, OnboardingBounds DEF Approve, NoRequest, Request, OnboardingTypeOK
  <2> QED BY <1>8, <2>1, BeginTypeOK DEF Approve, Approving
<1>9. ASSUME NEW q \in Requests, UpdateScope(q)
      PROVE  OnboardingTypeOK'
  <2> DEFINE v == request[q].version
             e == request[q].edit
             named == DOMAIN request[q].updates
             row(c) == IF c \notin named THEN scope[v][c]
                       ELSE [classification |-> IF c \in request[q].seen
                                 THEN scope[v][c].classification
                                 ELSE "user_added",
                             status |-> request[q].updates[c],
                             override |-> /\ c \in request[q].seen
                                          /\ request[q].role = "admin"
                                          /\ request[q].updates[c] = "removed"]
  <2>0. /\ pc[q] = "update" /\ request[q].updates \in Updates
        /\ v \in 0..MaxVersion /\ v # 0 /\ e \in Edits \cup {NoEdit}
    BY <1>9 DEF UpdateScope, OnboardingTypeOK, Request, Approving, OnboardingInv, ApprovalInv
  <2>1. CASE Return(q) /\ UNCHANGED scope
    BY <1>9, <2>1, ReturnTypeOK DEF UpdateScope, OnboardingTypeOK, RequestsTypeOK
  <2>2. CASE /\ scope' = [scope EXCEPT ![v] = [c \in Domains |-> row(c)]]
             /\ Goto(q, "snapshot")
             /\ request' = [request EXCEPT ![q] = [NoRequest EXCEPT !.version = v, !.edit = e]]
    <3>0. \A c \in named : request[q].updates[c] \in Statuses
      BY <2>0, DomainAssumption
    <3>1. \A c \in Domains : row(c) \in Scope
      <4>1. v \in Versions
        BY <2>0, OnboardingBounds DEF Versions
      <4>2. \A c \in Domains : scope[v][c] \in Scope
        BY <4>1 DEF OnboardingTypeOK
      <4> QED BY <3>0, <4>2 DEF Scope
    <3> HIDE DEF row, v, e
    <3>2. scope' \in [Versions -> [Domains -> Scope]]
      BY <2>2, <3>1 DEF OnboardingTypeOK
    <3>3. /\ [NoRequest EXCEPT !.version = v, !.edit = e] \in Request
          /\ [NoRequest EXCEPT !.version = v, !.edit = e].version # 0
      BY <2>0, NoRequestIsRequest DEF Request
    <3>4. RequestsTypeOK'
      BY <2>2, <3>3, GotoTypeOK DEF Approving
    <3> QED BY <1>9, <3>2, <3>4 DEF UpdateScope, OnboardingTypeOK, RequestsTypeOK
  <2> QED BY <1>9, <2>1, <2>2 DEF UpdateScope
<1>10. ASSUME NEW q \in Requests, InsertSnapshot(q)
       PROVE  OnboardingTypeOK'
  <2>1. RequestsTypeOK'
    BY <1>10, GoOnTypeOK DEF InsertSnapshot, Approving
  <2> QED BY <1>10, <2>1 DEF InsertSnapshot, OnboardingTypeOK, RequestsTypeOK, Request
<1>11. ASSUME NEW q \in Requests, Materialize(q)
       PROVE  OnboardingTypeOK'
  <2>0. request[q].version \in Versions
    BY <1>11, OnboardingBounds
    DEF Materialize, OnboardingTypeOK, Request, Versions, Approving
  <2>1. RequestsTypeOK'
    BY <1>11, GoOnTypeOK DEF Materialize, Approving, OnboardingTypeOK, RequestsTypeOK
  <2>2. versions[request[q].version] \in Version
    BY <2>0 DEF OnboardingTypeOK
  <2>3. evidence' \in [Versions -> SUBSET (Documents \X Kinds)]
    <3>1. versions[request[q].version].documents \X {"other"} \subseteq Documents \X Kinds
      BY <2>2, KindAssumption DEF Version
    <3> QED BY <1>11, <2>0, <3>1 DEF Materialize, OnboardingTypeOK
  <2> QED BY <1>11, <2>1, <2>3 DEF Materialize, OnboardingTypeOK, RequestsTypeOK
<1>12. ASSUME NEW q \in Requests, Approved(q)
       PROVE  OnboardingTypeOK'
  <2> DEFINE v == request[q].version
             e == request[q].edit
  <2>0. v \in Versions /\ e \in Edits \cup {NoEdit}
    BY <1>12, OnboardingBounds DEF Approved, OnboardingTypeOK, Request, Versions, Approving
  <2>1. RequestsTypeOK'
    BY <1>12, ReturnTypeOK DEF Approved
  <2>2. versions[v] \in Version
    BY <2>0 DEF OnboardingTypeOK
  <2>3. versions' = [versions EXCEPT ![v] = [@ EXCEPT !.status = "approved", !.payload = e]]
    BY <1>12, <2>0, <2>2 DEF Approved, OnboardingTypeOK, Version
  <2> HIDE DEF v, e
  <2>4. [versions[v] EXCEPT !.status = "approved", !.payload = e] \in Version
    BY <2>0, <2>2 DEF Version
  <2>5. versions' \in [Versions -> Version]
    BY <2>0, <2>3, <2>4 DEF OnboardingTypeOK
  <2> QED BY <1>12, <2>1, <2>5 DEF Approved, OnboardingTypeOK, RequestsTypeOK
<1>13. ASSUME NEW q \in Requests, Fail(q)
       PROVE  OnboardingTypeOK'
  BY <1>13, ReturnTypeOK DEF Fail, profileTables, OnboardingTypeOK, RequestsTypeOK
<1>14. CASE UNCHANGED onboardingVars
  BY <1>14 DEF onboardingVars, profileTables, OnboardingTypeOK
<1>15. ASSUME NEW v \in Versions, NEW item \in Uploads, AddDocument(v, item)
       PROVE  OnboardingTypeOK'
  <2>1. item \in Documents \X Kinds
    BY KindAssumption, ReadableAssumption
  <2> QED BY <1>15, <2>1 DEF AddDocument, OnboardingTypeOK
<1> QED
  BY <1>1, <1>2, <1>3, <1>4, <1>5, <1>6, <1>7, <1>8, <1>9, <1>10, <1>11, <1>12, <1>13,
     <1>14, <1>15 DEF OnboardingNext

-----------------------------------------------------------------------------
(* The invariant.                                                          *)

LEMMA InitInv == OnboardingInit => OnboardingInv
BY OnboardingBounds
DEF OnboardingInit, OnboardingInv, VersionInv, CreationInv, ApprovalInv, SoleOwner,
    CurrentInv, Versions, NoVersion, Creating, Approving, Owning

(* A version keeps what it had when its publication is behind it, its      *)
(* tables are unchanged and no request starts to own it.                   *)
LEMMA BuiltKept ==
    ASSUME NEW v, Built(v), versions'[v].status # "absent",
           versions'[v].documents = versions[v].documents, scope'[v] = scope[v],
           ~Owned(v)'
    PROVE  Built(v)'
BY DEF Built, ScopeFollows

(* A step that changes nothing but one request, and leaves it owning       *)
(* nothing.                                                                *)
LEMMA TablesKept ==
    ASSUME OnboardingInv, UNCHANGED profileTables, NEW q \in Requests,
           \A p \in Requests \ {q} : pc'[p] = pc[p] /\ request'[p] = request[p],
           pc'[q] \notin Owning, CreationInv(q)', ApprovalInv(q)'
    PROVE  OnboardingInv'
<1>1. \A v : Owned(v)' => Owned(v)
  BY DEF Owned
<1>2. \A v : Built(v) => Built(v)'
  BY <1>1 DEF Built, ScopeFollows, profileTables
<1>3. ASSUME NEW v \in Versions PROVE VersionInv(v)'
  BY <1>2 DEF OnboardingInv, VersionInv, AllIngested, profileTables
<1>4. ASSUME NEW p \in Requests PROVE CreationInv(p)' /\ ApprovalInv(p)'
  <2>1. CASE p = q
    BY <2>1
  <2>2. CASE p # q
    BY <1>2, <2>2 DEF OnboardingInv, CreationInv, ApprovalInv, AllIngested, ScopeFollows,
                     profileTables
  <2> QED BY <2>1, <2>2
<1>5. SoleOwner'
  BY DEF OnboardingInv, SoleOwner
<1>6. CurrentInv'
  BY <1>2 DEF OnboardingInv, CurrentInv, profileTables
<1> QED BY <1>3, <1>4, <1>5, <1>6 DEF OnboardingInv

(* The same, for a request that ends.                                      *)
LEMMA ReturnKept ==
    ASSUME OnboardingTypeOK, OnboardingInv, UNCHANGED profileTables,
           NEW q \in Requests, Return(q)
    PROVE  OnboardingInv'
<1>1. /\ \A p \in Requests \ {q} : pc'[p] = pc[p] /\ request'[p] = request[p]
      /\ pc'[q] = "idle"
  BY DEF Return, OnboardingTypeOK
<1> QED
  BY <1>1, TablesKept DEF CreationInv, ApprovalInv, Creating, Approving, Owning

(* The same, for a request that begins.                                    *)
LEMMA BeginKept ==
    ASSUME OnboardingTypeOK, OnboardingInv, NEW q \in Requests, NEW r,
           NEW l \in {"number", "update"}, Begin(q, l, r),
           l = "number" => r.files \subseteq Readable /\ r.files \cap r.removed = {},
           l = "update" => /\ r.version = profile.current /\ profile.current # 0
                           /\ r.edit \in Edits /\ r.updates \in Updates
    PROVE  OnboardingInv'
<1>1. /\ \A p \in Requests \ {q} : pc'[p] = pc[p] /\ request'[p] = request[p]
      /\ pc'[q] = l /\ request'[q] = r /\ UNCHANGED profileTables
  BY DEF Begin, Goto, OnboardingTypeOK
<1>2. CreationInv(q)'
  BY <1>1 DEF CreationInv, Creating, Owning
<1>3. ASSUME l = "update" PROVE Built(r.version)'
  <2>1. Built(profile.current)
    BY <1>3 DEF OnboardingInv, CurrentInv
  <2>2. ~Owned(profile.current)'
    BY <1>1, <2>1 DEF Built, Owned, Owning, profileTables
  <2> QED BY <1>1, <1>3, <2>1, <2>2 DEF Built, ScopeFollows, profileTables
<1>4. ApprovalInv(q)'
  BY <1>1, <1>3 DEF ApprovalInv, Approving
<1> QED BY <1>1, <1>2, <1>4, TablesKept DEF Owning

LEMMA InvAfterUpload ==
    ASSUME OnboardingTypeOK, OnboardingInv, NEW q \in Requests,
           NEW files \in SUBSET Documents, Upload(q, files)
    PROVE  OnboardingInv'
<1> DEFINE all == files \cup CurrentDocuments
<1>1. all \subseteq Readable
  BY DEF Upload, OnboardingInv, CurrentInv, Built, CurrentDocuments
<1>2. Begin(q, "number", [NoRequest EXCEPT !.files = all])
  BY DEF Upload
<1> HIDE DEF all
<1> QED BY <1>1, <1>2, BeginKept DEF NoRequest

LEMMA InvAfterRemove ==
    ASSUME OnboardingTypeOK, OnboardingInv, NEW q \in Requests,
           NEW d \in Documents, Remove(q, d)
    PROVE  OnboardingInv'
<1> DEFINE left == CurrentDocuments \ {d}
           gone == {d}
<1>1. left \subseteq Readable /\ left \cap gone = {}
  BY DEF OnboardingInv, CurrentInv, Built, CurrentDocuments
<1>2. Begin(q, "number", [NoRequest EXCEPT !.removed = gone, !.files = left])
  BY DEF Remove
<1> HIDE DEF left, gone
<1> QED BY <1>1, <1>2, BeginKept DEF NoRequest

LEMMA InvAfterReadNumber ==
    ASSUME OnboardingTypeOK, OnboardingInv, NEW q \in Requests, ReadNumber(q)
    PROVE  OnboardingInv'
<1> DEFINE n == NextNumber
           fresh == profile.status = "absent"
<1>1. request' = [request EXCEPT ![q] = [@ EXCEPT !.version = n, !.fresh = fresh]]
  BY DEF ReadNumber
<1> HIDE DEF n, fresh
<1>2. request[q] \in Request
  BY DEF OnboardingTypeOK
<1>3. /\ request'[q].files = request[q].files
      /\ request'[q].removed = request[q].removed
  BY <1>1, <1>2 DEF Request, OnboardingTypeOK
<1>4. /\ \A p \in Requests \ {q} : pc'[p] = pc[p] /\ request'[p] = request[p]
      /\ pc[q] = "number" /\ pc'[q] = "insert" /\ UNCHANGED profileTables
  BY <1>1 DEF ReadNumber, Goto, OnboardingTypeOK
<1>5. CreationInv(q)' /\ ApprovalInv(q)'
  BY <1>3, <1>4 DEF OnboardingInv, CreationInv, ApprovalInv, Creating, Approving, Owning
<1> QED BY <1>4, <1>5, TablesKept DEF Owning

LEMMA InvAfterApprove ==
    ASSUME OnboardingTypeOK, OnboardingInv, NEW q \in Requests,
           NEW u \in Updates, NEW e \in Edits, NEW role \in Roles,
           Approve(q, u, e, role)
    PROVE  OnboardingInv'
BY BeginKept DEF Approve, NoRequest

(* A step that creates: it changes the tables of one version at most, which*)
(* is not published and which no other request owns.                       *)
LEMMA OthersKept ==
    ASSUME OnboardingTypeOK, OnboardingInv, NEW q \in Requests, NEW w \in Versions,
           ~Built(w),
           \A p \in Requests \ {q} : /\ pc'[p] = pc[p] /\ request'[p] = request[p]
                                     /\ pc[p] \in Owning => request[p].version # w,
           pc'[q] \in Owning => request'[q].version = w,
           \A v \in Versions \ {w} :
              /\ versions'[v] = versions[v] /\ scope'[v] = scope[v]
              /\ snapshots'[v] = snapshots[v] /\ evidence'[v] = evidence[v],
           profile'.current \in {profile.current, w},
           VersionInv(w)', CreationInv(q)', ApprovalInv(q)', CurrentInv'
    PROVE  OnboardingInv'
<1>1. \A v : Owned(v)' => Owned(v) \/ v = w
  BY DEF Owned
<1>2. \A v \in Versions : Built(v) => v # w /\ Built(v)'
  BY <1>1 DEF Built, ScopeFollows
<1>3. ASSUME NEW v \in Versions PROVE VersionInv(v)'
  <2>1. CASE v = w
    BY <2>1
  <2>2. CASE v # w
    BY <1>2, <2>2 DEF OnboardingInv, VersionInv, AllIngested
  <2> QED BY <2>1, <2>2
<1>4. ASSUME NEW p \in Requests PROVE CreationInv(p)' /\ ApprovalInv(p)'
  <2>1. CASE p = q
    BY <2>1
  <2>2. CASE p # q
    <3> USE <2>2
    <3>1. CreationInv(p) /\ ApprovalInv(p) /\ pc'[p] = pc[p] /\ request'[p] = request[p]
      BY DEF OnboardingInv
    <3>2. pc[p] \in Owning \cup Approving => request[p].version \in Versions
      BY OnboardingBounds
      DEF OnboardingTypeOK, Request, Versions, Owning, Creating, Approving
    <3>3. CreationInv(p)'
      <4> DEFINE v == request[p].version
      <4>1. CASE pc[p] \in Owning
        <5>1. v \in Versions /\ v # w
          BY <3>2, <4>1
        <5>2. versions'[v] = versions[v] /\ scope'[v] = scope[v]
          BY <5>1
        <5>3. profile.current # v => profile'.current # v
          BY <5>1
        <5>4. ScopeFollows(v) => ScopeFollows(v)'
          BY <5>2 DEF ScopeFollows
        <5> QED BY <3>1, <4>1, <5>2, <5>3, <5>4 DEF CreationInv
      <4>2. CASE pc[p] \notin Owning
        BY <3>1, <4>2 DEF CreationInv, Owning
      <4> QED BY <4>1, <4>2
    <3>4. ASSUME pc[p] \in Approving PROVE ApprovalInv(p)'
      <4> DEFINE v == request[p].version
      <4>1. v \in Versions /\ Built(v)
        BY <3>1, <3>2, <3>4 DEF ApprovalInv
      <4>2. /\ Built(v)' /\ versions'[v] = versions[v]
            /\ snapshots'[v] = snapshots[v] /\ evidence'[v] = evidence[v]
        BY <1>2, <4>1
      <4> QED BY <3>1, <4>2 DEF ApprovalInv, AllIngested
    <3>5. pc[p] \notin Approving => ApprovalInv(p)'
      BY <3>1 DEF ApprovalInv, Approving
    <3> QED BY <3>3, <3>4, <3>5
  <2> QED BY <2>1, <2>2
<1>5. SoleOwner'
  BY DEF OnboardingInv, SoleOwner
<1> QED BY <1>3, <1>4, <1>5 DEF OnboardingInv

(* A step that approves: it changes the tables of a version that is built, *)
(* and keeps it so.                                                        *)
LEMMA ApprovalKept ==
    ASSUME OnboardingTypeOK, OnboardingInv, NEW q \in Requests, NEW w \in Versions,
           Built(w), Built(w)',
           \A p \in Requests \ {q} : pc'[p] = pc[p] /\ request'[p] = request[p],
           pc'[q] \notin Owning,
           \A v \in Versions \ {w} :
              /\ versions'[v] = versions[v] /\ scope'[v] = scope[v]
              /\ snapshots'[v] = snapshots[v] /\ evidence'[v] = evidence[v],
           versions'[w].documents = versions[w].documents,
           snapshots[w] # NoEdit => snapshots'[w] # NoEdit,
           evidence[w] \subseteq evidence'[w],
           profile'.current = profile.current, step' \in {step, "dashboard"},
           VersionInv(w)', CreationInv(q)', ApprovalInv(q)'
    PROVE  OnboardingInv'
<1>1. \A v : Owned(v)' => Owned(v)
  BY DEF Owned
<1>2. \A v \in Versions : Built(v) => Built(v)'
  BY <1>1 DEF Built, ScopeFollows
<1>3. ASSUME NEW v \in Versions PROVE VersionInv(v)'
  <2>1. CASE v = w
    BY <2>1
  <2>2. CASE v # w
    BY <1>2, <2>2 DEF OnboardingInv, VersionInv, AllIngested
  <2> QED BY <2>1, <2>2
<1>4. ASSUME NEW p \in Requests PROVE CreationInv(p)' /\ ApprovalInv(p)'
  <2>1. CASE p = q
    BY <2>1
  <2>2. CASE p # q
    <3> USE <2>2
    <3>1. CreationInv(p) /\ ApprovalInv(p) /\ pc'[p] = pc[p] /\ request'[p] = request[p]
      BY DEF OnboardingInv
    <3>2. pc[p] \in Owning \cup Approving => request[p].version \in Versions
      BY OnboardingBounds
      DEF OnboardingTypeOK, Request, Versions, Owning, Creating, Approving
    <3>3. pc[p] \in Owning => request[p].version # w
      BY DEF Built, Owned
    <3>4. CreationInv(p)'
      <4> DEFINE v == request[p].version
      <4>1. CASE pc[p] \in Owning
        <5>1. v \in Versions /\ v # w
          BY <3>2, <3>3, <4>1
        <5>2. versions'[v] = versions[v] /\ scope'[v] = scope[v]
          BY <5>1
        <5>3. profile.current # v => profile'.current # v
          BY <5>1
        <5>4. ScopeFollows(v) => ScopeFollows(v)'
          BY <5>2 DEF ScopeFollows
        <5> QED BY <3>1, <4>1, <5>2, <5>3, <5>4 DEF CreationInv
      <4>2. CASE pc[p] \notin Owning
        BY <3>1, <4>2 DEF CreationInv, Owning
      <4> QED BY <4>1, <4>2
    <3>5. \A v \in Versions : /\ snapshots[v] # NoEdit => snapshots'[v] # NoEdit
                              /\ evidence[v] \subseteq evidence'[v]
                              /\ versions'[v].documents = versions[v].documents
      OBVIOUS
    <3>6. ASSUME pc[p] \in Approving PROVE ApprovalInv(p)'
      <4> DEFINE v == request[p].version
      <4>1. v \in Versions /\ Built(v) /\ request[p].edit \in Edits
        BY <3>1, <3>2, <3>6 DEF ApprovalInv
      <4>2. /\ Built(v)' /\ (snapshots[v] # NoEdit => snapshots'[v] # NoEdit)
            /\ evidence[v] \subseteq evidence'[v]
            /\ versions'[v].documents = versions[v].documents
        BY <1>2, <3>5, <4>1
      <4>3. pc[p] = "update" => request[p].updates \in Updates
        BY <3>1 DEF ApprovalInv
      <4>4. pc[p] \in {"materialize", "approve"} => snapshots'[v] # NoEdit
        BY <3>1, <4>2 DEF ApprovalInv
      <4>5. pc[p] = "approve" => AllIngested(v)'
        BY <3>1, <4>2 DEF ApprovalInv, AllIngested
      <4> QED BY <3>1, <4>1, <4>2, <4>3, <4>4, <4>5 DEF ApprovalInv
    <3>7. pc[p] \notin Approving => ApprovalInv(p)'
      BY <3>1 DEF ApprovalInv, Approving
    <3> QED BY <3>4, <3>6, <3>7
  <2> QED BY <2>1, <2>2
<1>5. SoleOwner'
  BY DEF OnboardingInv, SoleOwner
<1>6. CurrentInv'
  <2>1. profile.current # 0 => profile.current \in Versions
    BY OnboardingBounds DEF OnboardingTypeOK, Versions
  <2> QED BY <1>2, <2>1 DEF OnboardingInv, CurrentInv
<1> QED BY <1>3, <1>4, <1>5, <1>6 DEF OnboardingInv

(* The current version stays built when a step of an owner leaves it alone.*)
LEMMA CurrentKept ==
    ASSUME OnboardingTypeOK, OnboardingInv, NEW q \in Requests, NEW w \in Versions,
           profile.current # w, profile'.current = profile.current,
           UNCHANGED <<step, request>>,
           request[q].version = w,
           \A p \in Requests \ {q} : pc'[p] = pc[p],
           \A v \in Versions \ {w} : versions'[v] = versions[v] /\ scope'[v] = scope[v]
    PROVE  CurrentInv'
<1>1. SUFFICES ASSUME profile.current # 0
               PROVE  Built(profile.current)' /\ step' # "absent"
  BY DEF CurrentInv
<1>2. Built(profile.current) /\ profile.current \in Versions
  BY <1>1, OnboardingBounds DEF OnboardingInv, CurrentInv, OnboardingTypeOK, Versions
<1>3. ~Owned(profile.current)'
  BY <1>2 DEF Owned, Built
<1> QED
  BY <1>1, <1>2, <1>3 DEF OnboardingInv, CurrentInv, Built, ScopeFollows

LEMMA InvAfterInsertVersion ==
    ASSUME OnboardingTypeOK, OnboardingInv, NEW q \in Requests, InsertVersion(q)
    PROVE  OnboardingInv'
<1>1. CASE ~ (/\ versions[request[q].version].status = "absent"
              /\ request[q].fresh = (profile.status = "absent"))
  BY <1>1, ReturnKept DEF InsertVersion, profileTables
<1>2. ASSUME versions[request[q].version].status = "absent",
             request[q].fresh = (profile.status = "absent")
      PROVE  OnboardingInv'
  <2>1. PICK w \in Versions : w = request[q].version
    BY OnboardingBounds DEF InsertVersion, OnboardingTypeOK, Request, Versions, Creating
  <2>2. /\ pc[q] = "insert"
        /\ versions' = [versions EXCEPT ![w].status = "draft"]
        /\ UNCHANGED <<scope, snapshots, evidence>>
    BY <1>2, <2>1 DEF InsertVersion
  <2>3. versions[w] \in Version /\ versions[w].status = "absent"
    BY <1>2, <2>1 DEF OnboardingTypeOK
  <2>4. versions'[w].status = "draft" /\ versions'[w].documents = versions[w].documents
    BY <2>2, <2>3 DEF OnboardingTypeOK, Version
  <2>5. versions[w].documents = {} /\ scope[w] = [c \in Domains |-> NoScope]
    BY <2>3 DEF OnboardingInv, VersionInv
  <2>6. ~Built(w) /\ \A p \in Requests : pc[p] \in Owning => request[p].version # w
    BY <2>3 DEF Built, OnboardingInv, CreationInv
  <2>7. VersionInv(w)'
    BY <2>2, <2>4 DEF OnboardingInv, VersionInv
  <2>8. profile.current # w
    BY <2>6, OnboardingBounds DEF OnboardingInv, CurrentInv, Versions
  <2>9. CASE request[q].files = {}
    <3>1. /\ profile' = [current |-> w, status |-> "onboarding"]
          /\ step' = "upload" /\ Return(q)
      BY <1>2, <2>1, <2>9 DEF InsertVersion
    <3>2. /\ \A p \in Requests \ {q} : pc'[p] = pc[p] /\ request'[p] = request[p]
          /\ pc'[q] = "idle"
      BY <3>1 DEF Return, OnboardingTypeOK
    <3>3. ~Owned(w)'
      BY <2>6, <3>2 DEF Owned, Owning
    <3>4. Built(w)'
      <4>1. ScopeFollows(w)'
        BY <2>2, <2>4, <2>5 DEF ScopeFollows, NoScope, Classification
      <4> QED BY <2>4, <2>5, <3>3, <4>1 DEF Built
    <3>5. CreationInv(q)' /\ ApprovalInv(q)'
      BY <3>2 DEF CreationInv, ApprovalInv, Creating, Approving, Owning
    <3>6. CurrentInv'
      BY <3>1, <3>4 DEF CurrentInv
    <3> QED
      BY <2>2, <2>6, <2>7, <3>1, <3>2, <3>5, <3>6, OthersKept
      DEF Owning, OnboardingTypeOK
  <2>10. CASE request[q].files # {}
    <3>1. /\ profile'.current = profile.current
          /\ Goto(q, "store") /\ UNCHANGED <<step, request>>
      BY <1>2, <2>1, <2>10 DEF InsertVersion, OnboardingTypeOK
    <3>2. /\ \A p \in Requests \ {q} : pc'[p] = pc[p] /\ request'[p] = request[p]
          /\ pc'[q] = "store" /\ request'[q] = request[q]
      BY <3>1 DEF Goto, OnboardingTypeOK
    <3>3. CreationInv(q)' /\ ApprovalInv(q)'
      BY <2>1, <2>2, <2>4, <2>5, <2>8, <3>1, <3>2
      DEF OnboardingInv, CreationInv, ApprovalInv, Creating, Approving, Owning
    <3>4. CurrentInv'
      BY <2>1, <2>2, <2>8, <3>1, <3>2, CurrentKept DEF OnboardingTypeOK
    <3> QED
      BY <2>1, <2>2, <2>6, <2>7, <3>1, <3>2, <3>3, <3>4, OthersKept DEF OnboardingTypeOK
  <2> QED BY <2>9, <2>10
<1> QED BY <1>1, <1>2

(* What every step of a request that owns its version finds.               *)
LEMMA OwnerFinds ==
    ASSUME OnboardingTypeOK, OnboardingInv, NEW q \in Requests, pc[q] \in Owning
    PROVE  /\ request[q].version \in Versions
           /\ ~Built(request[q].version)
           /\ versions[request[q].version].status = "draft"
           /\ profile.current # request[q].version
           /\ \A p \in Requests \ {q} :
                pc[p] \in Owning => request[p].version # request[q].version
<1>1. request[q].version \in Versions
  BY OnboardingBounds DEF OnboardingTypeOK, Request, Versions, Owning, Creating
<1>2. ~Built(request[q].version)
  BY DEF Built, Owned
<1>3. /\ versions[request[q].version].status = "draft"
      /\ profile.current # request[q].version
  BY DEF OnboardingInv, CreationInv
<1>4. \A p \in Requests \ {q} :
        pc[p] \in Owning => request[p].version # request[q].version
  BY DEF OnboardingInv, SoleOwner
<1> QED BY <1>1, <1>2, <1>3, <1>4

LEMMA InvAfterStoreDocument ==
    ASSUME OnboardingTypeOK, OnboardingInv, NEW q \in Requests,
           NEW d \in Documents, StoreDocument(q, d)
    PROVE  OnboardingInv'
<1>1. pc[q] = "store"
  BY DEF StoreDocument
<1>2. PICK w \in Versions : w = request[q].version
  BY <1>1, OwnerFinds DEF Owning
<1>3. /\ ~Built(w) /\ versions[w].status = "draft" /\ profile.current # w
      /\ \A p \in Requests \ {q} : pc[p] \in Owning => request[p].version # w
  BY <1>1, <1>2, OwnerFinds DEF Owning
<1>4. versions[w] \in Version
  BY DEF OnboardingTypeOK
<1>5. /\ versions' = [versions EXCEPT ![w].documents = @ \cup {d}]
      /\ d \in request[q].files
      /\ UNCHANGED <<profile, step, scope, snapshots, evidence, request>>
  BY <1>2 DEF StoreDocument
<1>6. /\ versions'[w].status = "draft"
      /\ versions'[w].documents = versions[w].documents \cup {d}
      /\ \A v \in Versions \ {w} : versions'[v] = versions[v]
  BY <1>3, <1>4, <1>5 DEF OnboardingTypeOK, Version
<1>7. /\ \A p \in Requests \ {q} : pc'[p] = pc[p]
      /\ pc'[q] = IF request[q].files \subseteq versions[w].documents \cup {d}
                  THEN "build" ELSE "store"
  BY <1>2 DEF StoreDocument, Goto, OnboardingTypeOK
<1>8. VersionInv(w)'
  BY <1>5, <1>6 DEF OnboardingInv, VersionInv
<1>9. CreationInv(q)' /\ ApprovalInv(q)'
  <2>1. CreationInv(q)
    BY DEF OnboardingInv
  <2>2. versions[w].documents \subseteq request[q].files
    BY <1>1, <1>2, <2>1 DEF CreationInv, Owning
  <2>3. pc'[q] = "build" => versions'[w].documents = request[q].files
    BY <1>5, <1>6, <1>7, <2>2
  <2>4. pc'[q] \in {"store", "build"}
    BY <1>7
  <2> QED
    BY <1>1, <1>2, <1>3, <1>5, <1>6, <2>1, <2>2, <2>3, <2>4
    DEF CreationInv, ApprovalInv, Creating, Approving, Owning
<1>10. CurrentInv'
  BY <1>2, <1>3, <1>5, <1>6, <1>7, CurrentKept
<1> QED
  BY <1>2, <1>3, <1>5, <1>6, <1>7, <1>8, <1>9, <1>10, OthersKept

LEMMA InvAfterBuildScope ==
    ASSUME OnboardingTypeOK, OnboardingInv, NEW q \in Requests, BuildScope(q)
    PROVE  OnboardingInv'
<1>1. pc[q] = "build"
  BY DEF BuildScope
<1>2. PICK w \in Versions : w = request[q].version
  BY <1>1, OwnerFinds DEF Owning
<1>3. /\ ~Built(w) /\ versions[w].status = "draft" /\ profile.current # w
      /\ \A p \in Requests \ {q} : pc[p] \in Owning => request[p].version # w
  BY <1>1, <1>2, OwnerFinds DEF Owning
<1>4. /\ UNCHANGED <<profile, step, versions, snapshots, evidence, request>>
      /\ scope'[w] = [c \in Domains |-> [NoScope EXCEPT !.classification =
                          Classification(versions[w].documents, c)]]
      /\ \A v \in Versions \ {w} : scope'[v] = scope[v]
  BY <1>2 DEF BuildScope, OnboardingTypeOK
<1>5. /\ \A p \in Requests \ {q} : pc'[p] = pc[p]
      /\ pc'[q] = "publish"
  BY DEF BuildScope, Goto, OnboardingTypeOK
<1>6. ScopeFollows(w)'
  BY <1>4 DEF ScopeFollows, NoScope, Classification
<1>7. VersionInv(w)'
  BY <1>3, <1>4 DEF OnboardingInv, VersionInv
<1>8. CreationInv(q)' /\ ApprovalInv(q)'
  BY <1>1, <1>2, <1>4, <1>5, <1>6
  DEF OnboardingInv, CreationInv, ApprovalInv, Creating, Approving, Owning
<1>9. CurrentInv'
  BY <1>2, <1>3, <1>4, <1>5, CurrentKept
<1> QED
  BY <1>2, <1>3, <1>4, <1>5, <1>7, <1>8, <1>9, OthersKept

LEMMA InvAfterPublish ==
    ASSUME OnboardingTypeOK, OnboardingInv, NEW q \in Requests, Publish(q)
    PROVE  OnboardingInv'
<1>1. pc[q] = "publish"
  BY DEF Publish
<1>2. PICK w \in Versions : w = request[q].version
  BY <1>1, OwnerFinds DEF Owning
<1>3. /\ ~Built(w) /\ versions[w].status = "draft"
      /\ \A p \in Requests \ {q} : pc[p] \in Owning => request[p].version # w
  BY <1>1, <1>2, OwnerFinds DEF Owning
<1>4. /\ profile'.current = w /\ step' = "review_scope"
      /\ UNCHANGED <<versions, scope, snapshots, evidence>>
      /\ \A p \in Requests \ {q} : pc'[p] = pc[p] /\ request'[p] = request[p]
      /\ pc'[q] = "idle"
  BY <1>2 DEF Publish, Return, OnboardingTypeOK
<1>5. Built(w)'
  <2>1. versions[w].documents \subseteq Readable /\ ScopeFollows(w)
    BY <1>1, <1>2 DEF OnboardingInv, CreationInv, Creating
  <2>2. ~Owned(w)'
    BY <1>3, <1>4 DEF Owned, Owning
  <2> QED BY <1>3, <1>4, <2>1, <2>2 DEF Built, ScopeFollows
<1>6. VersionInv(w)'
  BY <1>3, <1>4 DEF OnboardingInv, VersionInv
<1>7. CreationInv(q)' /\ ApprovalInv(q)'
  BY <1>4 DEF CreationInv, ApprovalInv, Creating, Approving, Owning
<1>8. CurrentInv'
  BY <1>4, <1>5 DEF CurrentInv
<1> QED
  BY <1>3, <1>4, <1>6, <1>7, <1>8, OthersKept DEF Owning

(* What every step of an approval finds.                                   *)
LEMMA ApproverFinds ==
    ASSUME OnboardingTypeOK, OnboardingInv, NEW q \in Requests, pc[q] \in Approving
    PROVE  request[q].version \in Versions /\ Built(request[q].version)
BY OnboardingBounds
DEF OnboardingTypeOK, OnboardingInv, ApprovalInv, Request, Versions, Approving

LEMMA InvAfterUpdateScope ==
    ASSUME OnboardingTypeOK, OnboardingInv, NEW q \in Requests, UpdateScope(q)
    PROVE  OnboardingInv'
<1>1. pc[q] = "update"
  BY DEF UpdateScope
<1>2. PICK w \in Versions : w = request[q].version /\ Built(w)
  BY <1>1, ApproverFinds DEF Approving
<1> DEFINE r == request[q]
           named == DOMAIN r.updates
           row(c) == IF c \notin named THEN scope[w][c]
                     ELSE [classification |-> IF c \in r.seen
                              THEN scope[w][c].classification ELSE "user_added",
                           status |-> r.updates[c],
                           override |-> /\ c \in r.seen /\ r.role = "admin"
                                        /\ r.updates[c] = "removed"]
<1>3. CASE Return(q) /\ UNCHANGED scope
  BY <1>3, ReturnKept DEF UpdateScope, profileTables
<1>4. CASE /\ \A c \in named \ r.seen : scope[w][c].classification = "absent"
           /\ scope' = [scope EXCEPT ![w] = [c \in Domains |-> row(c)]]
           /\ Goto(q, "snapshot")
           /\ request' = [request EXCEPT ![q] =
                            [NoRequest EXCEPT !.version = w, !.edit = r.edit]]
  <2>1. /\ UNCHANGED <<profile, step, versions, snapshots, evidence>>
        /\ \A v \in Versions \ {w} : scope'[v] = scope[v]
        /\ \A c \in Domains : scope'[w][c].classification =
             IF c \in r.seen \/ c \notin named THEN scope[w][c].classification
             ELSE "user_added"
    BY <1>4 DEF UpdateScope, OnboardingTypeOK
  <2>2. /\ \A p \in Requests \ {q} : pc'[p] = pc[p] /\ request'[p] = request[p]
        /\ pc'[q] = "snapshot"
        /\ request'[q].version = w /\ request'[q].edit = r.edit
    BY <1>4 DEF Goto, OnboardingTypeOK, NoRequest
  <2>3. Built(w)'
    <3>1. ScopeFollows(w)'
      <4> DEFINE allowed(c) ==
                   IF Classification(versions[w].documents, c) = "absent"
                   THEN {"absent", "user_added"}
                   ELSE {Classification(versions[w].documents, c)}
      <4>1. \A c \in Domains : scope[w][c].classification \in allowed(c)
        BY <1>2 DEF Built, ScopeFollows
      <4>2. \A c \in Domains :
               scope[w][c].classification = "absent" => "user_added" \in allowed(c)
        BY <4>1
      <4> HIDE DEF allowed
      <4>3. \A c \in Domains : scope'[w][c].classification \in allowed(c)
        BY <1>4, <2>1, <4>1, <4>2
      <4> QED BY <2>1, <4>3 DEF ScopeFollows, allowed
    <3>2. ~Owned(w)'
      BY <1>2, <2>2 DEF Built, Owned, Owning
    <3> QED BY <1>2, <2>1, <3>1, <3>2 DEF Built
  <2>4. VersionInv(w)'
    BY <1>2, <2>1, <2>3 DEF OnboardingInv, VersionInv, Built, AllIngested
  <2>5. CreationInv(q)' /\ ApprovalInv(q)'
    BY <1>1, <1>2, <2>1, <2>2, <2>3
    DEF OnboardingInv, CreationInv, ApprovalInv, Creating, Approving, Owning
  <2> QED BY <1>2, <2>1, <2>2, <2>3, <2>4, <2>5, ApprovalKept DEF Owning
<1> QED BY <1>1, <1>2, <1>3, <1>4 DEF UpdateScope

LEMMA InvAfterInsertSnapshot ==
    ASSUME OnboardingTypeOK, OnboardingInv, NEW q \in Requests, InsertSnapshot(q)
    PROVE  OnboardingInv'
<1>1. pc[q] = "snapshot"
  BY DEF InsertSnapshot
<1>2. PICK w \in Versions : w = request[q].version /\ Built(w)
  BY <1>1, ApproverFinds DEF Approving
<1>3. /\ UNCHANGED <<profile, step, versions, scope, evidence, request>>
      /\ \A v \in Versions \ {w} : snapshots'[v] = snapshots[v]
      /\ snapshots'[w] = IF snapshots[w] = NoEdit THEN request[q].edit ELSE snapshots[w]
      /\ \A p \in Requests \ {q} : pc'[p] = pc[p]
      /\ pc'[q] = "materialize"
  BY <1>2 DEF InsertSnapshot, Goto, OnboardingTypeOK
<1>4. snapshots'[w] # NoEdit
  BY <1>1, <1>3, OnboardingPlaceholder DEF OnboardingInv, ApprovalInv, Approving
<1>5. Built(w)'
  BY <1>2, <1>3 DEF Built, ScopeFollows, Owned, Owning
<1>6. VersionInv(w)'
  BY <1>2, <1>3, <1>4, <1>5 DEF OnboardingInv, VersionInv, Built, AllIngested
<1>7. CreationInv(q)' /\ ApprovalInv(q)'
  BY <1>1, <1>2, <1>3, <1>4, <1>5
  DEF OnboardingInv, CreationInv, ApprovalInv, Creating, Approving, Owning
<1> QED BY <1>2, <1>3, <1>4, <1>5, <1>6, <1>7, ApprovalKept DEF Owning

LEMMA InvAfterMaterialize ==
    ASSUME OnboardingTypeOK, OnboardingInv, NEW q \in Requests, Materialize(q)
    PROVE  OnboardingInv'
<1>1. pc[q] = "materialize"
  BY DEF Materialize
<1>2. PICK w \in Versions : w = request[q].version /\ Built(w)
  BY <1>1, ApproverFinds DEF Approving
<1>3. /\ UNCHANGED <<profile, step, versions, scope, snapshots, request>>
      /\ \A v \in Versions \ {w} : evidence'[v] = evidence[v]
      /\ evidence[w] \subseteq evidence'[w]
      /\ evidence'[w] \subseteq evidence[w] \cup (versions[w].documents \X {"other"})
      /\ \A p \in Requests \ {q} : pc'[p] = pc[p]
      /\ \/ pc'[q] = "materialize"
         \/ pc'[q] = "approve" /\ versions[w].documents \X {"other"} \subseteq evidence'[w]
  <2>1. CASE /\ (versions[w].documents \X {"other"}) \ evidence[w] = {}
             /\ Goto(q, "approve") /\ UNCHANGED evidence
    BY <1>2, <2>1 DEF Materialize, Goto, OnboardingTypeOK
  <2>2. CASE /\ \E item \in (versions[w].documents \X {"other"}) \ evidence[w] :
                   evidence' = [evidence EXCEPT ![w] = @ \cup {item}]
             /\ UNCHANGED pc
    BY <1>1, <1>2, <2>2 DEF Materialize, OnboardingTypeOK
  <2> QED BY <1>2, <2>1, <2>2 DEF Materialize
<1>4. Built(w)'
  BY <1>2, <1>3 DEF Built, ScopeFollows, Owned, Owning
<1>5. VersionInv(w)'
  <2>1. snapshots[w] # NoEdit
    BY <1>1, <1>2 DEF OnboardingInv, ApprovalInv
  <2>2. versions[w].documents \X {"other"} \subseteq Readable \X Kinds
    BY <1>2, KindAssumption DEF Built
  <2>3. evidence[w] \subseteq Readable \X Kinds
    BY DEF OnboardingInv, VersionInv
  <2>4. evidence'[w] \subseteq Readable \X Kinds
    BY <1>3, <2>2, <2>3
  <2> QED
    BY <1>2, <1>3, <1>4, <2>1, <2>4 DEF OnboardingInv, VersionInv, Built, AllIngested
<1>6. CreationInv(q)' /\ ApprovalInv(q)'
  BY <1>1, <1>2, <1>3, <1>4, <1>5
  DEF OnboardingInv, CreationInv, ApprovalInv, AllIngested, Creating, Approving, Owning
<1> QED BY <1>2, <1>3, <1>4, <1>5, <1>6, ApprovalKept DEF Owning

LEMMA InvAfterApproved ==
    ASSUME OnboardingTypeOK, OnboardingInv, NEW q \in Requests, Approved(q)
    PROVE  OnboardingInv'
<1>1. pc[q] = "approve"
  BY DEF Approved
<1>2. PICK w \in Versions : w = request[q].version /\ Built(w)
  BY <1>1, ApproverFinds DEF Approving
<1>3. versions[w] \in Version
  BY DEF OnboardingTypeOK
<1>4. /\ profile'.current = profile.current /\ step' = "dashboard"
      /\ UNCHANGED <<scope, snapshots, evidence>>
      /\ \A v \in Versions \ {w} : versions'[v] = versions[v]
      /\ versions'[w].status = "approved"
      /\ versions'[w].documents = versions[w].documents
  BY <1>2, <1>3 DEF Approved, OnboardingTypeOK, Version
<1>5. /\ \A p \in Requests \ {q} : pc'[p] = pc[p] /\ request'[p] = request[p]
      /\ pc'[q] = "idle"
  BY DEF Approved, Return, OnboardingTypeOK
<1>6. Built(w)'
  BY <1>2, <1>4, <1>5 DEF Built, ScopeFollows, Owned, Owning
<1>7. VersionInv(w)'
  <2>1. AllIngested(w) /\ snapshots[w] # NoEdit
    BY <1>1, <1>2 DEF OnboardingInv, ApprovalInv
  <2>2. AllIngested(w)'
    BY <1>4, <2>1 DEF AllIngested
  <2> QED BY <1>4, <1>6, <2>1, <2>2 DEF OnboardingInv, VersionInv
<1>8. CreationInv(q)' /\ ApprovalInv(q)'
  BY <1>5 DEF CreationInv, ApprovalInv, Creating, Approving, Owning
<1> QED BY <1>2, <1>4, <1>5, <1>6, <1>7, <1>8, ApprovalKept DEF Owning

(* A document ingested by an endpoint is one more row of evidence.         *)
LEMMA InvAfterAddDocument ==
    ASSUME OnboardingTypeOK, OnboardingInv, NEW w \in Versions,
           NEW item \in Uploads, AddDocument(w, item)
    PROVE  OnboardingInv'
<1>1. /\ UNCHANGED <<profile, step, versions, scope, snapshots, pc, request>>
      /\ snapshots[w] # NoEdit
      /\ \A v \in Versions \ {w} : evidence'[v] = evidence[v]
      /\ evidence'[w] = evidence[w] \cup {item}
  BY DEF AddDocument, OnboardingTypeOK
<1>2. /\ \A v : Built(v)' = Built(v)
      /\ \A v : ScopeFollows(v)' = ScopeFollows(v)
  BY <1>1 DEF Built, ScopeFollows, Owned
<1>3. ASSUME NEW v \in Versions PROVE AllIngested(v) => AllIngested(v)'
  BY <1>1 DEF AllIngested
<1>4. ASSUME NEW v \in Versions PROVE VersionInv(v)'
  <2>1. VersionInv(v)
    BY DEF OnboardingInv
  <2>2. evidence'[v] \subseteq Readable \X Kinds
    BY <1>1, <2>1, KindAssumption DEF VersionInv
  <2>3. evidence'[v] # {} => snapshots[v] # NoEdit
    BY <1>1, <2>1 DEF VersionInv
  <2> QED BY <1>1, <1>2, <1>3, <2>1, <2>2, <2>3 DEF VersionInv
<1>5. ASSUME NEW p \in Requests PROVE CreationInv(p)' /\ ApprovalInv(p)'
  <2>1. CreationInv(p) /\ ApprovalInv(p)
    BY DEF OnboardingInv
  <2>2. pc[p] = "approve" => request[p].version \in Versions
    BY OnboardingBounds DEF OnboardingTypeOK, Request, Versions, Approving
  <2> QED BY <1>1, <1>2, <1>3, <2>1, <2>2 DEF CreationInv, ApprovalInv
<1>6. SoleOwner' /\ CurrentInv'
  BY <1>1, <1>2 DEF OnboardingInv, SoleOwner, CurrentInv
<1> QED BY <1>4, <1>5, <1>6 DEF OnboardingInv

(* No step breaks the invariant.                                           *)
LEMMA NextInv ==
    ASSUME OnboardingTypeOK, OnboardingInv, [OnboardingNext]_onboardingVars
    PROVE  OnboardingInv'
<1>1. ASSUME NEW q \in Requests, Fail(q)
      PROVE  OnboardingInv'
  BY <1>1, ReturnKept DEF Fail
<1>2. CASE UNCHANGED onboardingVars
  BY <1>2
  DEF onboardingVars, profileTables, OnboardingInv, VersionInv, Built, ScopeFollows, Owned,
      CreationInv, ApprovalInv, AllIngested, SoleOwner, CurrentInv
<1> QED
  BY <1>1, <1>2, InvAfterAddDocument, InvAfterUpload, InvAfterRemove, InvAfterReadNumber,
     InvAfterInsertVersion, InvAfterStoreDocument, InvAfterBuildScope, InvAfterPublish,
     InvAfterApprove, InvAfterUpdateScope, InvAfterInsertSnapshot, InvAfterMaterialize,
     InvAfterApproved
  DEF OnboardingNext

(* The types hold with the invariant and not alone: an approval's updates  *)
(* are a list of them only because it still has some to make.              *)
THEOREM OnboardingInvariant == OnboardingSpec => [](OnboardingTypeOK /\ OnboardingInv)
<1>1. OnboardingInit => OnboardingTypeOK /\ OnboardingInv
  BY InitTypeOK, InitInv
<1>2. OnboardingTypeOK /\ OnboardingInv /\ [OnboardingNext]_onboardingVars
        => (OnboardingTypeOK /\ OnboardingInv)'
  BY NextTypeOK, NextInv
<1> QED BY <1>1, <1>2, PTL DEF OnboardingSpec

(* Every variable keeps its type, whatever requests race or fail.          *)
THEOREM OnboardingTypeCorrect == OnboardingSpec => []OnboardingTypeOK
BY OnboardingInvariant, PTL

(* However uploads, removals and approvals interleave and fail, the profile*)
(* points to no version that is half built: its documents are readable and *)
(* its scope has the rows their facts call for.                            *)
THEOREM CurrentVersionIsBuilt == OnboardingSpec => []CurrentIsBuilt
<1>1. OnboardingInv => CurrentIsBuilt
  BY DEF OnboardingInv, CurrentInv, Built, ScopeFollows, CurrentIsBuilt
<1> QED BY <1>1, OnboardingInvariant, PTL

(* An approved version has its snapshot and all its documents as evidence, *)
(* even when an earlier attempt to approve it was interrupted, whatever    *)
(* documents were added to it besides; and what is evidence has text, and a*)
(* snapshot it was ingested for.                                           *)
THEOREM ApprovalMeansEvidence == OnboardingSpec => []ApprovedHasEvidence
<1>1. OnboardingInv => ApprovedHasEvidence
  BY DEF OnboardingInv, VersionInv, AllIngested, ApprovedHasEvidence
<1> QED BY <1>1, OnboardingInvariant, PTL

-----------------------------------------------------------------------------
(* What no step does.                                                      *)

HistoryOf(v) ==
    /\ snapshots[v] # NoEdit => snapshots'[v] = snapshots[v]
    /\ evidence[v] \subseteq evidence'[v]
    /\ profile.current = v => versions'[v].documents = versions[v].documents
    /\ versions[v].status = "approved" =>
          /\ versions'[v].status = "approved"
          /\ versions'[v].documents = versions[v].documents

LEMMA StepKeepsHistory ==
    ASSUME OnboardingTypeOK, OnboardingInv, [OnboardingNext]_onboardingVars,
           NEW v \in Versions
    PROVE  HistoryOf(v)
<1>0. versions[v] \in Version
  BY DEF OnboardingTypeOK
<1>1. CASE UNCHANGED profileTables
  BY <1>1 DEF HistoryOf, profileTables
<1>2. ASSUME NEW q \in Requests, InsertVersion(q) PROVE HistoryOf(v)
  <2>1. CASE UNCHANGED versions
    BY <1>2, <2>1 DEF InsertVersion, HistoryOf
  <2>2. CASE /\ versions[request[q].version].status = "absent"
             /\ versions' = [versions EXCEPT ![request[q].version].status = "draft"]
    BY <1>0, <1>2, <2>2 DEF InsertVersion, HistoryOf, OnboardingTypeOK, Version
  <2> QED BY <1>2, <2>1, <2>2 DEF InsertVersion
<1>3. ASSUME NEW q \in Requests, NEW d \in Documents, StoreDocument(q, d)
      PROVE  HistoryOf(v)
  <2>1. /\ profile.current # request[q].version
        /\ versions[request[q].version].status = "draft"
    BY <1>3, OwnerFinds DEF StoreDocument, Owning
  <2> QED BY <1>3, <2>1 DEF StoreDocument, HistoryOf, OnboardingTypeOK
<1>4. ASSUME NEW q \in Requests, BuildScope(q) \/ Publish(q) \/ UpdateScope(q)
      PROVE  HistoryOf(v)
  BY <1>4 DEF BuildScope, Publish, UpdateScope, HistoryOf
<1>5. ASSUME NEW q \in Requests, InsertSnapshot(q) PROVE HistoryOf(v)
  BY <1>5 DEF InsertSnapshot, HistoryOf, OnboardingTypeOK
<1>6. ASSUME NEW q \in Requests, Materialize(q) PROVE HistoryOf(v)
  BY <1>6 DEF Materialize, HistoryOf, OnboardingTypeOK
<1>7. ASSUME NEW q \in Requests, Approved(q) PROVE HistoryOf(v)
  BY <1>0, <1>7 DEF Approved, HistoryOf, OnboardingTypeOK, Version
<1>8. ASSUME NEW w \in Versions, NEW item \in Uploads, AddDocument(w, item)
      PROVE  HistoryOf(v)
  BY <1>8 DEF AddDocument, HistoryOf, OnboardingTypeOK
<1> QED
  BY <1>1, <1>2, <1>3, <1>4, <1>5, <1>6, <1>7, <1>8
  DEF OnboardingNext, onboardingVars, Upload, Remove, Approve, Begin, ReadNumber, Fail

(* What an analysis was based on is never rewritten: snapshots, the        *)
(* documents of a published version, evidence, approvals.                  *)
THEOREM HistoryKept == OnboardingSpec => ProfileHistoryIsKept
<1>1. OnboardingTypeOK /\ OnboardingInv /\ [OnboardingNext]_onboardingVars
        => \A v \in Versions : HistoryOf(v)
  BY StepKeepsHistory
<1> QED BY <1>1, OnboardingInvariant, PTL DEF ProfileHistoryIsKept, OnboardingSpec, HistoryOf

DropsRemoved(q) ==
    /\ pc[q] \in {"insert", "publish"} /\ pc'[q] = "idle"
    /\ profile'.current # profile.current
    => versions'[profile'.current].documents \cap request[q].removed = {}

LEMMA StepDropsRemoved ==
    ASSUME OnboardingTypeOK, OnboardingInv, [OnboardingNext]_onboardingVars,
           NEW q \in Requests
    PROVE  DropsRemoved(q)
<1>1. SUFFICES ASSUME pc[q] \in {"insert", "publish"}, pc'[q] = "idle",
                      profile'.current # profile.current
               PROVE  versions'[profile'.current].documents \cap request[q].removed = {}
  BY DEF DropsRemoved
<1>2. \A p \in Requests : InsertVersion(p) \/ Publish(p) => p = q
  BY <1>1 DEF InsertVersion, Publish, Return, Goto, OnboardingTypeOK
<1>3. InsertVersion(q) \/ Publish(q)
  <2>1. \E p \in Requests : InsertVersion(p) \/ Publish(p)
    BY <1>1
    DEF OnboardingNext, onboardingVars, profileTables, Upload, Remove, Approve, Begin,
        ReadNumber, Fail, StoreDocument, BuildScope, UpdateScope, InsertSnapshot,
        Materialize, Approved, AddDocument, OnboardingTypeOK
  <2> QED BY <1>2, <2>1
<1>4. CASE InsertVersion(q)
  <2>1. request[q].version \in Versions
    BY <1>4, OnboardingBounds
    DEF InsertVersion, OnboardingTypeOK, Request, Versions, Creating
  <2>2. /\ versions[request[q].version].status = "absent"
        /\ versions' = [versions EXCEPT ![request[q].version].status = "draft"]
        /\ profile'.current = request[q].version
    BY <1>1, <1>4 DEF InsertVersion, OnboardingTypeOK
  <2>3. versions[request[q].version] \in Version
    BY <2>1 DEF OnboardingTypeOK
  <2>4. versions'[request[q].version].documents = {}
    BY <2>1, <2>2, <2>3 DEF OnboardingInv, VersionInv, OnboardingTypeOK, Version
  <2> QED BY <2>2, <2>4
<1>5. CASE Publish(q)
  BY <1>5 DEF Publish, OnboardingInv, CreationInv, OnboardingTypeOK, Creating
<1> QED BY <1>3, <1>4, <1>5

(* A removal that takes effect drops its document, whatever was uploaded   *)
(* since it began.                                                         *)
THEOREM RemovalsDrop == OnboardingSpec => RemovalDrops
<1>1. OnboardingTypeOK /\ OnboardingInv /\ [OnboardingNext]_onboardingVars
        => \A q \in Requests : DropsRemoved(q)
  BY StepDropsRemoved
<1> QED BY <1>1, OnboardingInvariant, PTL DEF RemovalDrops, OnboardingSpec, DropsRemoved
=============================================================================
