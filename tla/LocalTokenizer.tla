--------------------------- MODULE LocalTokenizer ---------------------------
(***************************************************************************)
(* The gateway's local tokenizer (internal/gateway/local_tokenizer.go) for *)
(* one model id: assets in the gateway's store (internal/gateway/store.go, *)
(* ConnStore), what the gateway believes the sidecar has loaded, and the   *)
(* sidecar itself (sidecars/tokenizer/server.py).                          *)
(*                                                                         *)
(* Handlers serve requests to tokenize and profile uploads; every call of  *)
(* one to the store or the sidecar, and every critical section of the      *)
(* loaded map, is a step.  The sidecar registers a model on its event      *)
(* loop, in one step.  An asset is the document; its zip is a file of its  *)
(* own, with a new id for every upload, which stands for the document's    *)
(* timestamp as well.  A digest is the value it is a digest of.            *)
(*                                                                         *)
(* Proxying the profile to a backend and the admission that follows a      *)
(* token count are left out, and an upload that copies the zip of another  *)
(* cluster is an upload of that zip.                                       *)
(***************************************************************************)
EXTENDS Naturals, FiniteSets

CONSTANTS
    Clusters,     \* clusters with a profile of the model
    Handlers,     \* requests the gateway serves at the same time
    Zips,         \* tokenizers that may be uploaded
    Templates,    \* chat templates that may be uploaded
    None,         \* no zip, no template, no cluster, no document
    MaxFiles,     \* bound: zips uploaded
    MaxFaults     \* bound: restarts of the sidecar and the gateway, calls that fail

ASSUME LocalTokenizerAssumption ==
    /\ None \notin Clusters \cup Zips \cup Templates
    /\ None \notin [file : Nat \ {0}, zip : Zips, sum : Templates \cup {None}]
    /\ MaxFiles \in Nat /\ MaxFaults \in Nat

VARIABLES
    assets,      \* cluster -> the document of its asset: [file, zip, template, sum], or None
    files,       \* ids of the zips in the store
    lastFile,    \* the last id given
    loaded,      \* gateway: cluster -> what it believes is loaded: [file, zip, sum], or None
    sidecar,     \* what the sidecar has loaded for the model: [zip, template]
    pc,          \* handler -> its next step
    job,         \* handler -> [upload, cluster, zip, template, asset, sum, old, retried]
    faults,      \* restarts and failed calls so far
    outcome,     \* the last handler that ended: [result, cluster, material, lone] (history)
    alone,       \* handlers that no other and no fault has disturbed (history)
    own,         \* cluster -> zips its asset ever had (history)
    expected     \* what a lone request should be tokenized with (history)

store == <<assets, files, lastFile>>
history == <<outcome, alone, own, expected>>
vars == <<store, loaded, sidecar, pc, job, faults, history>>

Nothing == [zip |-> None, template |-> None]
NoJob == [upload |-> FALSE, cluster |-> None, zip |-> None, template |-> None,
          asset |-> None, sum |-> None, old |-> 0, retried |-> FALSE]
NoOutcome == [result |-> "none", cluster |-> None, material |-> Nothing, lone |-> FALSE]

\* The upload whose material a lone request must get: "now", or "later", when
\* the sidecar has been restarted.
NoExpectation == [when |-> "never", cluster |-> None, material |-> Nothing]

Active == {h \in Handlers : pc[h] # "idle"}

Init ==
    /\ assets = [c \in Clusters |-> None] /\ files = {} /\ lastFile = 0
    /\ loaded = [c \in Clusters |-> None]
    /\ sidecar = Nothing
    /\ pc = [h \in Handlers |-> "idle"] /\ job = [h \in Handlers |-> NoJob]
    /\ faults = 0
    /\ outcome = NoOutcome /\ alone = {} /\ own = [c \in Clusters |-> {}]
    /\ expected = NoExpectation

-----------------------------------------------------------------------------
(***************************************************************************)
(* A handler starts, moves on, and ends                                    *)
(***************************************************************************)

Start(h, first, record) ==
    /\ pc[h] = "idle"
    /\ pc' = [pc EXCEPT ![h] = first]
    /\ job' = [job EXCEPT ![h] = record]
    /\ alone' = IF Active = {} THEN {h} ELSE {}
    /\ expected' = IF Active = {} /\ ~record.upload /\ record.cluster = expected.cluster
                   THEN expected ELSE NoExpectation
    /\ outcome' = NoOutcome
    /\ UNCHANGED <<store, loaded, sidecar, faults, own>>

Goto(h, next, record) ==
    /\ pc' = [pc EXCEPT ![h] = next]
    /\ job' = [job EXCEPT ![h] = record]
    /\ UNCHANGED <<outcome, alone, expected>>

End(h, result, material) ==
    /\ pc' = [pc EXCEPT ![h] = "idle"]
    /\ job' = [job EXCEPT ![h] = NoJob]
    /\ outcome' = [result |-> result, cluster |-> job[h].cluster, material |-> material, lone |-> h \in alone]
    /\ alone' = {}
    /\ expected' = IF result = "stored" /\ h \in alone
                   THEN [when |-> IF sidecar = material THEN "now" ELSE "later",
                         cluster |-> job[h].cluster, material |-> material]
                   ELSE expected

Fail(h) == End(h, "failed", Nothing)

\* A request to tokenize, for admission or for a preview.
Request(h) ==
    \E c \in Clusters : Start(h, "get", [NoJob EXCEPT !.cluster = c])

\* A profile is uploaded, with a zip, a chat template, both or neither.
Upload(h) ==
    /\ lastFile + Cardinality({g \in Handlers : job[g].upload}) < MaxFiles
    /\ \E c \in Clusters, zip \in Zips \cup {None}, template \in Templates \cup {None} :
          Start(h, "existing", [NoJob EXCEPT !.upload = TRUE, !.cluster = c, !.zip = zip, !.template = template])

-----------------------------------------------------------------------------
(***************************************************************************)
(* The sidecar, and what the gateway believes of it                        *)
(***************************************************************************)

\* The zip is extracted into the model's directory, but a model that is already
\* loaded from there stays unless a chat template is given and is another.
Registered(zip, template) ==
    IF sidecar.zip # None /\ template \in {None, sidecar.template}
    THEN sidecar ELSE [zip |-> zip, template |-> template]

StateOf(asset) == [file |-> asset.file, zip |-> asset.zip, sum |-> asset.sum]

\* registerLocalTokenizer answers with the digest of the template that is loaded.
Register(h) ==
    /\ pc[h] = "register"
    /\ sidecar' = Registered(job[h].zip, job[h].template)
    /\ Goto(h, IF job[h].upload THEN "put" ELSE "mark", [job[h] EXCEPT !.sum = sidecar'.template])
    /\ UNCHANGED <<store, loaded, faults, own>>

MarkLoaded(h) ==
    /\ pc[h] = "mark"
    /\ ~job[h].upload
    /\ loaded' = [loaded EXCEPT ![job[h].cluster] =
                    [StateOf(job[h].asset) EXCEPT !.sum = IF job[h].sum # None THEN job[h].sum ELSE @]]
    /\ Goto(h, "tokenize", job[h])
    /\ UNCHANGED <<store, sidecar, faults, own>>

\* An upload marks the timestamp it wrote; the store keeps milliseconds of it,
\* so that the mark seldom equals what a request reads later.
MarkStored(h) ==
    /\ pc[h] = "mark"
    /\ job[h].upload
    /\ loaded' \in {[loaded EXCEPT ![job[h].cluster] = mark] : mark \in {None, StateOf(job[h].asset)}}
    /\ End(h, "stored", [zip |-> job[h].zip, template |-> job[h].template])
    /\ UNCHANGED <<store, sidecar, faults, own>>

-----------------------------------------------------------------------------
(***************************************************************************)
(* A request: ensureLocalTokenizer and tokenizeLocalChat                   *)
(***************************************************************************)

GetAsset(h) ==
    /\ pc[h] = "get"
    /\ IF assets[job[h].cluster] = None
       THEN Fail(h)
       ELSE Goto(h, "check", [job[h] EXCEPT !.asset = assets[job[h].cluster]])
    /\ UNCHANGED <<store, loaded, sidecar, faults, own>>

CheckLoaded(h) ==
    /\ pc[h] = "check"
    /\ Goto(h, IF loaded[job[h].cluster] = StateOf(job[h].asset) THEN "tokenize" ELSE "read", job[h])
    /\ UNCHANGED <<store, loaded, sidecar, faults, own>>

ReadZip(h) ==
    /\ pc[h] = "read"
    /\ IF job[h].asset.file \notin files
       THEN Fail(h)
       ELSE Goto(h, "register", [job[h] EXCEPT !.zip = job[h].asset.zip,
                                              !.template = IF job[h].upload THEN @ ELSE job[h].asset.template])
    /\ UNCHANGED <<store, loaded, sidecar, faults, own>>

\* The first failure forgets the mark and registers again, the second is final.
Tokenize(h) ==
    /\ pc[h] = "tokenize"
    /\ IF sidecar # Nothing THEN End(h, "tokenized", sidecar)
       ELSE IF job[h].retried THEN Fail(h)
       ELSE Goto(h, "clear", [job[h] EXCEPT !.retried = TRUE])
    /\ UNCHANGED <<store, loaded, sidecar, faults, own>>

\* Mistake: the mark is kept.
ClearNothing(h) ==
    /\ pc[h] = "clear"
    /\ Goto(h, "get", job[h])
    /\ UNCHANGED <<store, loaded, sidecar, faults, own>>

ClearLoaded(h) ==
    /\ pc[h] = "clear"
    /\ loaded' = [loaded EXCEPT ![job[h].cluster] = None]
    /\ Goto(h, "get", job[h])
    /\ UNCHANGED <<store, sidecar, faults, own>>

-----------------------------------------------------------------------------
(***************************************************************************)
(* An upload: handleModelProfileUpsert and PutTokenizerAsset               *)
(***************************************************************************)

\* What the upload does not bring is taken from the asset, if there is one.
ReadExisting(h) ==
    LET existing == assets[job[h].cluster]
        template == IF job[h].template = None /\ existing # None THEN existing.template ELSE job[h].template
        record   == [job[h] EXCEPT !.template = template, !.asset = existing]
    IN  /\ pc[h] = "existing"
        /\ IF job[h].zip # None THEN Goto(h, "register", record)
           ELSE IF existing # None THEN Goto(h, "read", record)
           ELSE Fail(h)
        /\ UNCHANGED <<store, loaded, sidecar, faults, own>>

\* Mistake: the template is kept even if the upload brings one.
DocumentWithOldTemplate(j) ==
    [file |-> lastFile + 1, zip |-> j.zip, sum |-> j.sum,
     template |-> IF j.asset # None THEN j.asset.template ELSE j.template]

\* PutTokenizerAsset over the existing document; an empty template and an empty
\* digest keep the old ones.
Document(j) ==
    LET old == IF j.asset = None THEN [template |-> None, sum |-> None] ELSE j.asset
        kept == IF j.template # None THEN j.template ELSE old.sum
    IN  [file |-> lastFile + 1, zip |-> j.zip,
         template |-> IF j.template # None THEN j.template ELSE old.template,
         sum |-> IF j.sum # None THEN j.sum ELSE kept]

PutReads(h) ==
    /\ pc[h] = "put"
    /\ LET existing == assets[job[h].cluster]
       IN  Goto(h, "store", [job[h] EXCEPT !.asset = existing,
                                           !.old = IF existing = None THEN 0 ELSE existing.file])
    /\ UNCHANGED <<store, loaded, sidecar, faults, own>>

\* Mistake: the old zip goes before the document is replaced.
StoreZipAndDrop(h) ==
    /\ pc[h] = "store"
    /\ lastFile' = lastFile + 1
    /\ files' = (files \ {job[h].old}) \cup {lastFile'}
    /\ Goto(h, "replace", [job[h] EXCEPT !.asset = Document(job[h])])
    /\ UNCHANGED <<assets, loaded, sidecar, faults, own>>

StoreZip(h) ==
    /\ pc[h] = "store"
    /\ lastFile' = lastFile + 1
    /\ files' = files \cup {lastFile'}
    /\ Goto(h, "replace", [job[h] EXCEPT !.asset = Document(job[h])])
    /\ UNCHANGED <<assets, loaded, sidecar, faults, own>>

ReplaceAsset(h) ==
    /\ pc[h] = "replace"
    /\ assets' = [assets EXCEPT ![job[h].cluster] = job[h].asset]
    /\ own' = [own EXCEPT ![job[h].cluster] = @ \cup {job[h].zip}]
    /\ Goto(h, "drop", job[h])
    /\ UNCHANGED <<files, lastFile, loaded, sidecar, faults>>

DropOldZip(h) ==
    /\ pc[h] = "drop"
    /\ files' = files \ {job[h].old}
    /\ Goto(h, "mark", job[h])
    /\ UNCHANGED <<assets, lastFile, loaded, sidecar, faults, own>>

-----------------------------------------------------------------------------
(***************************************************************************)
(* Faults                                                                  *)
(***************************************************************************)

Fault ==
    /\ faults < MaxFaults
    /\ faults' = faults + 1
    /\ alone' = {}

SidecarRestart ==
    /\ Fault
    /\ sidecar' = Nothing
    /\ expected' = IF Active = {} /\ expected.when = "later" THEN [expected EXCEPT !.when = "now"]
                   ELSE IF Active = {} THEN expected ELSE NoExpectation
    /\ outcome' = NoOutcome
    /\ UNCHANGED <<store, loaded, pc, job, own>>

\* The handlers under way are cut off wherever they are.
GatewayRestart ==
    /\ Fault
    /\ loaded' = [c \in Clusters |-> None]
    /\ pc' = [h \in Handlers |-> "idle"] /\ job' = [h \in Handlers |-> NoJob]
    /\ outcome' = NoOutcome
    /\ expected' = IF Active = {} THEN expected ELSE NoExpectation
    /\ UNCHANGED <<store, sidecar, own>>

\* A call fails, with or without its effect, or the request's time is up.  A
\* zip that cannot be dropped stays.
CallFails(h) ==
    /\ pc[h] \in {"get", "read", "register", "existing", "put", "store", "replace", "tokenize"}
                     \cup (IF job[h].upload THEN {"drop"} ELSE {"mark"})
    /\ Fault
    /\ \/ /\ pc[h] = "drop"
          /\ pc' = [pc EXCEPT ![h] = "mark"]
          /\ UNCHANGED job
       \/ /\ pc[h] = "tokenize" /\ ~job[h].retried
          /\ pc' = [pc EXCEPT ![h] = "clear"]
          /\ job' = [job EXCEPT ![h].retried = TRUE]
       \/ /\ pc[h] = "tokenize" => job[h].retried
          /\ pc' = [pc EXCEPT ![h] = "idle"]
          /\ job' = [job EXCEPT ![h] = NoJob]
    /\ outcome' = NoOutcome
    /\ expected' = NoExpectation
    /\ UNCHANGED <<store, loaded, sidecar, own>>

-----------------------------------------------------------------------------

Tokenizing(h) == Request(h) \/ GetAsset(h) \/ CheckLoaded(h) \/ MarkLoaded(h) \/ Tokenize(h) \/ ClearLoaded(h)

Uploading(h) ==
    \/ Upload(h) \/ ReadExisting(h) \/ PutReads(h) \/ StoreZip(h) \/ ReplaceAsset(h)
    \/ DropOldZip(h) \/ MarkStored(h)

Next ==
    \/ \E h \in Handlers : Tokenizing(h) \/ Uploading(h) \/ ReadZip(h) \/ Register(h) \/ CallFails(h)
    \/ SidecarRestart
    \/ GatewayRestart

Spec == Init /\ [][Next]_vars

-----------------------------------------------------------------------------
(***************************************************************************)
(* Properties                                                              *)
(***************************************************************************)

Material == [zip : Zips \cup {None}, template : Templates \cup {None}]
Files == Nat \ {0}
Asset == [file : Files, zip : Zips, template : Templates \cup {None}, sum : Templates \cup {None}]
Mark == [file : Files, zip : Zips, sum : Templates \cup {None}]
Job == [upload : BOOLEAN, cluster : Clusters \cup {None}, zip : Zips \cup {None},
        template : Templates \cup {None}, asset : Asset \cup {None}, sum : Templates \cup {None},
        old : Nat, retried : BOOLEAN]
Outcome == [result : {"none", "failed", "stored", "tokenized"}, cluster : Clusters \cup {None},
            material : Material, lone : BOOLEAN]
Expectation == [when : {"never", "now", "later"}, cluster : Clusters \cup {None}, material : Material]
Steps == {"idle", "get", "check", "read", "register", "mark", "tokenize", "clear",
          "existing", "put", "store", "replace", "drop"}

\* Every variable of the local tokenizer has its type.
TypeOK ==
    /\ assets \in [Clusters -> Asset \cup {None}]
    /\ lastFile \in Nat /\ files \subseteq 1..lastFile
    /\ loaded \in [Clusters -> Mark \cup {None}]
    /\ sidecar \in Material
    /\ pc \in [Handlers -> Steps] /\ job \in [Handlers -> Job]
    /\ faults \in Nat
    /\ outcome \in Outcome /\ alone \subseteq Handlers
    /\ own \in [Clusters -> SUBSET Zips]
    /\ expected \in Expectation

\* PutTokenizerAsset stores a zip, points the document at it and drops the old
\* one, in three calls that may fail and overlap with other uploads: the zip a
\* document points at is never dropped.
AssetHasItsZip ==
    \A c \in Clusters : assets[c] # None => assets[c].file \in files

\* tokenizeLocalChat: whatever restarts and failed calls left behind, a handler
\* that nothing disturbs fails only for want of an asset.
LoneHandlersSucceed ==
    outcome.lone /\ outcome.result = "failed" => assets[outcome.cluster] = None

\* After an upload, and after a restart of the sidecar, a request of the same
\* cluster is tokenized with exactly what was uploaded.
UploadSurvivesRestart ==
    /\ outcome.lone /\ outcome.result = "tokenized"
    /\ expected.when = "now" /\ expected.cluster = outcome.cluster
    => outcome.material = expected.material

\* "Tokenizer assets remain keyed by (cluster, model_id), so two virtual clusters
\* can upload different tokenizer zips or chat templates for the same model id"
\* (docs/superpowers/specs/2026-06-17-gateway-virtual-clusters-design.md): a
\* request is tokenized with a zip of its own cluster.
TokenizedWithOwnAsset ==
    outcome.lone /\ outcome.result = "tokenized" => outcome.material.zip \in own[outcome.cluster]

=============================================================================
