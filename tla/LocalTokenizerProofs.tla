------------------------ MODULE LocalTokenizerProofs ------------------------
(***************************************************************************)
(* Proofs about the gateway's local tokenizer, for any number of clusters, *)
(* handlers, tokenizers and templates and any number of uploads and        *)
(* faults.                                                                 *)
(*                                                                         *)
(* A document never loses its zip because the file a handler is about to   *)
(* drop is no one's: not of a document, and not of a handler that is about *)
(* to make it a document's.                                                *)
(*                                                                         *)
(* A handler that nothing disturbs does well because what it read is still *)
(* so, and because a second attempt to tokenize registers the model first. *)
(***************************************************************************)
EXTENDS LocalTokenizer, TLAPS

\* A handler has read what its next step needs.
Prepared ==
    \A h \in Handlers :
        /\ pc[h] # "idle" => job[h].cluster \in Clusters
        /\ pc[h] \in {"check", "read", "mark", "replace", "drop"} => job[h].asset \in Asset
        /\ pc[h] = "register" /\ ~job[h].upload => job[h].asset \in Asset
        /\ pc[h] = "existing" => job[h].upload
        /\ pc[h] \in {"register", "put", "store", "replace", "drop"} => job[h].zip \in Zips

\* No two documents share a file.
FilesAreOfOneCluster ==
    \A c, d \in Clusters : c # d /\ assets[c] # None /\ assets[d] # None => assets[c].file # assets[d].file

\* The zip of a document that is about to be written is stored and its own.
NewFileIsOwn ==
    \A h \in Handlers : pc[h] = "replace" =>
        /\ job[h].asset.file \in files
        /\ \A c \in Clusters : assets[c] # None => assets[c].file # job[h].asset.file
        /\ \A g \in Handlers \ {h} : pc[g] = "replace" => job[g].asset.file # job[h].asset.file

\* The file a handler will drop may be that of the cluster it writes, until it
\* has written it, and of no other document, written or about to be.
OldFileIsDone ==
    \A h \in Handlers : pc[h] \in {"store", "replace", "drop"} =>
        /\ job[h].old <= lastFile
        /\ \A c \in Clusters : assets[c] # None /\ (c # job[h].cluster \/ pc[h] = "drop") =>
              assets[c].file # job[h].old
        /\ \A g \in Handlers : pc[g] = "replace" => job[g].asset.file # job[h].old

Zipped == AssetHasItsZip /\ FilesAreOfOneCluster /\ NewFileIsOwn /\ OldFileIsDone

IInv == TypeOK /\ Prepared /\ Zipped

-----------------------------------------------------------------------------
(***************************************************************************)
(* Types                                                                   *)
(***************************************************************************)

LEMMA ConstantsTyped ==
    /\ NoJob \in Job /\ NoJob.cluster = None
    /\ Nothing \in Material /\ NoOutcome \in Outcome /\ NoExpectation \in Expectation
BY DEF NoJob, Job, Nothing, Material, NoOutcome, Outcome, NoExpectation, Expectation

LEMMA InitInvariant == Init => IInv
<1> SUFFICES ASSUME Init PROVE IInv
  OBVIOUS
<1>1. TypeOK
  BY ConstantsTyped DEF Init, TypeOK, Steps
<1>2. \A h \in Handlers : pc[h] = "idle"
  BY DEF Init
<1>3. Prepared /\ Zipped
  BY <1>2 DEF Init, Prepared, Zipped, AssetHasItsZip, FilesAreOfOneCluster, NewFileIsOwn, OldFileIsDone
<1> QED
  BY <1>1, <1>3 DEF IInv

\* The steps of a handler give a step and a job of its type, prepared for that step.
LEMMA PreparedFor ==
    ASSUME TypeOK, Prepared, NEW h \in Handlers, NEW next \in Steps, NEW record \in Job,
           pc' = [pc EXCEPT ![h] = next], job' = [job EXCEPT ![h] = record],
           next # "idle" => record.cluster \in Clusters,
           next \in {"check", "read", "mark", "replace", "drop"} => record.asset \in Asset,
           next = "register" /\ ~record.upload => record.asset \in Asset,
           next = "existing" => record.upload,
           next \in {"register", "put", "store", "replace", "drop"} => record.zip \in Zips
    PROVE  /\ pc' \in [Handlers -> Steps] /\ job' \in [Handlers -> Job]
           /\ Prepared'
<1>1. pc' \in [Handlers -> Steps] /\ job' \in [Handlers -> Job]
  BY DEF TypeOK
<1>2. ASSUME NEW g \in Handlers
      PROVE  /\ pc'[g] # "idle" => job'[g].cluster \in Clusters
             /\ pc'[g] \in {"check", "read", "mark", "replace", "drop"} => job'[g].asset \in Asset
             /\ pc'[g] = "register" /\ ~job'[g].upload => job'[g].asset \in Asset
             /\ pc'[g] = "existing" => job'[g].upload
             /\ pc'[g] \in {"register", "put", "store", "replace", "drop"} => job'[g].zip \in Zips
  <2>1. CASE g = h
    <3>1. pc'[g] = next /\ job'[g] = record
      BY <2>1 DEF TypeOK
    <3> QED
      BY <3>1
  <2>2. CASE g # h
    <3>1. pc'[g] = pc[g] /\ job'[g] = job[g]
      BY <2>2 DEF TypeOK
    <3> QED
      BY <3>1 DEF Prepared
  <2> QED
    BY <2>1, <2>2
<1>3. Prepared'
  BY <1>2 DEF Prepared
<1> QED
  BY <1>1, <1>3

\* A job that ends leaves nothing to prepare.
LEMMA EndTyped ==
    ASSUME TypeOK, Prepared, NEW h \in Handlers, pc[h] # "idle",
           NEW result \in {"failed", "stored", "tokenized"}, NEW material \in Material,
           End(h, result, material), UNCHANGED sidecar
    PROVE  /\ pc' \in [Handlers -> Steps] /\ job' \in [Handlers -> Job] /\ Prepared'
           /\ outcome' \in Outcome /\ alone' \subseteq Handlers /\ expected' \in Expectation
<1>1. pc' = [pc EXCEPT ![h] = "idle"] /\ job' = [job EXCEPT ![h] = NoJob]
  BY DEF End
<1>2. "idle" \in Steps
  BY DEF Steps
<1>3. pc' \in [Handlers -> Steps] /\ job' \in [Handlers -> Job] /\ Prepared'
  BY <1>1, <1>2, ConstantsTyped, PreparedFor
<1>4. job[h].cluster \in Clusters
  BY DEF Prepared
<1>5. outcome' \in Outcome /\ alone' \subseteq Handlers
  BY <1>4 DEF End, Outcome
<1>6. expected' \in Expectation
  BY <1>4 DEF End, Expectation, TypeOK
<1> QED
  BY <1>3, <1>5, <1>6

\* What a step of one handler leaves as it was but its own step and job.
LEMMA GotoTyped ==
    ASSUME TypeOK, Prepared, NEW h \in Handlers, NEW next \in Steps \ {"idle"}, NEW record \in Job,
           Goto(h, next, record),
           record.cluster \in Clusters,
           next \in {"check", "read", "mark", "replace", "drop"} => record.asset \in Asset,
           next = "register" /\ ~record.upload => record.asset \in Asset,
           next = "existing" => record.upload,
           next \in {"register", "put", "store", "replace", "drop"} => record.zip \in Zips
    PROVE  /\ pc' \in [Handlers -> Steps] /\ job' \in [Handlers -> Job] /\ Prepared'
           /\ outcome' \in Outcome /\ alone' \subseteq Handlers /\ expected' \in Expectation
<1>1. pc' = [pc EXCEPT ![h] = next] /\ job' = [job EXCEPT ![h] = record]
  BY DEF Goto
<1>2. pc' \in [Handlers -> Steps] /\ job' \in [Handlers -> Job] /\ Prepared'
  BY <1>1, PreparedFor
<1>3. outcome' \in Outcome /\ alone' \subseteq Handlers /\ expected' \in Expectation
  BY DEF Goto, TypeOK
<1> QED
  BY <1>2, <1>3

LEMMA StartTyped ==
    ASSUME TypeOK, Prepared, NEW h \in Handlers, NEW first \in {"get", "existing"}, NEW record \in Job,
           record.cluster \in Clusters, first = "existing" => record.upload, Start(h, first, record)
    PROVE  TypeOK' /\ Prepared'
<1>1. first \in Steps
  BY DEF Steps
<1>2. pc' = [pc EXCEPT ![h] = first] /\ job' = [job EXCEPT ![h] = record]
  BY DEF Start
<1>3. pc' \in [Handlers -> Steps] /\ job' \in [Handlers -> Job] /\ Prepared'
  BY <1>1, <1>2, PreparedFor
<1>4. outcome' \in Outcome /\ alone' \subseteq Handlers /\ expected' \in Expectation
  BY ConstantsTyped DEF Start, TypeOK
<1>5. UNCHANGED <<store, loaded, sidecar, faults, own>>
  BY DEF Start
<1> QED
  BY <1>3, <1>4, <1>5 DEF TypeOK, store

LEMMA RequestTyped ==
    ASSUME TypeOK, Prepared, NEW h \in Handlers, Request(h) \/ Upload(h)
    PROVE  TypeOK' /\ Prepared'
<1>1. CASE Request(h)
  <2>1. PICK c \in Clusters : Start(h, "get", [NoJob EXCEPT !.cluster = c])
    BY <1>1 DEF Request
  <2>2. /\ [NoJob EXCEPT !.cluster = c] \in Job
        /\ [NoJob EXCEPT !.cluster = c].cluster = c
    BY ConstantsTyped DEF Job
  <2> QED
    BY <2>1, <2>2, StartTyped
<1>2. CASE Upload(h)
  <2>1. PICK c \in Clusters, zip \in Zips \cup {None}, template \in Templates \cup {None} :
           Start(h, "existing", [NoJob EXCEPT !.upload = TRUE, !.cluster = c, !.zip = zip, !.template = template])
    BY <1>2 DEF Upload
  <2> DEFINE record == [NoJob EXCEPT !.upload = TRUE, !.cluster = c, !.zip = zip, !.template = template]
  <2>2. record \in Job /\ record.cluster = c /\ record.upload
    BY ConstantsTyped DEF Job
  <2> QED
    BY <2>1, <2>2, StartTyped
<1> QED
  BY <1>1, <1>2

\* The steps of a handler that leave the store and the sidecar alone.
LEMMA ReadingTyped ==
    ASSUME TypeOK, Prepared, NEW h \in Handlers,
           GetAsset(h) \/ CheckLoaded(h) \/ ReadZip(h) \/ Tokenize(h) \/ ClearLoaded(h)
               \/ ReadExisting(h) \/ PutReads(h)
    PROVE  TypeOK' /\ Prepared'
<1> DEFINE Good == /\ pc' \in [Handlers -> Steps] /\ job' \in [Handlers -> Job] /\ Prepared'
                   /\ outcome' \in Outcome /\ alone' \subseteq Handlers /\ expected' \in Expectation
<1>1. /\ UNCHANGED <<store, sidecar, faults, own>>
      /\ loaded' = loaded \/ loaded' = [loaded EXCEPT ![job[h].cluster] = None]
  BY DEF GetAsset, CheckLoaded, ReadZip, Tokenize, ClearLoaded, ReadExisting, PutReads
<1>2. job[h] \in Job /\ pc[h] # "idle" /\ job[h].cluster \in Clusters
  <2>1. pc[h] # "idle"
    BY DEF GetAsset, CheckLoaded, ReadZip, Tokenize, ClearLoaded, ReadExisting, PutReads
  <2> QED
    BY <2>1 DEF TypeOK, Prepared
<1>3. assets[job[h].cluster] \in Asset \cup {None}
  BY <1>2 DEF TypeOK
<1> SUFFICES Good
  BY <1>1, <1>2 DEF TypeOK, store
<1>4. ASSUME Fail(h) PROVE Good
  BY <1>1, <1>2, <1>4, ConstantsTyped, EndTyped DEF Fail
<1>5. CASE GetAsset(h)
  <2>1. CASE assets[job[h].cluster] = None
    BY <1>4, <1>5, <2>1 DEF GetAsset
  <2>2. CASE assets[job[h].cluster] # None
    <3> DEFINE record == [job[h] EXCEPT !.asset = assets[job[h].cluster]]
    <3>1. record \in Job /\ record.cluster \in Clusters /\ record.asset \in Asset
      BY <1>2, <1>3, <2>2 DEF Job
    <3>2. Goto(h, "check", record)
      BY <1>5, <2>2 DEF GetAsset
    <3> HIDE DEF record
    <3> QED
      BY <3>1, <3>2, GotoTyped DEF Steps
  <2> QED
    BY <2>1, <2>2
<1>6. CASE CheckLoaded(h)
  <2>1. /\ job[h].asset \in Asset
        /\ Goto(h, "tokenize", job[h]) \/ Goto(h, "read", job[h])
    BY <1>6 DEF CheckLoaded, Prepared
  <2> QED
    BY <1>2, <2>1, GotoTyped DEF Steps
<1>7. CASE ReadZip(h)
  <2>1. CASE job[h].asset.file \notin files
    BY <1>4, <1>7, <2>1 DEF ReadZip
  <2>2. CASE job[h].asset.file \in files
    <3> DEFINE record == [job[h] EXCEPT !.zip = job[h].asset.zip,
                                        !.template = IF job[h].upload THEN @ ELSE job[h].asset.template]
    <3>1. job[h].asset \in Asset
      BY <1>7 DEF ReadZip, Prepared
    <3>2. record \in Job /\ record.cluster \in Clusters /\ record.asset \in Asset /\ record.zip \in Zips
      BY <1>2, <3>1 DEF Job, Asset
    <3>3. Goto(h, "register", record)
      BY <1>7, <2>2 DEF ReadZip
    <3> HIDE DEF record
    <3> QED
      BY <3>2, <3>3, GotoTyped DEF Steps
  <2> QED
    BY <2>1, <2>2
<1>8. CASE Tokenize(h)
  <2>1. CASE sidecar # Nothing
    <3>1. End(h, "tokenized", sidecar) /\ sidecar \in Material
      BY <1>8, <2>1 DEF Tokenize, TypeOK
    <3> QED
      BY <1>1, <1>2, <3>1, EndTyped
  <2>2. CASE sidecar = Nothing /\ job[h].retried
    BY <1>4, <1>8, <2>2 DEF Tokenize
  <2>3. CASE sidecar = Nothing /\ ~job[h].retried
    <3> DEFINE record == [job[h] EXCEPT !.retried = TRUE]
    <3>1. record \in Job /\ record.cluster \in Clusters
      BY <1>2 DEF Job
    <3>2. Goto(h, "clear", record)
      BY <1>8, <2>3 DEF Tokenize
    <3> HIDE DEF record
    <3> QED
      BY <3>1, <3>2, GotoTyped DEF Steps
  <2> QED
    BY <2>1, <2>2, <2>3
<1>9. CASE ClearLoaded(h)
  BY <1>2, <1>9, GotoTyped DEF ClearLoaded, Steps
<1>10. CASE ReadExisting(h)
  <2> DEFINE existing == assets[job[h].cluster]
             template == IF job[h].template = None /\ existing # None THEN existing.template ELSE job[h].template
             record == [job[h] EXCEPT !.template = template, !.asset = existing]
  <2>1. template \in Templates \cup {None}
    BY <1>2, <1>3 DEF Job, Asset
  <2>2. record \in Job /\ record.cluster \in Clusters /\ record.asset = existing /\ record.zip = job[h].zip
        /\ record.upload = job[h].upload
    BY <1>2, <1>3, <2>1 DEF Job
  <2>3. \/ job[h].zip # None /\ Goto(h, "register", record)
        \/ existing # None /\ Goto(h, "read", record)
        \/ Fail(h)
    BY <1>10 DEF ReadExisting
  <2>4. job[h].upload
    BY <1>10 DEF ReadExisting, Prepared
  <2> HIDE DEF record
  <2> QED
    BY <1>2, <1>3, <1>4, <2>2, <2>3, <2>4, GotoTyped DEF Steps, Job
<1>11. CASE PutReads(h)
  <2> DEFINE existing == assets[job[h].cluster]
             record == [job[h] EXCEPT !.asset = existing, !.old = IF existing = None THEN 0 ELSE existing.file]
  <2>1. (IF existing = None THEN 0 ELSE existing.file) \in Nat
    BY <1>3 DEF Asset, Files
  <2>2. record \in Job /\ record.cluster \in Clusters /\ record.zip = job[h].zip
    BY <1>2, <1>3, <2>1 DEF Job
  <2>3. Goto(h, "store", record) /\ job[h].zip \in Zips
    BY <1>11 DEF PutReads, Prepared
  <2> HIDE DEF record
  <2> QED
    BY <2>2, <2>3, GotoTyped DEF Steps
<1> QED
  BY <1>5, <1>6, <1>7, <1>8, <1>9, <1>10, <1>11

\* What the sidecar has loaded after a registration is one zip and one template.
LEMMA RegisterTyped ==
    ASSUME TypeOK, Prepared, NEW h \in Handlers, Register(h)
    PROVE  TypeOK' /\ Prepared'
<1>1. job[h] \in Job /\ job[h].cluster \in Clusters /\ job[h].zip \in Zips
  BY DEF Register, TypeOK, Prepared
<1>2. sidecar' \in Material
  BY <1>1 DEF Register, Registered, TypeOK, Material, Job
<1> DEFINE record == [job[h] EXCEPT !.sum = sidecar'.template]
           next == IF job[h].upload THEN "put" ELSE "mark"
<1>3. /\ record \in Job /\ record.cluster \in Clusters /\ record.zip \in Zips
      /\ record.asset = job[h].asset /\ record.upload = job[h].upload
  BY <1>1, <1>2 DEF Job, Material
<1>4. Goto(h, next, record) /\ next \in Steps \ {"idle"}
  BY DEF Register, Steps
<1>5. next = "mark" => job[h].asset \in Asset
  BY DEF Register, Prepared
<1>6. next \notin {"check", "read", "replace", "drop", "register", "existing"}
  OBVIOUS
<1>7. UNCHANGED <<store, loaded, faults, own>>
  BY DEF Register
<1> HIDE DEF record, next
<1>8. /\ pc' \in [Handlers -> Steps] /\ job' \in [Handlers -> Job] /\ Prepared'
      /\ outcome' \in Outcome /\ alone' \subseteq Handlers /\ expected' \in Expectation
  BY <1>3, <1>4, <1>5, <1>6, GotoTyped
<1> QED
  BY <1>2, <1>7, <1>8 DEF TypeOK, store

LEMMA MarkTyped ==
    ASSUME TypeOK, Prepared, NEW h \in Handlers, MarkLoaded(h) \/ MarkStored(h)
    PROVE  TypeOK' /\ Prepared'
<1>1. job[h] \in Job /\ job[h].cluster \in Clusters /\ job[h].asset \in Asset /\ pc[h] = "mark"
  BY DEF MarkLoaded, MarkStored, TypeOK, Prepared
<1>2. StateOf(job[h].asset) \in Mark
  BY <1>1 DEF StateOf, Asset, Mark
<1>3. UNCHANGED <<store, sidecar, faults, own>>
  BY DEF MarkLoaded, MarkStored
<1>4. CASE MarkLoaded(h)
  <2> DEFINE mark == [StateOf(job[h].asset) EXCEPT !.sum = IF job[h].sum # None THEN job[h].sum ELSE @]
  <2>1. mark \in Mark
    BY <1>1, <1>2 DEF Mark, Job
  <2>2. loaded' = [loaded EXCEPT ![job[h].cluster] = mark] /\ Goto(h, "tokenize", job[h])
    BY <1>4 DEF MarkLoaded
  <2> HIDE DEF mark
  <2>3. loaded' \in [Clusters -> Mark \cup {None}]
    BY <1>1, <2>1, <2>2 DEF TypeOK
  <2>4. /\ pc' \in [Handlers -> Steps] /\ job' \in [Handlers -> Job] /\ Prepared'
        /\ outcome' \in Outcome /\ alone' \subseteq Handlers /\ expected' \in Expectation
    BY <1>1, <2>2, GotoTyped DEF Steps
  <2> QED
    BY <1>3, <2>3, <2>4 DEF TypeOK, store
<1>5. CASE MarkStored(h)
  <2> DEFINE material == [zip |-> job[h].zip, template |-> job[h].template]
  <2>1. material \in Material
    BY <1>1 DEF Material, Job
  <2>2. PICK mark \in {None, StateOf(job[h].asset)} : loaded' = [loaded EXCEPT ![job[h].cluster] = mark]
    BY <1>5 DEF MarkStored
  <2>3. loaded' \in [Clusters -> Mark \cup {None}]
    BY <1>1, <1>2, <2>2 DEF TypeOK
  <2>4. End(h, "stored", material)
    BY <1>5 DEF MarkStored
  <2> HIDE DEF material
  <2>5. /\ pc' \in [Handlers -> Steps] /\ job' \in [Handlers -> Job] /\ Prepared'
        /\ outcome' \in Outcome /\ alone' \subseteq Handlers /\ expected' \in Expectation
    BY <1>1, <1>3, <2>1, <2>4, EndTyped
  <2> QED
    BY <1>3, <2>3, <2>5 DEF TypeOK, store
<1> QED
  BY <1>4, <1>5

\* PutTokenizerAsset writes documents and files of their types.
LEMMA StoringTyped ==
    ASSUME TypeOK, Prepared, NEW h \in Handlers, StoreZip(h) \/ ReplaceAsset(h) \/ DropOldZip(h)
    PROVE  TypeOK' /\ Prepared'
<1>1. /\ job[h] \in Job /\ job[h].cluster \in Clusters /\ job[h].zip \in Zips
      /\ pc[h] \in {"replace", "drop"} => job[h].asset \in Asset
  BY DEF StoreZip, ReplaceAsset, DropOldZip, TypeOK, Prepared
<1>2. UNCHANGED <<loaded, sidecar, faults>>
  BY DEF StoreZip, ReplaceAsset, DropOldZip
<1> DEFINE Good == /\ pc' \in [Handlers -> Steps] /\ job' \in [Handlers -> Job] /\ Prepared'
                   /\ outcome' \in Outcome /\ alone' \subseteq Handlers /\ expected' \in Expectation
<1>3. CASE StoreZip(h)
  <2> DEFINE record == [job[h] EXCEPT !.asset = Document(job[h])]
  <2>1. Document(job[h]) \in Asset
    BY <1>1 DEF Document, Asset, Job, Files, TypeOK
  <2>2. /\ record \in Job /\ record.cluster \in Clusters /\ record.zip \in Zips
        /\ record.asset = Document(job[h])
    BY <1>1, <2>1 DEF Job
  <2>3. Goto(h, "replace", record)
    BY <1>3 DEF StoreZip
  <2> HIDE DEF record
  <2>4. Good
    BY <2>1, <2>2, <2>3, GotoTyped DEF Steps
  <2>5. lastFile' \in Nat /\ files' \subseteq 1..lastFile' /\ assets' = assets /\ own' = own
    BY <1>3 DEF StoreZip, TypeOK
  <2> QED
    BY <1>2, <2>4, <2>5 DEF TypeOK
<1>4. CASE ReplaceAsset(h)
  <2>1. Goto(h, "drop", job[h]) /\ job[h].asset \in Asset
    BY <1>1, <1>4 DEF ReplaceAsset
  <2>2. Good
    BY <1>1, <2>1, GotoTyped DEF Steps
  <2>3. assets' \in [Clusters -> Asset \cup {None}] /\ own' \in [Clusters -> SUBSET Zips]
    BY <1>1, <1>4, <2>1 DEF ReplaceAsset, TypeOK
  <2>4. UNCHANGED <<files, lastFile>>
    BY <1>4 DEF ReplaceAsset
  <2> QED
    BY <1>2, <2>2, <2>3, <2>4 DEF TypeOK
<1>5. CASE DropOldZip(h)
  <2>1. Goto(h, "mark", job[h]) /\ job[h].asset \in Asset
    BY <1>1, <1>5 DEF DropOldZip
  <2>2. Good
    BY <1>1, <2>1, GotoTyped DEF Steps
  <2>3. files' \subseteq 1..lastFile /\ UNCHANGED <<assets, lastFile, own>>
    BY <1>5 DEF DropOldZip, TypeOK
  <2> QED
    BY <1>2, <2>2, <2>3 DEF TypeOK
<1> QED
  BY <1>3, <1>4, <1>5

\* A failed call and a restart keep the types, and prepare no step.
LEMMA FaultTyped ==
    ASSUME TypeOK, Prepared, SidecarRestart \/ GatewayRestart \/ \E h \in Handlers : CallFails(h)
    PROVE  TypeOK' /\ Prepared'
<1>1. /\ faults' \in Nat /\ alone' \subseteq Handlers /\ outcome' \in Outcome
      /\ UNCHANGED <<store, own>>
  BY ConstantsTyped DEF SidecarRestart, GatewayRestart, CallFails, Fault, TypeOK
<1>2. CASE SidecarRestart
  <2>1. expected' \in Expectation
    BY <1>2, ConstantsTyped DEF SidecarRestart, TypeOK, Expectation
  <2>2. sidecar' \in Material /\ UNCHANGED <<loaded, pc, job>>
    BY <1>2, ConstantsTyped DEF SidecarRestart
  <2> QED
    BY <1>1, <2>1, <2>2 DEF TypeOK, store, Prepared
<1>3. CASE GatewayRestart
  <2>1. expected' \in Expectation
    BY <1>3, ConstantsTyped DEF GatewayRestart, TypeOK
  <2>2. loaded' \in [Clusters -> Mark \cup {None}] /\ sidecar' = sidecar
    BY <1>3 DEF GatewayRestart
  <2>3. pc' = [h \in Handlers |-> "idle"] /\ job' = [h \in Handlers |-> NoJob]
    BY <1>3 DEF GatewayRestart
  <2>4. Prepared' /\ pc' \in [Handlers -> Steps] /\ job' \in [Handlers -> Job]
    BY <2>3, ConstantsTyped DEF Prepared, Steps
  <2> QED
    BY <1>1, <2>1, <2>2, <2>4 DEF TypeOK, store
<1>4. CASE \E h \in Handlers : CallFails(h)
  <2>1. PICK h \in Handlers : CallFails(h)
    BY <1>4
  <2>2. job[h] \in Job /\ pc[h] # "idle" /\ job[h].cluster \in Clusters
    BY <2>1 DEF CallFails, TypeOK, Prepared
  <2>3. expected' \in Expectation /\ UNCHANGED <<loaded, sidecar>>
    BY <2>1, ConstantsTyped DEF CallFails
  <2>4. CASE pc[h] = "drop" /\ pc' = [pc EXCEPT ![h] = "mark"] /\ job' = job
    <3>1. job' = [job EXCEPT ![h] = job[h]] /\ job[h].asset \in Asset
      BY <2>4 DEF TypeOK, Prepared
    <3>2. pc' \in [Handlers -> Steps] /\ job' \in [Handlers -> Job] /\ Prepared'
      BY <2>2, <2>4, <3>1, PreparedFor DEF Steps
    <3> QED
      BY <1>1, <2>3, <3>2 DEF TypeOK, store
  <2>5. CASE pc' = [pc EXCEPT ![h] = "clear"] /\ job' = [job EXCEPT ![h].retried = TRUE]
    <3> DEFINE record == [job[h] EXCEPT !.retried = TRUE]
    <3>1. record \in Job /\ record.cluster \in Clusters
      BY <2>2 DEF Job
    <3>2. job' = [job EXCEPT ![h] = record]
      BY <2>5
    <3> HIDE DEF record
    <3>3. pc' \in [Handlers -> Steps] /\ job' \in [Handlers -> Job] /\ Prepared'
      BY <2>5, <3>1, <3>2, PreparedFor DEF Steps
    <3> QED
      BY <1>1, <2>3, <3>3 DEF TypeOK, store
  <2>6. CASE pc' = [pc EXCEPT ![h] = "idle"] /\ job' = [job EXCEPT ![h] = NoJob]
    <3>1. pc' \in [Handlers -> Steps] /\ job' \in [Handlers -> Job] /\ Prepared'
      BY <2>6, ConstantsTyped, PreparedFor DEF Steps
    <3> QED
      BY <1>1, <2>3, <3>1 DEF TypeOK, store
  <2> QED
    BY <2>1, <2>4, <2>5, <2>6 DEF CallFails
<1> QED
  BY <1>2, <1>3, <1>4

-----------------------------------------------------------------------------
(***************************************************************************)
(* Documents keep their zips                                               *)
(***************************************************************************)

\* A step that leaves the store alone, and no handler nearer to a write.
LEMMA QuietKeepsZips ==
    ASSUME Zipped, UNCHANGED store,
           \A g \in Handlers : pc'[g] \in {"store", "replace", "drop"} => pc'[g] = pc[g] /\ job'[g] = job[g]
    PROVE  Zipped'
<1>1. assets' = assets /\ files' = files /\ lastFile' = lastFile
  BY DEF store
<1>2. AssetHasItsZip' /\ FilesAreOfOneCluster'
  BY <1>1 DEF Zipped, AssetHasItsZip, FilesAreOfOneCluster
<1>3. NewFileIsOwn'
  BY <1>1 DEF Zipped, NewFileIsOwn
<1>4. OldFileIsDone'
  BY <1>1 DEF Zipped, OldFileIsDone
<1> QED
  BY <1>2, <1>3, <1>4 DEF Zipped

\* The other handlers stay where they are, and this one goes on.
LEMMA OneMoves ==
    ASSUME TypeOK, NEW h \in Handlers, NEW next, NEW record, Goto(h, next, record)
    PROVE  /\ pc'[h] = next /\ job'[h] = record
           /\ \A g \in Handlers \ {h} : pc'[g] = pc[g] /\ job'[g] = job[g]
BY DEF Goto, TypeOK

\* An upload finds the file it will drop in the document of its own cluster.
LEMMA PutReadsKeepsZips ==
    ASSUME IInv, NEW h \in Handlers, PutReads(h)
    PROVE  Zipped'
<1> USE DEF IInv
<1> DEFINE existing == assets[job[h].cluster]
           old == IF existing = None THEN 0 ELSE existing.file
           record == [job[h] EXCEPT !.asset = existing, !.old = old]
<1>1. UNCHANGED store /\ Goto(h, "store", record) /\ pc[h] = "put"
  BY DEF PutReads
<1>2. assets' = assets /\ files' = files /\ lastFile' = lastFile
  BY <1>1 DEF store
<1>3. job[h] \in Job /\ job[h].cluster \in Clusters
  BY <1>1 DEF TypeOK, Prepared
<1>4. record.old = old /\ record.cluster = job[h].cluster
  BY <1>3 DEF Job
<1>5. /\ pc'[h] = "store" /\ job'[h].old = old /\ job'[h].cluster = job[h].cluster
      /\ \A g \in Handlers \ {h} : pc'[g] = pc[g] /\ job'[g] = job[g]
  <2> HIDE DEF record
  <2>1. /\ pc'[h] = "store" /\ job'[h] = record
        /\ \A g \in Handlers \ {h} : pc'[g] = pc[g] /\ job'[g] = job[g]
    BY <1>1, OneMoves
  <2> QED
    BY <1>4, <2>1
<1>6. \A c \in Clusters : assets[c] # None => assets[c].file \in Nat \ {0} /\ assets[c].file <= lastFile
  <2>1. \A c \in Clusters : assets[c] # None => assets[c].file \in 1..lastFile
    BY DEF TypeOK, Zipped, AssetHasItsZip
  <2>2. lastFile \in Nat
    BY DEF TypeOK
  <2> QED
    BY <2>1, <2>2
<1>7. \A g \in Handlers : pc[g] = "replace" => job[g].asset.file \in Nat \ {0}
  BY DEF Prepared, Asset, Files
<1>8. AssetHasItsZip' /\ FilesAreOfOneCluster'
  BY <1>2 DEF Zipped, AssetHasItsZip, FilesAreOfOneCluster
<1>9. NewFileIsOwn'
  BY <1>2, <1>5 DEF Zipped, NewFileIsOwn
<1>10. OldFileIsDone'
  <2>1. lastFile \in Nat
    BY DEF TypeOK
  <2>2. /\ old <= lastFile
        /\ \A c \in Clusters \ {job[h].cluster} : assets[c] # None => assets[c].file # old
        /\ \A g \in Handlers : pc[g] = "replace" => job[g].asset.file # old
    <3>1. CASE existing = None
      BY <3>1, <2>1, <1>6, <1>7
    <3>2. CASE existing # None
      BY <3>2, <1>3, <1>6 DEF Zipped, FilesAreOfOneCluster, NewFileIsOwn
    <3> QED
      BY <3>1, <3>2
  <2> HIDE DEF old
  <2>3. ASSUME NEW f \in Handlers, pc'[f] \in {"store", "replace", "drop"}
        PROVE  /\ job'[f].old <= lastFile'
               /\ \A c \in Clusters : assets'[c] # None /\ (c # job'[f].cluster \/ pc'[f] = "drop") =>
                     assets'[c].file # job'[f].old
               /\ \A g \in Handlers : pc'[g] = "replace" => job'[g].asset.file # job'[f].old
    <3>1. CASE f = h
      BY <3>1, <1>2, <1>5, <2>2
    <3>2. CASE f # h
      BY <3>2, <2>3, <1>2, <1>5 DEF Zipped, OldFileIsDone
    <3> QED
      BY <3>1, <3>2
  <2> QED
    BY <2>3 DEF OldFileIsDone
<1> QED
  BY <1>8, <1>9, <1>10 DEF Zipped

\* The new zip gets an id that nothing refers to.
LEMMA StoreZipKeepsZips ==
    ASSUME IInv, NEW h \in Handlers, StoreZip(h)
    PROVE  Zipped'
<1> USE DEF IInv
<1> DEFINE new == lastFile + 1
           record == [job[h] EXCEPT !.asset = Document(job[h])]
<1>1. /\ pc[h] = "store" /\ Goto(h, "replace", record)
      /\ lastFile' = new /\ files' = files \cup {new} /\ assets' = assets
  BY DEF StoreZip
<1>2. job[h] \in Job /\ lastFile \in Nat /\ files \subseteq 1..lastFile
  BY DEF TypeOK
<1>3. record.asset.file = new /\ record.old = job[h].old /\ record.cluster = job[h].cluster
  BY <1>2 DEF Document, Job
<1>4. /\ pc'[h] = "replace" /\ job'[h].asset.file = new
      /\ job'[h].old = job[h].old /\ job'[h].cluster = job[h].cluster
      /\ \A g \in Handlers \ {h} : pc'[g] = pc[g] /\ job'[g] = job[g]
  <2> HIDE DEF record
  <2>1. /\ pc'[h] = "replace" /\ job'[h] = record
        /\ \A g \in Handlers \ {h} : pc'[g] = pc[g] /\ job'[g] = job[g]
    BY <1>1, OneMoves
  <2> QED
    BY <1>3, <2>1
<1>5. /\ new \notin files
      /\ \A c \in Clusters : assets[c] # None => assets[c].file # new
      /\ \A g \in Handlers : pc[g] = "replace" => job[g].asset.file # new
      /\ \A g \in Handlers : pc[g] \in {"store", "replace", "drop"} => job[g].old # new /\ job[g].old <= new
  <2>1. new \notin files
    BY <1>2
  <2>2. /\ \A c \in Clusters : assets[c] # None => assets[c].file \in files
        /\ \A g \in Handlers : pc[g] = "replace" => job[g].asset.file \in files
        /\ \A g \in Handlers : pc[g] \in {"store", "replace", "drop"} => job[g].old <= lastFile
    BY DEF Zipped, AssetHasItsZip, NewFileIsOwn, OldFileIsDone
  <2>3. \A g \in Handlers : job[g].old \in Nat
    BY DEF TypeOK, Job
  <2> QED
    BY <1>2, <2>1, <2>2, <2>3
<1> HIDE DEF new, record
<1>6. AssetHasItsZip' /\ FilesAreOfOneCluster'
  BY <1>1 DEF Zipped, AssetHasItsZip, FilesAreOfOneCluster
<1>7. NewFileIsOwn'
  BY <1>1, <1>4, <1>5 DEF Zipped, NewFileIsOwn
<1>8. OldFileIsDone'
  <2>1. ASSUME NEW f \in Handlers, pc'[f] \in {"store", "replace", "drop"}
        PROVE  /\ job'[f].old <= lastFile'
               /\ \A c \in Clusters : assets'[c] # None /\ (c # job'[f].cluster \/ pc'[f] = "drop") =>
                     assets'[c].file # job'[f].old
               /\ \A g \in Handlers : pc'[g] = "replace" => job'[g].asset.file # job'[f].old
    <3>1. /\ pc[f] \in {"store", "replace", "drop"} /\ job'[f].old = job[f].old
          /\ job'[f].cluster = job[f].cluster /\ (pc'[f] = "drop" => pc[f] = "drop")
      BY <1>1, <1>4, <2>1
    <3>2. job'[f].old <= lastFile' /\ job'[f].old # new
      BY <1>1, <1>5, <3>1
    <3>3. ASSUME NEW g \in Handlers, pc'[g] = "replace" PROVE job'[g].asset.file # job'[f].old
      BY <1>4, <3>1, <3>2, <3>3 DEF Zipped, OldFileIsDone
    <3>4. \A c \in Clusters : assets'[c] # None /\ (c # job'[f].cluster \/ pc'[f] = "drop") =>
             assets'[c].file # job'[f].old
      BY <1>1, <3>1 DEF Zipped, OldFileIsDone
    <3> QED
      BY <3>2, <3>3, <3>4
  <2> QED
    BY <2>1 DEF OldFileIsDone
<1> QED
  BY <1>6, <1>7, <1>8 DEF Zipped

\* A document is written with a zip that is stored, and its own.
LEMMA ReplaceAssetKeepsZips ==
    ASSUME IInv, NEW h \in Handlers, ReplaceAsset(h)
    PROVE  Zipped'
<1> USE DEF IInv
<1> DEFINE here == job[h].cluster
<1>1. /\ pc[h] = "replace" /\ Goto(h, "drop", job[h])
      /\ assets' = [assets EXCEPT ![here] = job[h].asset]
      /\ files' = files /\ lastFile' = lastFile
  BY DEF ReplaceAsset
<1>2. here \in Clusters
  BY <1>1 DEF Prepared
<1>3. /\ pc'[h] = "drop" /\ job'[h] = job[h]
      /\ \A g \in Handlers \ {h} : pc'[g] = pc[g] /\ job'[g] = job[g]
  BY <1>1, OneMoves
<1>4. /\ assets'[here] = job[h].asset
      /\ \A c \in Clusters \ {here} : assets'[c] = assets[c]
  BY <1>1, <1>2 DEF TypeOK
<1>5. /\ job[h].asset.file \in files
      /\ \A c \in Clusters : assets[c] # None => assets[c].file # job[h].asset.file
      /\ \A g \in Handlers \ {h} : pc[g] = "replace" => job[g].asset.file # job[h].asset.file
      /\ \A g \in Handlers : pc[g] \in {"store", "replace", "drop"} => job[h].asset.file # job[g].old
  BY <1>1 DEF Zipped, NewFileIsOwn, OldFileIsDone
<1> HIDE DEF here
<1>6. AssetHasItsZip'
  BY <1>1, <1>4, <1>5 DEF Zipped, AssetHasItsZip
<1>7. FilesAreOfOneCluster'
  BY <1>4, <1>5 DEF Zipped, FilesAreOfOneCluster
<1>8. NewFileIsOwn'
  BY <1>1, <1>3, <1>4, <1>5 DEF Zipped, NewFileIsOwn
<1>9. OldFileIsDone'
  <2>1. ASSUME NEW f \in Handlers, pc'[f] \in {"store", "replace", "drop"}
        PROVE  /\ job'[f].old <= lastFile'
               /\ \A c \in Clusters : assets'[c] # None /\ (c # job'[f].cluster \/ pc'[f] = "drop") =>
                     assets'[c].file # job'[f].old
               /\ \A g \in Handlers : pc'[g] = "replace" => job'[g].asset.file # job'[f].old
    <3>1. pc[f] \in {"store", "replace", "drop"} /\ job'[f] = job[f]
      BY <1>1, <1>3, <2>1
    <3>2. job'[f].old <= lastFile'
      BY <1>1, <3>1 DEF Zipped, OldFileIsDone
    <3>3. \A g \in Handlers : pc'[g] = "replace" => job'[g].asset.file # job'[f].old
      BY <1>3, <3>1 DEF Zipped, OldFileIsDone
    <3>4. ASSUME NEW c \in Clusters, assets'[c] # None, c # job'[f].cluster \/ pc'[f] = "drop"
          PROVE  assets'[c].file # job'[f].old
      <4>1. CASE c = here
        BY <4>1, <1>4, <1>5, <3>1
      <4>2. CASE c # here /\ f # h
        BY <4>2, <1>3, <1>4, <3>1, <3>4 DEF Zipped, OldFileIsDone
      <4>3. CASE c # here /\ f = h
        BY <4>3, <1>4, <3>1, <3>4 DEF Zipped, OldFileIsDone, here
      <4> QED
        BY <4>1, <4>2, <4>3
    <3> QED
      BY <3>2, <3>3, <3>4
  <2> QED
    BY <2>1 DEF OldFileIsDone
<1> QED
  BY <1>6, <1>7, <1>8, <1>9 DEF Zipped

\* The file that goes is no document's, written or about to be.
LEMMA DropOldZipKeepsZips ==
    ASSUME IInv, NEW h \in Handlers, DropOldZip(h)
    PROVE  Zipped'
<1> USE DEF IInv
<1>1. /\ pc[h] = "drop" /\ Goto(h, "mark", job[h])
      /\ files' = files \ {job[h].old} /\ assets' = assets /\ lastFile' = lastFile
  BY DEF DropOldZip
<1>2. /\ pc'[h] = "mark"
      /\ \A g \in Handlers \ {h} : pc'[g] = pc[g] /\ job'[g] = job[g]
  BY <1>1, OneMoves
<1>3. /\ \A c \in Clusters : assets[c] # None => assets[c].file # job[h].old
      /\ \A g \in Handlers : pc[g] = "replace" => job[g].asset.file # job[h].old
  BY <1>1 DEF Zipped, OldFileIsDone
<1>4. AssetHasItsZip' /\ FilesAreOfOneCluster'
  BY <1>1, <1>3 DEF Zipped, AssetHasItsZip, FilesAreOfOneCluster
<1>5. NewFileIsOwn'
  BY <1>1, <1>2, <1>3 DEF Zipped, NewFileIsOwn
<1>6. OldFileIsDone'
  BY <1>1, <1>2 DEF Zipped, OldFileIsDone
<1> QED
  BY <1>4, <1>5, <1>6 DEF Zipped

\* The other steps leave the store alone and bring no handler nearer to a write.
LEMMA OtherStepsKeepZips ==
    ASSUME IInv, NEW h \in Handlers,
           \/ Tokenizing(h) \/ Upload(h) \/ ReadExisting(h) \/ MarkStored(h)
           \/ ReadZip(h) \/ Register(h) \/ CallFails(h)
    PROVE  Zipped'
<1> USE DEF IInv
<1>1. UNCHANGED store
  BY DEF Tokenizing, Request, Upload, Start, GetAsset, CheckLoaded, MarkLoaded, Tokenize, ClearLoaded,
         ReadExisting, MarkStored, ReadZip, Register, CallFails
<1>2. /\ pc' = [pc EXCEPT ![h] = pc'[h]]
      /\ pc'[h] \notin {"store", "replace", "drop"}
      /\ \A g \in Handlers \ {h} : job'[g] = job[g]
  BY DEF TypeOK, Tokenizing, Request, Upload, Start, GetAsset, CheckLoaded, MarkLoaded, Tokenize,
     ClearLoaded,
         ReadExisting, MarkStored, ReadZip, Register, CallFails, Goto, End, Fail
<1>3. \A g \in Handlers : pc'[g] \in {"store", "replace", "drop"} => pc'[g] = pc[g] /\ job'[g] = job[g]
  BY <1>2 DEF TypeOK
<1> QED
  BY <1>1, <1>3, QuietKeepsZips

LEMMA RestartsKeepZips ==
    ASSUME IInv, SidecarRestart \/ GatewayRestart
    PROVE  Zipped'
<1>1. UNCHANGED store
  BY DEF SidecarRestart, GatewayRestart
<1>2. \A g \in Handlers : pc'[g] \in {"store", "replace", "drop"} => pc'[g] = pc[g] /\ job'[g] = job[g]
  BY DEF SidecarRestart, GatewayRestart
<1> QED
  BY <1>1, <1>2, QuietKeepsZips DEF IInv

\* The invariant is inductive.
LEMMA StepKeepsInvariant ==
    ASSUME IInv, [Next]_vars
    PROVE  IInv'
<1> USE DEF IInv
<1>1. ASSUME NEW h \in Handlers,
             Tokenizing(h) \/ Uploading(h) \/ ReadZip(h) \/ Register(h) \/ CallFails(h)
      PROVE  IInv'
  <2>1. TypeOK' /\ Prepared'
    BY <1>1, RequestTyped, ReadingTyped, RegisterTyped, MarkTyped, StoringTyped, FaultTyped
       DEF Tokenizing, Uploading
  <2>2. Zipped'
    BY <1>1, PutReadsKeepsZips, StoreZipKeepsZips, ReplaceAssetKeepsZips, DropOldZipKeepsZips,
       OtherStepsKeepZips
       DEF Uploading
  <2> QED
    BY <2>1, <2>2
<1>2. CASE SidecarRestart \/ GatewayRestart
  BY <1>2, FaultTyped, RestartsKeepZips
<1>3. CASE UNCHANGED vars
  <2>1. TypeOK' /\ Prepared'
    BY <1>3 DEF vars, store, history, TypeOK, Prepared
  <2>2. Zipped'
    BY <1>3, QuietKeepsZips DEF vars
  <2> QED
    BY <2>1, <2>2
<1> QED
  BY <1>1, <1>2, <1>3 DEF Next

-----------------------------------------------------------------------------
(***************************************************************************)
(* A handler that nothing disturbs                                         *)
(*                                                                         *)
(* While one handler is alone, what it read of its cluster's asset is what *)
(* the store has.  A request that tries again has registered the model in  *)
(* between: its mark was forgotten.                                        *)
(***************************************************************************)

LoneRequest(h) ==
    LET j == job[h]
        a == assets[j.cluster]
    IN  /\ pc[h] \in {"get", "check", "read", "register", "mark", "tokenize", "clear"}
        /\ pc[h] \in {"check", "read", "register"} => j.asset = a /\ a # None
        /\ pc[h] = "register" => j.zip = a.zip /\ j.template = a.template
        /\ j.retried /\ pc[h] \in {"get", "check"} => loaded[j.cluster] = None
        /\ j.retried /\ pc[h] \in {"mark", "tokenize"} => sidecar # Nothing

LoneUpload(h) ==
    LET j == job[h]
        a == assets[j.cluster]
    IN  /\ pc[h] \in {"existing", "read", "register", "put", "store", "replace", "drop", "mark"}
        /\ pc[h] \in {"read", "store"} => j.asset = a
        /\ pc[h] = "read" => a # None
        /\ pc[h] \in {"read", "register", "put", "store"} =>
              (j.template = None /\ a # None => a.template = None)
        /\ pc[h] = "replace" => j.asset.zip = j.zip /\ j.asset.template = j.template
        /\ pc[h] \in {"drop", "mark"} => a.zip = j.zip /\ a.template = j.template

Lone(h) ==
    /\ alone = {h}
    /\ \A g \in Handlers \ {h} : pc[g] = "idle"
    /\ IF job[h].upload THEN LoneUpload(h) ELSE LoneRequest(h)

\* What is expected is what the asset brings, and in the sidecar nothing else
\* is loaded.  Only a request of the cluster may be under way.
ExpectationHolds ==
    /\ expected.when # "never" =>
          /\ assets[expected.cluster].zip = expected.material.zip
          /\ assets[expected.cluster].template = expected.material.template
          /\ \A g \in Handlers : pc[g] # "idle" =>
                g \in alone /\ ~job[g].upload /\ job[g].cluster = expected.cluster
    /\ expected.when = "now" => sidecar \in {Nothing, expected.material}

\* A lone handler that has ended leaves the gateway to itself.
OutcomeHolds ==
    /\ outcome.lone => \A g \in Handlers : pc[g] = "idle"
    /\ LoneHandlersSucceed
    /\ UploadSurvivesRestart

LoneInv ==
    /\ \A h \in alone : Lone(h)
    /\ ExpectationHolds
    /\ OutcomeHolds

\* While a handler is under way that is not alone, nothing is said of it.
LEMMA DisturbedSaysNothing ==
    ASSUME LoneInv, NEW h \in Handlers, pc[h] # "idle", h \notin alone
    PROVE  alone = {} /\ expected.when = "never" /\ outcome.lone = FALSE
<1>1. alone = {}
  BY DEF LoneInv, Lone
<1>2. expected.when = "never"
  BY DEF LoneInv, ExpectationHolds
<1>3. outcome.lone = FALSE
  BY DEF LoneInv, OutcomeHolds
<1> QED
  BY <1>1, <1>2, <1>3

LEMMA NothingSaid ==
    ASSUME alone' = {}, expected'.when = "never", outcome'.lone = FALSE
    PROVE  LoneInv'
<1>1. ExpectationHolds'
  BY DEF ExpectationHolds
<1>2. OutcomeHolds'
  BY DEF OutcomeHolds, LoneHandlersSucceed, UploadSurvivesRestart
<1> QED
  BY <1>1, <1>2 DEF LoneInv

\* A step of such a handler.
LEMMA DisturbedGoes ==
    ASSUME TypeOK, LoneInv, NEW h \in Handlers, pc[h] # "idle", h \notin alone,
           NEW next, NEW record, NEW result, NEW material,
           Goto(h, next, record) \/ End(h, result, material)
    PROVE  LoneInv'
<1>1. alone = {} /\ expected.when = "never" /\ outcome.lone = FALSE
  BY DisturbedSaysNothing
<1>2. CASE Goto(h, next, record)
  BY <1>1, <1>2, NothingSaid DEF Goto
<1>3. CASE End(h, result, material)
  <2>1. alone' = {} /\ expected' = expected
    BY <1>3 DEF End
  <2>2. outcome'.lone = (h \in alone)
    BY <1>3 DEF End
  <2> QED
    <3>1. (h \in alone) = FALSE
      OBVIOUS
    <3>2. outcome'.lone = FALSE
      BY <2>2, <3>1, Zenon
    <3>3. expected'.when = "never"
      BY <1>1, <2>1
    <3> QED
      BY <2>1, <3>2, <3>3, NothingSaid, Zenon
<1> QED
  BY <1>2, <1>3

\* A lone handler goes on.
LEMMA LoneGoes ==
    ASSUME TypeOK, LoneInv, NEW h \in Handlers, h \in alone, pc[h] # "idle",
           NEW next, next # "idle", NEW record \in Job, Goto(h, next, record),
           record.upload = job[h].upload, record.cluster = job[h].cluster,
           assets' = assets \/ record.upload,
           sidecar' = sidecar \/ record.upload \/ (expected.when = "now" => sidecar' = expected.material),
           IF record.upload THEN LoneUpload(h)' ELSE LoneRequest(h)'
    PROVE  LoneInv'
<1>1. /\ alone = {h} /\ alone' = {h} /\ expected' = expected /\ outcome' = outcome
      /\ \A g \in Handlers \ {h} : pc[g] = "idle"
  BY DEF LoneInv, Lone, Goto
<1>2. /\ pc'[h] = next /\ job'[h] = record
      /\ \A g \in Handlers \ {h} : pc'[g] = pc[g] /\ job'[g] = job[g]
  BY OneMoves
<1>3. Lone(h)'
  BY <1>1, <1>2 DEF Lone
<1>4. outcome.lone = FALSE
  BY DEF LoneInv, OutcomeHolds
<1>5. OutcomeHolds'
  BY <1>1, <1>4 DEF OutcomeHolds, LoneHandlersSucceed, UploadSurvivesRestart
<1>6. ExpectationHolds'
  <2>1. CASE expected.when = "never"
    BY <1>1, <2>1 DEF ExpectationHolds
  <2>2. CASE expected.when # "never"
    <3>1. ~record.upload /\ record.cluster = expected.cluster
      BY <2>2 DEF LoneInv, ExpectationHolds
    <3> QED
      BY <1>1, <1>2, <3>1 DEF LoneInv, ExpectationHolds
  <2> QED
    BY <2>1, <2>2
<1> QED
  BY <1>1, <1>3, <1>5, <1>6 DEF LoneInv

\* A lone handler ends.
LEMMA LoneEnds ==
    ASSUME TypeOK, LoneInv, NEW h \in Handlers, h \in alone, pc[h] # "idle",
           NEW result \in {"failed", "stored", "tokenized"}, NEW material \in Material, End(h, result, material),
           assets' = assets, sidecar' = sidecar,
           result = "failed" => assets[job[h].cluster] = None,
           result = "tokenized" => material = sidecar /\ sidecar # Nothing,
           result = "stored" => /\ assets[job[h].cluster].zip = material.zip
                                /\ assets[job[h].cluster].template = material.template
    PROVE  LoneInv'
<1>1. /\ alone' = {} /\ pc' = [pc EXCEPT ![h] = "idle"]
      /\ \A g \in Handlers \ {h} : pc[g] = "idle"
  BY DEF LoneInv, Lone, End
<1>2. \A g \in Handlers : pc'[g] = "idle"
  BY <1>1 DEF TypeOK
<1>3. outcome'.result = result /\ outcome'.cluster = job[h].cluster /\ outcome'.material = material
  BY DEF End
<1>4. CASE result = "stored"
  <2>1. /\ expected'.when = (IF sidecar = material THEN "now" ELSE "later")
        /\ expected'.cluster = job[h].cluster /\ expected'.material = material
    BY <1>4 DEF End
  <2>2. ExpectationHolds'
    BY <1>2, <1>4, <2>1 DEF ExpectationHolds
  <2>3. OutcomeHolds'
    BY <1>2, <1>3, <1>4 DEF OutcomeHolds, LoneHandlersSucceed, UploadSurvivesRestart
  <2> QED
    BY <1>1, <2>2, <2>3 DEF LoneInv
<1>5. CASE result # "stored"
  <2>1. expected' = expected
    BY <1>5 DEF End
  <2>2. ExpectationHolds'
    BY <1>2, <2>1 DEF LoneInv, ExpectationHolds
  <2>3. LoneHandlersSucceed'
    BY <1>3 DEF LoneHandlersSucceed
  <2>4. UploadSurvivesRestart'
    BY <1>3, <2>1 DEF UploadSurvivesRestart, LoneInv, ExpectationHolds
  <2> QED
    BY <1>1, <1>2, <2>2, <2>3, <2>4 DEF LoneInv, OutcomeHolds
<1> QED
  BY <1>4, <1>5

\* What the steps of a lone request and of a lone upload see.
LEMMA LoneIsTyped ==
    ASSUME TypeOK, Prepared, NEW h \in Handlers, pc[h] # "idle"
    PROVE  job[h] \in Job /\ job[h].cluster \in Clusters /\ job[h].upload \in BOOLEAN
BY DEF TypeOK, Prepared, Job

\* What a request reads before it registers the model, or finds it registered.
LEMMA LoneRequestReads ==
    ASSUME IInv, LoneInv, NEW h \in Handlers, h \in alone, ~job[h].upload,
           GetAsset(h) \/ CheckLoaded(h) \/ ReadZip(h) \/ ClearLoaded(h)
    PROVE  LoneInv'
<1> DEFINE a == assets[job[h].cluster]
<1>1. /\ TypeOK /\ Prepared /\ AssetHasItsZip
      /\ pc[h] # "idle" /\ assets' = assets /\ sidecar' = sidecar
      /\ LoneRequest(h)
  BY DEF IInv, Zipped, GetAsset, CheckLoaded, ReadZip, ClearLoaded, store, LoneInv, Lone
<1>2. job[h] \in Job /\ job[h].cluster \in Clusters
  BY <1>1, LoneIsTyped
<1>3. ASSUME NEW next, next # "idle", NEW record \in Job, Goto(h, next, record),
             record.upload = job[h].upload, record.cluster = job[h].cluster,
             LoneRequest(h)'
      PROVE  LoneInv'
  BY <1>1, <1>3, LoneGoes
<1>4. ASSUME NEW next, NEW record, Goto(h, next, record)
      PROVE  pc'[h] = next /\ job'[h] = record
  BY <1>1, <1>4, OneMoves
<1>5. ASSUME Fail(h), a = None PROVE LoneInv'
  BY <1>1, <1>5, LoneEnds, ConstantsTyped DEF Fail
<1>6. CASE GetAsset(h)
  <2>1. CASE a = None
    BY <1>5, <1>6, <2>1 DEF GetAsset
  <2>2. CASE a # None
    <3>1. PICK r : r = [job[h] EXCEPT !.asset = a]
      OBVIOUS
    <3>2. Goto(h, "check", r) /\ pc[h] = "get" /\ loaded' = loaded
      BY <1>6, <2>2, <3>1 DEF GetAsset
    <3>3. a \in Asset
      BY <1>1, <1>2, <2>2 DEF TypeOK
    <3>4. /\ r \in Job /\ r.upload = job[h].upload /\ r.cluster = job[h].cluster
          /\ r.asset = a /\ r.retried = job[h].retried
      BY <1>2, <3>1, <3>3 DEF Job
    <3>5. LoneRequest(h)'
      BY <1>1, <1>4, <2>2, <3>2, <3>4 DEF LoneRequest
    <3> QED
      BY <1>3, <3>2, <3>4, <3>5
  <2> QED
    BY <2>1, <2>2
<1>7. CASE CheckLoaded(h)
  <2>1. /\ pc[h] = "check" /\ loaded' = loaded /\ job[h].asset \in Asset
        /\ job[h].asset = a /\ a # None
    BY <1>1, <1>7 DEF CheckLoaded, Prepared, LoneRequest
  <2>2. CASE loaded[job[h].cluster] = StateOf(job[h].asset)
    <3>1. Goto(h, "tokenize", job[h])
      BY <1>7, <2>2 DEF CheckLoaded
    <3>2. StateOf(job[h].asset) # None
      BY <2>1, LocalTokenizerAssumption DEF StateOf, Asset, Files
    <3>3. ~job[h].retried
      BY <1>1, <2>1, <2>2, <3>2 DEF LoneRequest
    <3>4. LoneRequest(h)'
      BY <1>4, <3>1, <3>3 DEF LoneRequest
    <3> QED
      BY <1>2, <1>3, <3>1, <3>4
  <2>3. CASE loaded[job[h].cluster] # StateOf(job[h].asset)
    <3>1. Goto(h, "read", job[h])
      BY <1>7, <2>3 DEF CheckLoaded
    <3>2. LoneRequest(h)'
      BY <1>1, <1>4, <2>1, <3>1 DEF LoneRequest
    <3> QED
      BY <1>2, <1>3, <3>1, <3>2
  <2> QED
    BY <2>2, <2>3
<1>8. CASE ReadZip(h)
  <2>1. pc[h] = "read" /\ job[h].asset \in Asset /\ job[h].asset = a /\ a # None
    BY <1>1, <1>8 DEF ReadZip, Prepared, LoneRequest
  <2>2. a.file \in files
    BY <1>1, <1>2, <2>1 DEF AssetHasItsZip
  <2>3. PICK r : r = [job[h] EXCEPT !.zip = job[h].asset.zip,
                                    !.template = IF job[h].upload THEN @ ELSE job[h].asset.template]
    OBVIOUS
  <2>4. Goto(h, "register", r)
    BY <1>8, <2>1, <2>2, <2>3 DEF ReadZip
  <2>5. /\ r \in Job /\ r.upload = job[h].upload /\ r.cluster = job[h].cluster
        /\ r.asset = a /\ r.zip = a.zip /\ r.template = a.template
    BY <1>2, <2>1, <2>3 DEF Job, Asset
  <2>6. LoneRequest(h)'
    BY <1>1, <1>4, <2>1, <2>4, <2>5 DEF LoneRequest
  <2> QED
    BY <1>3, <2>4, <2>5, <2>6
<1>9. CASE ClearLoaded(h)
  <2>1. Goto(h, "get", job[h]) /\ loaded' = [loaded EXCEPT ![job[h].cluster] = None]
    BY <1>9 DEF ClearLoaded
  <2>2. loaded'[job[h].cluster] = None
    BY <1>1, <1>2, <2>1 DEF TypeOK
  <2>3. LoneRequest(h)'
    BY <1>4, <2>1, <2>2 DEF LoneRequest
  <2> QED
    BY <1>2, <1>3, <2>1, <2>3
<1> QED
  BY <1>6, <1>7, <1>8, <1>9

\* A lone request tokenizes, and has to try again at most once.
LEMMA LoneRequestTokenizes ==
    ASSUME IInv, LoneInv, NEW h \in Handlers, h \in alone, ~job[h].upload,
           MarkLoaded(h) \/ Tokenize(h)
    PROVE  LoneInv'
<1>1. /\ TypeOK /\ Prepared /\ pc[h] # "idle" /\ assets' = assets /\ sidecar' = sidecar
      /\ LoneRequest(h)
  BY DEF IInv, MarkLoaded, Tokenize, store, LoneInv, Lone
<1>2. job[h] \in Job
  BY <1>1, LoneIsTyped
<1>3. CASE MarkLoaded(h)
  <2>1. Goto(h, "tokenize", job[h]) /\ pc[h] = "mark"
    BY <1>3 DEF MarkLoaded
  <2>2. pc'[h] = "tokenize" /\ job'[h] = job[h]
    BY <1>1, <2>1, OneMoves
  <2>3. LoneRequest(h)'
    BY <1>1, <2>1, <2>2 DEF LoneRequest
  <2> QED
    BY <1>1, <1>2, <2>1, <2>3, LoneGoes
<1>4. CASE Tokenize(h) /\ sidecar # Nothing
  <2>1. End(h, "tokenized", sidecar) /\ sidecar \in Material
    BY <1>1, <1>4 DEF Tokenize, TypeOK
  <2> QED
    BY <1>1, <1>4, <2>1, LoneEnds
<1>5. CASE Tokenize(h) /\ sidecar = Nothing
  <2>1. pc[h] = "tokenize" /\ ~job[h].retried
    BY <1>1, <1>5 DEF Tokenize, LoneRequest
  <2>2. PICK r : r = [job[h] EXCEPT !.retried = TRUE]
    OBVIOUS
  <2>3. Goto(h, "clear", r)
    BY <1>5, <2>1, <2>2 DEF Tokenize
  <2>4. r \in Job /\ r.upload = job[h].upload /\ r.cluster = job[h].cluster
    BY <1>2, <2>2 DEF Job
  <2>5. pc'[h] = "clear" /\ job'[h] = r
    BY <1>1, <2>3, OneMoves
  <2>6. LoneRequest(h)'
    BY <2>5 DEF LoneRequest
  <2> QED
    BY <1>1, <2>3, <2>4, <2>6, LoneGoes
<1> QED
  BY <1>3, <1>4, <1>5

\* What is registered alone is what the handler read, or what was uploaded.
LEMMA LoneRegisters ==
    ASSUME IInv, LoneInv, NEW h \in Handlers, h \in alone, Register(h)
    PROVE  LoneInv'
<1>1. /\ TypeOK /\ Prepared /\ pc[h] = "register" /\ assets' = assets
      /\ IF job[h].upload THEN LoneUpload(h) ELSE LoneRequest(h)
      /\ sidecar' = Registered(job[h].zip, job[h].template)
  BY DEF IInv, Register, store, LoneInv, Lone
<1>2. job[h] \in Job /\ job[h].cluster \in Clusters /\ job[h].zip \in Zips
  BY <1>1, LoneIsTyped DEF Prepared
<1>3. sidecar' \in Material /\ sidecar' # Nothing
  <2>1. job[h].zip # None
    BY <1>2, LocalTokenizerAssumption
  <2> QED
    BY <1>1, <1>2, <2>1 DEF Registered, TypeOK, Material, Job, Nothing
<1>4. PICK r : r = [job[h] EXCEPT !.sum = sidecar'.template]
  OBVIOUS
<1>5. /\ r \in Job /\ r.upload = job[h].upload /\ r.cluster = job[h].cluster
      /\ r.template = job[h].template /\ r.zip = job[h].zip
  BY <1>2, <1>3, <1>4 DEF Job, Material
<1>6. CASE job[h].upload
  <2>1. Goto(h, "put", r)
    BY <1>4, <1>6 DEF Register
  <2>2. pc'[h] = "put" /\ job'[h] = r
    BY <1>1, <2>1, OneMoves
  <2>3. LoneUpload(h)'
    BY <1>1, <1>5, <1>6, <2>2 DEF LoneUpload
  <2> QED
    BY <1>1, <1>5, <1>6, <2>1, <2>3, LoneGoes
<1>7. CASE ~job[h].upload
  <2>1. Goto(h, "mark", r)
    BY <1>4, <1>7 DEF Register
  <2>2. pc'[h] = "mark" /\ job'[h] = r
    BY <1>1, <2>1, OneMoves
  <2>3. LoneRequest(h)'
    BY <1>3, <1>5, <1>7, <2>2 DEF LoneRequest
  <2>4. ASSUME expected.when = "now" PROVE sidecar' = expected.material
    <3>1. /\ job[h].cluster = expected.cluster /\ sidecar \in {Nothing, expected.material}
          /\ assets[expected.cluster].zip = expected.material.zip
          /\ assets[expected.cluster].template = expected.material.template
      BY <1>1, <2>4 DEF LoneInv, ExpectationHolds
    <3>2. job[h].zip = expected.material.zip /\ job[h].template = expected.material.template
      BY <1>1, <1>7, <3>1 DEF LoneRequest
    <3>3. expected.material = [zip |-> expected.material.zip, template |-> expected.material.template]
      BY <1>1 DEF TypeOK, Expectation, Material
    <3>4. CASE sidecar = Nothing
      BY <1>1, <3>2, <3>3, <3>4 DEF Registered, Nothing
    <3>5. CASE sidecar = expected.material
      BY <1>1, <3>2, <3>3, <3>5 DEF Registered
    <3> QED
      BY <3>1, <3>4, <3>5
  <2> QED
    BY <1>1, <1>5, <1>7, <2>1, <2>3, <2>4, LoneGoes
<1> QED
  BY <1>6, <1>7

\* A lone upload reads what it does not bring, and stores what it ends with.
LEMMA LoneUploadReads ==
    ASSUME IInv, LoneInv, NEW h \in Handlers, h \in alone, job[h].upload,
           ReadExisting(h) \/ ReadZip(h) \/ PutReads(h)
    PROVE  LoneInv'
<1> DEFINE a == assets[job[h].cluster]
<1>1. /\ TypeOK /\ Prepared /\ AssetHasItsZip
      /\ pc[h] # "idle" /\ assets' = assets /\ sidecar' = sidecar
      /\ LoneUpload(h)
  BY DEF IInv, Zipped, ReadExisting, ReadZip, PutReads, store, LoneInv, Lone
<1>2. job[h] \in Job /\ job[h].cluster \in Clusters /\ a \in Asset \cup {None}
  BY <1>1, LoneIsTyped DEF TypeOK
<1>3. ASSUME NEW next, next # "idle", NEW record \in Job, Goto(h, next, record),
             record.upload = job[h].upload, record.cluster = job[h].cluster,
             LoneUpload(h)'
      PROVE  LoneInv'
  BY <1>1, <1>3, LoneGoes
<1>4. ASSUME NEW next, NEW record, Goto(h, next, record)
      PROVE  pc'[h] = next /\ job'[h] = record
  BY <1>1, <1>4, OneMoves
<1>5. CASE ReadExisting(h)
  <2>1. PICK template : template = IF job[h].template = None /\ a # None THEN a.template ELSE job[h].template
    OBVIOUS
  <2>2. PICK r : r = [job[h] EXCEPT !.template = template, !.asset = a]
    OBVIOUS
  <2>3. template \in Templates \cup {None}
    BY <1>2, <2>1 DEF Job, Asset
  <2>4. /\ r \in Job /\ r.upload = job[h].upload /\ r.cluster = job[h].cluster
        /\ r.asset = a /\ r.template = template
    BY <1>2, <2>2, <2>3 DEF Job
  <2>5. template = None /\ a # None => a.template = None
    BY <2>1
  <2>6. CASE Goto(h, "register", r)
    <3>1. LoneUpload(h)'
      BY <1>1, <1>4, <2>4, <2>5, <2>6 DEF LoneUpload
    <3> QED
      BY <1>3, <2>4, <2>6, <3>1
  <2>7. CASE a # None /\ Goto(h, "read", r)
    <3>1. LoneUpload(h)'
      BY <1>1, <1>4, <2>4, <2>5, <2>7 DEF LoneUpload
    <3> QED
      BY <1>3, <2>4, <2>7, <3>1
  <2>8. CASE a = None /\ Fail(h)
    BY <1>1, <2>8, LoneEnds, ConstantsTyped DEF Fail
  <2> QED
    BY <1>5, <2>1, <2>2, <2>6, <2>7, <2>8 DEF ReadExisting
<1>6. CASE ReadZip(h)
  <2>1. pc[h] = "read" /\ job[h].asset \in Asset /\ job[h].asset = a /\ a # None
    BY <1>1, <1>6 DEF ReadZip, Prepared, LoneUpload
  <2>2. a.file \in files
    BY <1>1, <1>2, <2>1 DEF AssetHasItsZip
  <2>3. PICK r : r = [job[h] EXCEPT !.zip = job[h].asset.zip,
                                    !.template = IF job[h].upload THEN @ ELSE job[h].asset.template]
    OBVIOUS
  <2>4. Goto(h, "register", r)
    BY <1>6, <2>1, <2>2, <2>3 DEF ReadZip
  <2>5. /\ r \in Job /\ r.upload = job[h].upload /\ r.cluster = job[h].cluster
        /\ r.template = job[h].template
    BY <1>2, <2>1, <2>3 DEF Job, Asset
  <2>6. LoneUpload(h)'
    BY <1>1, <1>4, <2>1, <2>4, <2>5 DEF LoneUpload
  <2> QED
    BY <1>3, <2>4, <2>5, <2>6
<1>7. CASE PutReads(h)
  <2>1. PICK old : old = IF a = None THEN 0 ELSE a.file
    OBVIOUS
  <2>2. PICK r : r = [job[h] EXCEPT !.asset = a, !.old = old]
    OBVIOUS
  <2>3. old \in Nat
    BY <1>2, <2>1 DEF Asset, Files
  <2>4. /\ r \in Job /\ r.upload = job[h].upload /\ r.cluster = job[h].cluster
        /\ r.asset = a /\ r.template = job[h].template
    BY <1>2, <2>2, <2>3 DEF Job
  <2>5. Goto(h, "store", r) /\ pc[h] = "put"
    BY <1>7, <2>1, <2>2 DEF PutReads
  <2>6. LoneUpload(h)'
    BY <1>1, <1>4, <2>4, <2>5 DEF LoneUpload
  <2> QED
    BY <1>3, <2>4, <2>5, <2>6
<1> QED
  BY <1>5, <1>6, <1>7

LEMMA LoneUploadStores ==
    ASSUME IInv, LoneInv, NEW h \in Handlers, h \in alone, job[h].upload,
           StoreZip(h) \/ ReplaceAsset(h) \/ DropOldZip(h) \/ MarkStored(h)
    PROVE  LoneInv'
<1> DEFINE a == assets[job[h].cluster]
<1>1. /\ TypeOK /\ Prepared
      /\ pc[h] # "idle" /\ sidecar' = sidecar
      /\ LoneUpload(h)
  BY DEF IInv, StoreZip, ReplaceAsset, DropOldZip, MarkStored, LoneInv, Lone
<1>2. job[h] \in Job /\ job[h].cluster \in Clusters
  BY <1>1, LoneIsTyped
<1>3. ASSUME NEW next, next # "idle", NEW record \in Job, Goto(h, next, record),
             record.upload = job[h].upload, record.cluster = job[h].cluster,
             LoneUpload(h)'
      PROVE  LoneInv'
  BY <1>1, <1>3, LoneGoes
<1>4. ASSUME NEW next, NEW record, Goto(h, next, record)
      PROVE  pc'[h] = next /\ job'[h] = record
  BY <1>1, <1>4, OneMoves
<1>5. CASE StoreZip(h)
  <2>1. pc[h] = "store" /\ assets' = assets /\ job[h].asset = a /\ job[h].zip \in Zips /\ lastFile \in Nat
    BY <1>1, <1>5 DEF StoreZip, LoneUpload, Prepared, TypeOK
  <2>2. PICK d : d = Document(job[h])
    OBVIOUS
  <2>3. PICK r : r = [job[h] EXCEPT !.asset = d]
    OBVIOUS
  <2>4. Goto(h, "replace", r)
    BY <1>5, <2>2, <2>3 DEF StoreZip
  <2>5. d \in Asset /\ d.zip = job[h].zip
    BY <1>2, <2>1, <2>2 DEF Document, Job, Asset, Files
  <2>6. d.template = job[h].template
    BY <1>1, <2>1, <2>2 DEF Document, LoneUpload
  <2>7. /\ r \in Job /\ r.upload = job[h].upload /\ r.cluster = job[h].cluster
        /\ r.asset = d /\ r.zip = job[h].zip /\ r.template = job[h].template
    BY <1>2, <2>3, <2>5 DEF Job
  <2>8. LoneUpload(h)'
    BY <1>4, <2>4, <2>5, <2>6, <2>7 DEF LoneUpload
  <2> QED
    BY <1>3, <2>4, <2>7, <2>8
<1>6. CASE ReplaceAsset(h)
  <2>1. Goto(h, "drop", job[h]) /\ pc[h] = "replace" /\ assets' = [assets EXCEPT ![job[h].cluster] = job[h].asset]
    BY <1>6 DEF ReplaceAsset
  <2>2. assets'[job[h].cluster] = job[h].asset
    BY <1>1, <1>2, <2>1 DEF TypeOK
  <2>3. LoneUpload(h)'
    BY <1>1, <1>4, <2>1, <2>2 DEF LoneUpload
  <2> QED
    BY <1>2, <1>3, <2>1, <2>3
<1>7. CASE DropOldZip(h)
  <2>1. Goto(h, "mark", job[h]) /\ pc[h] = "drop" /\ assets' = assets
    BY <1>7 DEF DropOldZip
  <2>2. LoneUpload(h)'
    BY <1>1, <1>4, <2>1 DEF LoneUpload
  <2> QED
    BY <1>2, <1>3, <2>1, <2>2
<1>8. CASE MarkStored(h)
  <2>1. PICK m : m = [zip |-> job[h].zip, template |-> job[h].template]
    OBVIOUS
  <2>2. End(h, "stored", m) /\ pc[h] = "mark" /\ assets' = assets
    BY <1>8, <2>1 DEF MarkStored, store
  <2>3. m \in Material /\ a.zip = m.zip /\ a.template = m.template
    BY <1>1, <1>2, <2>1, <2>2 DEF Material, Job, LoneUpload
  <2> QED
    BY <1>1, <2>2, <2>3, LoneEnds
<1> QED
  BY <1>5, <1>6, <1>7, <1>8

\* Every step of a handler that has started.
LEMMA HandlerKeepsLone ==
    ASSUME IInv, LoneInv, NEW h \in Handlers,
           \/ GetAsset(h) \/ CheckLoaded(h) \/ MarkLoaded(h) \/ Tokenize(h) \/ ClearLoaded(h)
           \/ ReadExisting(h) \/ PutReads(h) \/ StoreZip(h) \/ ReplaceAsset(h) \/ DropOldZip(h) \/ MarkStored(h)
           \/ ReadZip(h) \/ Register(h)
    PROVE  LoneInv'
<1>1. /\ pc[h] # "idle"
      /\ \E next, record, result, material : Goto(h, next, record) \/ End(h, result, material)
  BY DEF GetAsset, CheckLoaded, MarkLoaded, Tokenize, ClearLoaded, ReadExisting, PutReads, StoreZip,
     ReplaceAsset,
     DropOldZip, MarkStored, ReadZip, Register, Fail
<1>2. CASE h \notin alone
  BY <1>1, <1>2, DisturbedGoes DEF IInv
<1>3. CASE h \in alone /\ job[h].upload
  <2>1. pc[h] \in {"existing", "read", "register", "put", "store", "replace", "drop", "mark"}
    BY <1>3 DEF LoneInv, Lone, LoneUpload
  <2>2. /\ ~GetAsset(h) /\ ~CheckLoaded(h) /\ ~Tokenize(h) /\ ~ClearLoaded(h) /\ ~MarkLoaded(h)
    BY <1>3, <2>1 DEF GetAsset, CheckLoaded, Tokenize, ClearLoaded, MarkLoaded
  <2> QED
    BY <1>3, <2>2, LoneUploadReads, LoneUploadStores, LoneRegisters
<1>4. CASE h \in alone /\ ~job[h].upload
  <2>1. pc[h] \in {"get", "check", "read", "register", "mark", "tokenize", "clear"}
    BY <1>4 DEF LoneInv, Lone, LoneRequest
  <2>2. /\ ~ReadExisting(h) /\ ~PutReads(h) /\ ~StoreZip(h) /\ ~ReplaceAsset(h) /\ ~DropOldZip(h)
        /\ ~MarkStored(h)
    BY <1>4, <2>1 DEF ReadExisting, PutReads, StoreZip, ReplaceAsset, DropOldZip, MarkStored
  <2> QED
    BY <1>4, <2>2, LoneRequestReads, LoneRequestTokenizes, LoneRegisters
<1> QED
  BY <1>2, <1>3, <1>4

\* A handler that starts alone starts with nothing read.
LEMMA StartKeepsLone ==
    ASSUME TypeOK, LoneInv, NEW h \in Handlers, NEW first, NEW record \in Job, Start(h, first, record),
           ~record.retried,
           IF record.upload THEN first = "existing" ELSE first = "get"
    PROVE  LoneInv'
<1>1. outcome'.lone = FALSE /\ pc' = [pc EXCEPT ![h] = first] /\ job' = [job EXCEPT ![h] = record]
  BY DEF Start, NoOutcome
<1>2. CASE Active # {}
  <2>1. alone' = {} /\ expected'.when = "never"
    BY <1>2 DEF Start, NoExpectation
  <2> QED
    BY <1>1, <2>1, NothingSaid
<1>3. CASE Active = {}
  <2>1. \A g \in Handlers : pc[g] = "idle"
    BY <1>3 DEF Active
  <2>2. alone' = {h} /\ pc'[h] = first /\ job'[h] = record /\ \A g \in Handlers \ {h} : pc'[g] = "idle"
    BY <1>1, <1>3, <2>1 DEF TypeOK, Start
  <2>3. Lone(h)'
    BY <2>2 DEF Lone, LoneRequest, LoneUpload
  <2>4. OutcomeHolds'
    BY <1>1 DEF OutcomeHolds, LoneHandlersSucceed, UploadSurvivesRestart
  <2>5. ExpectationHolds'
    <3>1. CASE ~record.upload /\ record.cluster = expected.cluster
      <4>1. expected' = expected /\ UNCHANGED <<assets, sidecar>>
        BY <1>3, <3>1 DEF Start, store
      <4> QED
        BY <2>2, <3>1, <4>1 DEF LoneInv, ExpectationHolds
    <3>2. CASE ~(~record.upload /\ record.cluster = expected.cluster)
      <4>1. expected'.when = "never"
        BY <1>3, <3>2 DEF Start, NoExpectation
      <4> QED
        BY <4>1 DEF ExpectationHolds
    <3> QED
      BY <3>1, <3>2
  <2> QED
    BY <2>2, <2>3, <2>4, <2>5 DEF LoneInv
<1> QED
  BY <1>2, <1>3

LEMMA BeginningKeepsLone ==
    ASSUME TypeOK, LoneInv, NEW h \in Handlers, Request(h) \/ Upload(h)
    PROVE  LoneInv'
<1>1. CASE Request(h)
  <2>1. PICK c \in Clusters : Start(h, "get", [NoJob EXCEPT !.cluster = c])
    BY <1>1 DEF Request
  <2>2. PICK r : r = [NoJob EXCEPT !.cluster = c]
    OBVIOUS
  <2>3. r \in Job /\ ~r.retried /\ ~r.upload
    BY <2>2, ConstantsTyped DEF Job, NoJob
  <2> QED
    BY <2>1, <2>2, <2>3, StartKeepsLone
<1>2. CASE Upload(h)
  <2>1. PICK c \in Clusters, zip \in Zips \cup {None}, template \in Templates \cup {None} :
           Start(h, "existing", [NoJob EXCEPT !.upload = TRUE, !.cluster = c, !.zip = zip, !.template = template])
    BY <1>2 DEF Upload
  <2>2. PICK r : r = [NoJob EXCEPT !.upload = TRUE, !.cluster = c, !.zip = zip, !.template = template]
    OBVIOUS
  <2>3. r \in Job /\ ~r.retried /\ r.upload
    BY <2>2, ConstantsTyped DEF Job, NoJob
  <2> QED
    BY <2>1, <2>2, <2>3, StartKeepsLone
<1> QED
  BY <1>1, <1>2

\* A fault disturbs everyone, but not what was uploaded before.
LEMMA FaultKeepsLone ==
    ASSUME TypeOK, LoneInv,
           \/ SidecarRestart \/ GatewayRestart \/ \E h \in Handlers : CallFails(h)
    PROVE  LoneInv'
<1>1. alone' = {} /\ outcome'.lone = FALSE /\ assets' = assets
  BY DEF SidecarRestart, GatewayRestart, CallFails, Fault, NoOutcome, store
<1>2. OutcomeHolds'
  BY <1>1 DEF OutcomeHolds, LoneHandlersSucceed, UploadSurvivesRestart
<1>3. CASE expected'.when = "never"
  BY <1>1, <1>3, NothingSaid
<1>4. CASE expected'.when # "never"
  <2>1. Active = {} /\ (SidecarRestart \/ GatewayRestart)
    BY <1>4 DEF SidecarRestart, GatewayRestart, CallFails, NoExpectation
  <2>2. \A g \in Handlers : pc[g] = "idle" /\ pc'[g] = "idle"
    BY <2>1 DEF Active, SidecarRestart, GatewayRestart
  <2>3. expected.when # "never" /\ expected'.cluster = expected.cluster /\ expected'.material = expected.material
    BY <1>4, <2>1 DEF SidecarRestart, GatewayRestart, TypeOK, Expectation
  <2>4. expected'.when = "now" => sidecar' \in {Nothing, expected'.material}
    BY <2>1, <2>3 DEF SidecarRestart, GatewayRestart, LoneInv, ExpectationHolds
  <2>5. ExpectationHolds'
    BY <1>1, <2>2, <2>3, <2>4 DEF LoneInv, ExpectationHolds
  <2> QED
    BY <1>1, <1>2, <2>5 DEF LoneInv
<1> QED
  BY <1>3, <1>4

-----------------------------------------------------------------------------
(***************************************************************************)
(* Theorems                                                                *)
(***************************************************************************)

\* Documents, files and the files handlers are about to drop are related as
\* IInv says in every state of PutTokenizerAsset (gateway/store.go).
THEOREM LocalTokenizerInvariant == Spec => []IInv
<1>1. Init => IInv
  BY InitInvariant
<1>2. IInv /\ [Next]_vars => IInv'
  BY StepKeepsInvariant
<1> QED
  BY <1>1, <1>2, PTL DEF Spec

\* Documents, marks, jobs and what the sidecar has loaded keep their types.
THEOREM LocalTokenizerTyped == Spec => []TypeOK
<1>1. IInv => TypeOK
  BY DEF IInv
<1> QED
  BY <1>1, LocalTokenizerInvariant, PTL

\* Whatever uploads overlap and whatever call of PutTokenizerAsset fails, the zip
\* a document points at is in the store.
THEOREM AssetsKeepTheirZips == Spec => []AssetHasItsZip
<1>1. IInv => AssetHasItsZip
  BY DEF IInv, Zipped
<1> QED
  BY <1>1, LocalTokenizerInvariant, PTL

\* What is said of lone handlers holds always.
LEMMA LoneInvariant == Spec => []LoneInv
<1>1. Init => LoneInv
  BY DEF Init, LoneInv, ExpectationHolds, OutcomeHolds, LoneHandlersSucceed, UploadSurvivesRestart,
     NoOutcome, NoExpectation
<1>2. IInv /\ LoneInv /\ [Next]_vars => LoneInv'
  <2> SUFFICES ASSUME IInv, LoneInv, [Next]_vars PROVE LoneInv'
    OBVIOUS
  <2>1. CASE UNCHANGED vars
    <3>1. UNCHANGED <<assets, loaded, sidecar, pc, job, outcome, alone, expected>>
      BY <2>1 DEF vars, store, history
    <3> QED
      BY <3>1 DEF LoneInv, Lone, LoneRequest, LoneUpload, ExpectationHolds, OutcomeHolds,
         LoneHandlersSucceed,
         UploadSurvivesRestart
  <2>2. ASSUME NEW h \in Handlers,
               Tokenizing(h) \/ Uploading(h) \/ ReadZip(h) \/ Register(h) \/ CallFails(h)
        PROVE  LoneInv'
    BY <2>2, HandlerKeepsLone, BeginningKeepsLone, FaultKeepsLone, Zenon DEF Tokenizing, Uploading, IInv
  <2>3. CASE SidecarRestart \/ GatewayRestart
    BY <2>3, FaultKeepsLone DEF IInv
  <2> QED
    BY <2>1, <2>2, <2>3 DEF Next
<1> QED
  BY <1>1, <1>2, LocalTokenizerInvariant, PTL DEF Spec

\* A handler that nothing disturbs fails only for want of an asset, whatever
\* restarts and failed calls left in the sidecar, in the marks and in the store
\* before: for any clusters, handlers, tokenizers and templates
\* (tokenizeLocalChat and ensureLocalTokenizer, local_tokenizer.go).
THEOREM LoneHandlersDoNotFail == Spec => []LoneHandlersSucceed
<1>1. LoneInv => LoneHandlersSucceed
  BY DEF LoneInv, OutcomeHolds
<1> QED
  BY <1>1, LoneInvariant, PTL

\* A request after an upload, and after any restarts in between, is tokenized
\* with exactly what was uploaded: for any clusters, handlers, tokenizers and
\* templates (PutTokenizerAsset, registerLocalTokenizer and the sidecar).
THEOREM UploadsSurviveRestarts == Spec => []UploadSurvivesRestart
<1>1. LoneInv => UploadSurvivesRestart
  BY DEF LoneInv, OutcomeHolds
<1> QED
  BY <1>1, LoneInvariant, PTL

=============================================================================
