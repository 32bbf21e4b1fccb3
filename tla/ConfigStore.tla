----------------------------- MODULE ConfigStore -----------------------------
(***************************************************************************)
(* The configuration store of kvindexer (internal/config/store.go), its    *)
(* persisted snapshot and the boot sequence that loads and seeds it        *)
(* (cmd/kvindexer/main.go, internal/config/bootstrap.go).                  *)
(*                                                                         *)
(* Clusters, engines and policies are entities with a value; a model       *)
(* profile has a meaning (all the fields affectsHashNamespace compares)    *)
(* and a version, which together name the namespace its residency is kept  *)
(* in.  Every mutation runs under the store's lock, bumps the version,     *)
(* appends to the audit log and saves a snapshot of everything; a save is  *)
(* atomic and its failure is only logged.                                  *)
(***************************************************************************)
EXTENDS Naturals, Sequences, FiniteSets

CONSTANTS
    Entities,     \* ids of clusters, engines and policies
    Removable,    \* those with a remove operation: engines and policies
    Models,       \* model ids
    Values,       \* values of an entity
    Meanings,     \* values of the hash-affecting fields of a profile
    Requested,    \* versions an upsert may ask for; 0 asks for none
    Seed,         \* the bootstrap: list of [id, value] upserts, in its order
    Persistent,   \* whether a persister is configured
    MayRemove,    \* whether profiles are ever removed
    MaxVersion,   \* bound: mutations in the life of a store
    Failures      \* bound: how often each kind of failure happens

FailureKinds == {"save", "load", "crash"}

ASSUME ConfigAssumption ==
    /\ Removable \subseteq Entities
    /\ Entities \cap Models = {}
    /\ Requested \subseteq Nat
    /\ Seed \in Seq([id : Entities \cup Models, value : Values \cup Meanings])
    /\ \A i \in DOMAIN Seed :
          \/ Seed[i].id \in Entities /\ Seed[i].value \in Values
          \/ Seed[i].id \in Models /\ Seed[i].value \in Meanings
    /\ Persistent \in BOOLEAN /\ MayRemove \in BOOLEAN
    /\ MaxVersion \in Nat
    /\ Failures \in [FailureKinds -> Nat]

VARIABLES
    phase,     \* of the process: "down", "seeding" or "up"
    entities,  \* entity id -> value
    profiles,  \* model id -> [meaning, version]
    version,   \* the config version
    audit,     \* entries [action, id, version], most recent last
    stored,    \* the persisted snapshots: none or one
    seeded,    \* bootstrap entries applied by the seeding under way
    used,      \* namespace -> meanings it was used with (history, like the index in memory only)
    rewound,   \* models whose version went back: removed, or asked lower (history)
    failures   \* failures left

config == <<entities, profiles, version, audit>>
history == <<used, rewound>>
vars == <<phase, config, stored, seeded, history, failures>>

-----------------------------------------------------------------------------

\* Mistake: the entities are saved as they were before the mutation.
SnapshotOfBefore(ents, profs, ver, aud) ==
    [entities |-> entities, profiles |-> profs, version |-> ver, audit |-> aud]

Snapshot(ents, profs, ver, aud) == [entities |-> ents, profiles |-> profs, version |-> ver, audit |-> aud]

Put(map, id, value) == [x \in DOMAIN map \cup {id} |-> IF x = id THEN value ELSE map[x]]

\* Mistake: nothing is deleted.
WithoutNothing(map, id) == map

Without(map, id) == [x \in DOMAIN map \ {id} |-> map[x]]

Spend(kind) ==
    /\ failures[kind] > 0
    /\ failures' = [failures EXCEPT ![kind] = @ - 1]

\* ModelProfile.Namespace: the hash profile and block size it also shows are
\* part of the meaning, so of two meanings they may be equal or not; they are
\* equal for a change of tokenizer, template or seed, the case kept here.
Namespace(m, p) == <<m, p.version>>

\* Residency is stored and queried under the namespaces of the profiles.
Use(profs) ==
    /\ rewound' = rewound \cup {m \in DOMAIN profiles :
                                m \in DOMAIN profs => profs[m].version < profiles[m].version}
    /\ used' = [ns \in DOMAIN used \cup {Namespace(m, profs[m]) : m \in DOMAIN profs} |->
                (IF ns \in DOMAIN used THEN used[ns] ELSE {})
                    \cup {profs[m].meaning : m \in {x \in DOMAIN profs : Namespace(x, profs[x]) = ns}}]

Init ==
    /\ phase = "down"
    /\ entities = << >> /\ profiles = << >>
    /\ version = 0 /\ audit = << >>
    /\ stored = {}
    /\ seeded = 0
    /\ used = << >> /\ rewound = {}
    /\ failures = Failures

-----------------------------------------------------------------------------
(***************************************************************************)
(* Mutations                                                               *)
(***************************************************************************)

AuditEntry(action, id) == [action |-> action, id |-> id, version |-> version + 1]

\* bump and persistLocked, which every mutation ends with.
Commit(ents, profs, action, id) ==
    LET log == Append(audit, AuditEntry(action, id))
    IN  /\ version < MaxVersion
        /\ entities' = ents
        /\ profiles' = profs
        /\ version' = version + 1
        /\ audit' = log
        /\ Use(profs)
        /\ \/ /\ stored' = IF Persistent THEN {Snapshot(ents, profs, version + 1, log)} ELSE stored
              /\ UNCHANGED failures
           \/ /\ Persistent
              /\ Spend("save")
              /\ UNCHANGED stored

\* UpsertCluster, UpsertEngine, UpsertPolicy
Upsert(id, value) == Commit(Put(entities, id, value), profiles, "upsert", id)

\* PatchCluster, PatchEngine, PatchPolicy
Patch(id, value) ==
    /\ id \in DOMAIN entities
    /\ Commit(Put(entities, id, value), profiles, "patch", id)

\* RemoveEngine, RemovePolicy
Remove(id) ==
    /\ id \in DOMAIN entities
    /\ Commit(Without(entities, id), profiles, "remove", id)

\* Mistake: a profile keeps its version when its meaning changes.
StoredVersionKept(m, meaning, requested) ==
    IF requested # 0 THEN requested ELSE IF m \in DOMAIN profiles THEN profiles[m].version ELSE 1

\* The version a profile is stored with.
StoredVersion(m, meaning, requested) ==
    IF m \in DOMAIN profiles /\ profiles[m].meaning # meaning THEN profiles[m].version + 1
    ELSE IF requested # 0 THEN requested
    ELSE IF m \in DOMAIN profiles THEN profiles[m].version
    ELSE 1

UpsertModelProfile(m, meaning, requested) ==
    LET p == [meaning |-> meaning, version |-> StoredVersion(m, meaning, requested)]
    IN  Commit(entities, Put(profiles, m, p), "upsert", m)

RemoveModelProfile(m) ==
    /\ MayRemove
    /\ m \in DOMAIN profiles
    /\ Commit(entities, Without(profiles, m), "remove", m)

\* The API is served once the store is loaded and seeded.
Serve ==
    /\ phase = "up"
    /\ \/ \E id \in Entities, value \in Values : Upsert(id, value) \/ Patch(id, value)
       \/ \E id \in Removable : Remove(id)
       \/ \E m \in Models, meaning \in Meanings, requested \in Requested :
             UpsertModelProfile(m, meaning, requested)
       \/ \E m \in Models : RemoveModelProfile(m)
    /\ UNCHANGED <<phase, seeded>>

-----------------------------------------------------------------------------
(***************************************************************************)
(* Boot                                                                    *)
(***************************************************************************)

\* Mistake: the bootstrap is applied at every boot.
AfterEveryLoad(ver) == "seeding"

\* ApplyBootstrapForCluster is a no-op on a store with a version.
AfterLoad(ver) == IF ver = 0 THEN "seeding" ELSE "up"

LoadStored ==
    /\ phase = "down"
    /\ \E snap \in stored :
          /\ entities' = snap.entities /\ profiles' = snap.profiles
          /\ version' = snap.version /\ audit' = snap.audit
          /\ Use(snap.profiles)
          /\ phase' = AfterLoad(snap.version)
    /\ UNCHANGED <<stored, seeded, failures>>

\* Nothing stored yet, or an error while loading: "starting empty".
StartEmpty ==
    /\ phase = "down"
    /\ IF stored = {} THEN UNCHANGED failures ELSE Spend("load")
    /\ phase' = AfterLoad(version)
    /\ UNCHANGED <<config, stored, seeded, history>>

\* One upsert of ApplyBootstrapForCluster, each with its own save.
SeedNext ==
    /\ phase = "seeding"
    /\ seeded < Len(Seed)
    /\ LET next == Seed[seeded + 1]
       IN  IF next.id \in Models THEN UpsertModelProfile(next.id, next.value, 0)
                                 ELSE Upsert(next.id, next.value)
    /\ seeded' = seeded + 1
    /\ UNCHANGED phase

SeedingDone ==
    /\ phase = "seeding"
    /\ seeded = Len(Seed)
    /\ phase' = "up"
    /\ UNCHANGED <<config, stored, seeded, history, failures>>

\* The process ends at any point: what it held in memory is gone.
Crash ==
    /\ phase # "down"
    /\ Spend("crash")
    /\ phase' = "down"
    /\ entities' = << >> /\ profiles' = << >>
    /\ version' = 0 /\ audit' = << >>
    /\ seeded' = 0
    /\ used' = << >> /\ rewound' = {}
    /\ UNCHANGED stored

-----------------------------------------------------------------------------

Next == Serve \/ LoadStored \/ StartEmpty \/ SeedNext \/ SeedingDone \/ Crash

Spec == Init /\ [][Next]_vars

-----------------------------------------------------------------------------
(***************************************************************************)
(* Properties                                                              *)
(***************************************************************************)

\* What an audit log says of an id: its last entry left it in place.
InPlace(log, id) ==
    \E i \in DOMAIN log :
        /\ log[i].id = id /\ log[i].action # "remove"
        /\ \A j \in DOMAIN log : j > i => log[j].id # id

\* A log explains a configuration: its entries are numbered with the versions
\* and name what is there.
Explains(log, ents, profs, ver) ==
    /\ ver = Len(log)
    /\ \A i \in DOMAIN log : log[i].version = i
    /\ \A id \in Entities : id \in DOMAIN ents <=> InPlace(log, id)
    /\ \A m \in Models : m \in DOMAIN profs <=> InPlace(log, m)

\* bump: the audit log numbers its entries with the versions, and explains the
\* configuration, through saves that failed, restarts and seeding.
AuditExplainsConfig == Explains(audit, entities, profiles, version)

IsPrefixOf(s, t) == Len(s) <= Len(t) /\ \A i \in DOMAIN s : s[i] = t[i]

\* The snapshot is an earlier moment of the store, never a mixture of two: a
\* restart goes back to the last mutation that was saved and to nothing else.
SnapshotIsAMoment ==
    phase = "up" =>
        \A snap \in stored :
            /\ IsPrefixOf(snap.audit, audit)
            /\ snap.audit = audit =>
                  snap = Snapshot(entities, profiles, version, audit)

\* "Any change to a token/hash-affecting field must change this string (via
\* Version bump)" (internal/config/model.go, Namespace): while an index lives,
\* a namespace never holds blocks hashed under two meanings, if its profile was
\* not removed or set back to a lower version: bumping, asking for a version and
\* keeping the stored one work together in any order.  A profile removed and
\* created again starts over at version 1 (UpsertModelProfile), in the namespace
\* of the removed one.
ForwardNamespaceHasOneMeaning ==
    \A ns \in DOMAIN used : ns[1] \notin rewound => Cardinality(used[ns]) <= 1

\* "It is a no-op (returns false) if the store is already non-empty, so it never
\* clobbers live runtime state on restart" (internal/config/bootstrap.go,
\* ApplyBootstrap): no seeding step touches what the saved configuration
\* knows, and none replaces it with less.
SeedingNeverClobbers ==
    [][phase = "seeding" /\ version' # version /\ phase' = phase =>
          \A snap \in stored :
              /\ \A i \in DOMAIN snap.audit : snap.audit[i].id # Seed[seeded + 1].id
              /\ \E after \in stored' : IsPrefixOf(snap.audit, after.audit)]_vars

=============================================================================
