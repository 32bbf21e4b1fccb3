-------------------------- MODULE ConfigStoreProofs --------------------------
(***************************************************************************)
(* Proofs about the configuration store, for any entities, models, values  *)
(* and bootstrap, and any number of mutations and failures.                *)
(*                                                                         *)
(* A snapshot is loaded as it was saved, so what is claimed of the         *)
(* configuration has to hold of the saved one too: SoundInv says both.     *)
(* Namespaces and moments are invariants of their own on top of it.        *)
(***************************************************************************)
EXTENDS ConfigStore, FiniteSetTheorems, TLAPS

Ids == Entities \cup Models
Entries == [action : {"upsert", "patch", "remove"}, id : Ids, version : Nat]
Profiles == [meaning : Meanings, version : Nat]

\* A configuration of its types, explained by its log.
Sound(ents, profs, ver, log) ==
    /\ DOMAIN ents \subseteq Entities /\ ents \in [DOMAIN ents -> Values]
    /\ DOMAIN profs \subseteq Models /\ profs \in [DOMAIN profs -> Profiles]
    /\ log \in Seq(Entries)
    /\ Explains(log, ents, profs, ver)

SoundSnapshot(snap) ==
    /\ snap = Snapshot(snap.entities, snap.profiles, snap.version, snap.audit)
    /\ Sound(snap.entities, snap.profiles, snap.version, snap.audit)
    /\ snap.version > 0

\* A process that is down holds nothing.
Nothing ==
    /\ entities = << >> /\ profiles = << >> /\ version = 0 /\ audit = << >>
    /\ used = << >> /\ rewound = {}
    /\ seeded = 0

SoundInv ==
    /\ phase \in {"down", "seeding", "up"}
    /\ seeded \in 0..Len(Seed)
    /\ failures \in [FailureKinds -> Nat]
    /\ Sound(entities, profiles, version, audit)
    /\ \A snap \in stored : SoundSnapshot(snap)
    /\ \A s, t \in stored : s = t
    /\ phase = "down" => Nothing

-----------------------------------------------------------------------------
(***************************************************************************)
(* The log explains the configuration.                                     *)
(***************************************************************************)

\* An entry more decides about its id and about no other.
LEMMA AppendedEntry ==
    ASSUME NEW log \in Seq(Entries), NEW entry \in Entries, NEW id
    PROVE  InPlace(Append(log, entry), id) <=>
              IF id = entry.id THEN entry.action # "remove" ELSE InPlace(log, id)
<1> DEFINE more == Append(log, entry)
<1>1. /\ DOMAIN log = 1..Len(log) /\ Len(log) \in Nat
      /\ DOMAIN more = 1..(Len(log) + 1)
      /\ more[Len(log) + 1] = entry
      /\ \A i \in 1..Len(log) : more[i] = log[i]
  OBVIOUS
<1> HIDE DEF more
<1>2. CASE id = entry.id
  <2>1. ASSUME NEW i \in DOMAIN more, more[i].id = id,
               \A j \in DOMAIN more : j > i => more[j].id # id
        PROVE  i = Len(log) + 1
    BY <2>1, <1>1, <1>2
  <2>2. QED
    BY <2>1, <1>1, <1>2 DEF InPlace
<1>3. CASE id # entry.id
  <2>1. ASSUME InPlace(more, id) PROVE InPlace(log, id)
    BY <2>1, <1>1, <1>3 DEF InPlace
  <2>2. ASSUME InPlace(log, id) PROVE InPlace(more, id)
    BY <2>2, <1>1, <1>3 DEF InPlace
  <2>3. QED
    BY <2>1, <2>2, <1>3 DEF more
<1>4. QED
  BY <1>2, <1>3 DEF more

\* Every mutation leaves a sound configuration, in memory and in the snapshot.
LEMMA CommitKeepsSound ==
    ASSUME SoundInv, phase # "down",
           NEW ents, NEW profs, NEW id \in Ids, NEW action \in {"upsert", "patch", "remove"},
           DOMAIN ents \subseteq Entities, ents \in [DOMAIN ents -> Values],
           DOMAIN profs \subseteq Models, profs \in [DOMAIN profs -> Profiles],
           \A x \in Entities : x \in DOMAIN ents <=>
                                  IF x = id THEN action # "remove" ELSE x \in DOMAIN entities,
           \A x \in Models : x \in DOMAIN profs <=>
                                  IF x = id THEN action # "remove" ELSE x \in DOMAIN profiles,
           Commit(ents, profs, action, id),
           phase' = phase, seeded' \in 0..Len(Seed)
    PROVE  SoundInv'
<1> DEFINE entry == AuditEntry(action, id)
           log == Append(audit, entry)
<1>1. /\ version = Len(audit) /\ version \in Nat /\ audit \in Seq(Entries)
      /\ \A i \in DOMAIN audit : audit[i].version = i
      /\ \A x \in Entities : x \in DOMAIN entities <=> InPlace(audit, x)
      /\ \A x \in Models : x \in DOMAIN profiles <=> InPlace(audit, x)
  BY DEF SoundInv, Sound, Explains
<1>2. /\ entry \in Entries /\ entry.id = id /\ entry.action = action /\ entry.version = version + 1
  BY <1>1 DEF AuditEntry, Entries
<1>3. /\ entities' = ents /\ profiles' = profs /\ version' = version + 1 /\ audit' = log
      /\ failures' \in [FailureKinds -> Nat]
      /\ stored' = stored \/ stored' = {Snapshot(ents, profs, version + 1, log)}
  BY DEF Commit, Spend, SoundInv, FailureKinds
<1>4. /\ log \in Seq(Entries) /\ Len(log) = version + 1
      /\ \A i \in DOMAIN log : log[i].version = i
  BY <1>1, <1>2
<1>5. \A x : InPlace(log, x) <=> IF x = id THEN action # "remove" ELSE InPlace(audit, x)
  BY <1>1, <1>2, AppendedEntry
<1> HIDE DEF log, entry
<1>6. Sound(ents, profs, version + 1, log)
  BY <1>1, <1>4, <1>5 DEF Sound, Explains
<1>7. SoundSnapshot(Snapshot(ents, profs, version + 1, log))
  BY <1>1, <1>6 DEF SoundSnapshot, Snapshot
<1>8. \A snap \in stored' : SoundSnapshot(snap)
  BY <1>3, <1>7 DEF SoundInv
<1>9. \A s, t \in stored' : s = t
  BY <1>3 DEF SoundInv
<1>10. QED
  BY <1>3, <1>6, <1>8, <1>9 DEF SoundInv, Sound, Explains, SoundSnapshot

\* An upsert, patch or removal of an entity changes that entity only.
LEMMA EntityCommit ==
    ASSUME SoundInv, phase # "down", phase' = phase, seeded' \in 0..Len(Seed),
           NEW id \in Entities,
           \/ \E value \in Values : Upsert(id, value) \/ Patch(id, value)
           \/ Remove(id)
    PROVE  SoundInv'
<1>1. /\ DOMAIN entities \subseteq Entities /\ entities \in [DOMAIN entities -> Values]
      /\ DOMAIN profiles \subseteq Models /\ profiles \in [DOMAIN profiles -> Profiles]
      /\ id \in Ids /\ id \notin Models
  BY ConfigAssumption DEF SoundInv, Sound, Ids
<1>2. CASE \E value \in Values : Upsert(id, value) \/ Patch(id, value)
  <2>1. PICK value \in Values, action \in {"upsert", "patch"} :
            Commit(Put(entities, id, value), profiles, action, id)
    BY <1>2 DEF Upsert, Patch
  <2>2. /\ DOMAIN Put(entities, id, value) = DOMAIN entities \cup {id}
        /\ Put(entities, id, value) \in [DOMAIN Put(entities, id, value) -> Values]
    BY <1>1 DEF Put
  <2>3. QED
    BY <1>1, <2>1, <2>2, CommitKeepsSound
<1>3. CASE Remove(id)
  <2>1. Commit(Without(entities, id), profiles, "remove", id)
    BY <1>3 DEF Remove
  <2>2. /\ DOMAIN Without(entities, id) = DOMAIN entities \ {id}
        /\ Without(entities, id) \in [DOMAIN Without(entities, id) -> Values]
    BY <1>1 DEF Without
  <2>3. QED
    BY <1>1, <2>1, <2>2, CommitKeepsSound
<1>4. QED
  BY <1>2, <1>3

\* The version a profile is stored with is a number.
LEMMA StoredVersionType ==
    ASSUME SoundInv, NEW m \in Models, NEW meaning, NEW requested \in Requested \cup {0}
    PROVE  StoredVersion(m, meaning, requested) \in Nat
BY ConfigAssumption DEF StoredVersion, SoundInv, Sound, Profiles

\* An upsert or removal of a profile changes that profile only.
LEMMA ProfileCommit ==
    ASSUME SoundInv, phase # "down", phase' = phase, seeded' \in 0..Len(Seed),
           NEW m \in Models,
           \/ \E meaning \in Meanings, requested \in Requested \cup {0} :
                 UpsertModelProfile(m, meaning, requested)
           \/ RemoveModelProfile(m)
    PROVE  SoundInv'
<1>1. /\ DOMAIN entities \subseteq Entities /\ entities \in [DOMAIN entities -> Values]
      /\ DOMAIN profiles \subseteq Models /\ profiles \in [DOMAIN profiles -> Profiles]
      /\ m \in Ids /\ m \notin Entities
  BY ConfigAssumption DEF SoundInv, Sound, Ids
<1>2. CASE \E meaning \in Meanings, requested \in Requested \cup {0} :
              UpsertModelProfile(m, meaning, requested)
  <2>1. PICK p \in Profiles : Commit(entities, Put(profiles, m, p), "upsert", m)
    BY <1>2, StoredVersionType DEF UpsertModelProfile, Profiles
  <2>2. /\ DOMAIN Put(profiles, m, p) = DOMAIN profiles \cup {m}
        /\ Put(profiles, m, p) \in [DOMAIN Put(profiles, m, p) -> Profiles]
    BY <1>1 DEF Put
  <2>3. QED
    BY <1>1, <2>1, <2>2, CommitKeepsSound
<1>3. CASE RemoveModelProfile(m)
  <2>1. Commit(entities, Without(profiles, m), "remove", m)
    BY <1>3 DEF RemoveModelProfile
  <2>2. /\ DOMAIN Without(profiles, m) = DOMAIN profiles \ {m}
        /\ Without(profiles, m) \in [DOMAIN Without(profiles, m) -> Profiles]
    BY <1>1 DEF Without
  <2>3. QED
    BY <1>1, <2>1, <2>2, CommitKeepsSound
<1>4. QED
  BY <1>2, <1>3

\* The entry of the bootstrap that a seeding step applies.
LEMMA NextOfSeed ==
    ASSUME SoundInv, seeded < Len(Seed)
    PROVE  /\ seeded + 1 \in DOMAIN Seed
           /\ LET next == Seed[seeded + 1]
              IN  \/ next.id \in Entities /\ next.id \notin Models /\ next.value \in Values
                  \/ next.id \in Models /\ next.id \notin Entities /\ next.value \in Meanings
BY ConfigAssumption DEF SoundInv

\* An empty configuration is sound.
LEMMA NothingIsSound == Sound(<< >>, << >>, 0, << >>)
BY DEF Sound, Explains, InPlace

LEMMA StepKeepsSound == ASSUME SoundInv, [Next]_vars PROVE SoundInv'
<1>1. CASE Serve
  <2> USE <1>1 DEF Serve
  <2>1. phase # "down" /\ phase' = phase /\ seeded' \in 0..Len(Seed)
    BY DEF SoundInv
  <2>2. CASE \E id \in Entities, value \in Values : Upsert(id, value) \/ Patch(id, value)
    BY <2>1, <2>2, EntityCommit
  <2>3. CASE \E id \in Removable : Remove(id)
    BY <2>1, <2>3, EntityCommit, ConfigAssumption
  <2>4. CASE \E m \in Models, meaning \in Meanings, requested \in Requested :
                UpsertModelProfile(m, meaning, requested)
    BY <2>1, <2>4, ProfileCommit
  <2>5. CASE \E m \in Models : RemoveModelProfile(m)
    BY <2>1, <2>5, ProfileCommit
  <2>6. QED
    BY <2>2, <2>3, <2>4, <2>5
<1>2. CASE LoadStored
  <2>1. PICK snap \in stored : /\ entities' = snap.entities /\ profiles' = snap.profiles
                               /\ version' = snap.version /\ audit' = snap.audit
                               /\ phase' = AfterLoad(snap.version)
                               /\ stored' = stored /\ seeded' = seeded /\ failures' = failures
    BY <1>2 DEF LoadStored
  <2>2. SoundSnapshot(snap) /\ phase' = "up"
    BY <2>1 DEF SoundInv, SoundSnapshot, AfterLoad, Sound, Explains
  <2>3. QED
    BY <2>1, <2>2 DEF SoundInv, SoundSnapshot, Sound, Explains
<1>3. CASE StartEmpty
  <2>1. /\ phase' \in {"seeding", "up"} /\ failures' \in [FailureKinds -> Nat]
        /\ UNCHANGED <<entities, profiles, version, audit, stored, seeded>>
    BY <1>3 DEF StartEmpty, AfterLoad, Spend, SoundInv, FailureKinds, config
  <2>2. QED
    BY <2>1 DEF SoundInv, Sound, Explains
<1>4. CASE SeedNext
  <2>1. /\ seeded' = seeded + 1 /\ phase' = phase /\ phase # "down" /\ seeded < Len(Seed)
        /\ seeded' \in 0..Len(Seed)
    BY <1>4 DEF SeedNext, SoundInv
  <2>2. CASE Seed[seeded + 1].id \in Models
    BY <1>4, <2>1, <2>2, NextOfSeed, ProfileCommit DEF SeedNext
  <2>3. CASE Seed[seeded + 1].id \notin Models
    BY <1>4, <2>1, <2>3, NextOfSeed, EntityCommit DEF SeedNext
  <2>4. QED
    BY <2>2, <2>3
<1>5. CASE SeedingDone
  BY <1>5 DEF SeedingDone, SoundInv, Sound, Explains, config
<1>6. CASE Crash
  <2>1. /\ phase' = "down" /\ Nothing' /\ stored' = stored
        /\ failures' \in [FailureKinds -> Nat]
    BY <1>6 DEF Crash, Spend, SoundInv, FailureKinds, Nothing
  <2>2. Sound(entities, profiles, version, audit)'
    BY <2>1, NothingIsSound DEF Nothing, Sound, Explains
  <2>3. QED
    BY <2>1, <2>2, ConfigAssumption DEF SoundInv, Nothing
<1>7. CASE UNCHANGED vars
  BY <1>7 DEF vars, config, history, SoundInv, Sound, Explains, Nothing
<1>8. QED
  BY <1>1, <1>2, <1>3, <1>4, <1>5, <1>6, <1>7 DEF Next

LEMMA StartsSound == Init => SoundInv
<1> SUFFICES ASSUME Init PROVE SoundInv
  OBVIOUS
<1>1. Len(Seed) \in Nat
  BY ConfigAssumption
<1>2. QED
  BY <1>1, NothingIsSound, ConfigAssumption DEF Init, SoundInv, Nothing

\* Whatever saves fail and wherever the process crashes, loads, seeds and
\* serves, the configuration and the saved one are explained by their logs.
THEOREM ConfigurationSound == Spec => []SoundInv
<1>1. QED
  BY StartsSound, StepKeepsSound, PTL DEF Spec

\* bump: the audit log explains the configuration (AuditExplainsConfig).
THEOREM AuditExplains == Spec => []AuditExplainsConfig
<1>1. SoundInv => AuditExplainsConfig
  BY DEF SoundInv, Sound, AuditExplainsConfig
<1>2. QED
  BY <1>1, ConfigurationSound, PTL

-----------------------------------------------------------------------------
(***************************************************************************)
(* A namespace has one meaning.  While the version of a model only grows,  *)
(* its namespaces are numbered up to the version it has, and the last one  *)
(* has the meaning the profile has: the next one is new.                   *)
(***************************************************************************)

OneMeaning(ns) ==
    /\ ns[1] \in DOMAIN profiles
    /\ ns[2] <= profiles[ns[1]].version
    /\ \E meaning : used[ns] = {meaning}
    /\ ns[2] = profiles[ns[1]].version => used[ns] = {profiles[ns[1]].meaning}

ForwardInv ==
    /\ DOMAIN used \subseteq Models \X Nat
    /\ \A ns \in DOMAIN used : ns[1] \notin rewound => OneMeaning(ns)

\* Profiles whose versions change with their meanings keep namespaces apart.
LEMMA UseKeepsForward ==
    ASSUME SoundInv, ForwardInv, NEW profs,
           DOMAIN profs \subseteq Models, profs \in [DOMAIN profs -> Profiles],
           \A m \in DOMAIN profiles \cap DOMAIN profs :
               profs[m].version = profiles[m].version => profs[m].meaning = profiles[m].meaning,
           profiles' = profs, Use(profs)
    PROVE  ForwardInv'
<1> DEFINE here(ns) == {x \in DOMAIN profs : Namespace(x, profs[x]) = ns}
           before(ns) == IF ns \in DOMAIN used THEN used[ns] ELSE {}
<1>1. /\ \A m \in DOMAIN profiles : profiles[m].version \in Nat
      /\ \A m \in DOMAIN profs : m \in Models /\ profs[m].version \in Nat
  BY DEF SoundInv, Sound, Profiles
<1>2. /\ DOMAIN used' = DOMAIN used \cup {Namespace(m, profs[m]) : m \in DOMAIN profs}
      /\ \A ns \in DOMAIN used' : used'[ns] = before(ns) \cup {profs[m].meaning : m \in here(ns)}
      /\ rewound' = rewound \cup {m \in DOMAIN profiles :
                                  m \in DOMAIN profs => profs[m].version < profiles[m].version}
  BY DEF Use
<1>3. DOMAIN used' \subseteq Models \X Nat
  BY <1>1, <1>2 DEF ForwardInv, Namespace
<1>4. ASSUME NEW ns \in DOMAIN used', ns[1] \notin rewound'
      PROVE  OneMeaning(ns)'
  <2> DEFINE m == ns[1]
  <2>1. ns = <<m, ns[2]>> /\ ns[2] \in Nat
    BY <1>3
  <2>2. here(ns) = IF m \in DOMAIN profs /\ profs[m].version = ns[2] THEN {m} ELSE {}
    BY <2>1 DEF Namespace
  <2>3. CASE ns \in DOMAIN used
    <3>1. /\ m \in DOMAIN profiles /\ ns[2] <= profiles[m].version
          /\ \E meaning : used[ns] = {meaning}
          /\ ns[2] = profiles[m].version => used[ns] = {profiles[m].meaning}
      BY <1>2, <1>4, <2>3 DEF ForwardInv, OneMeaning
    <3>2. m \in DOMAIN profs /\ profs[m].version >= profiles[m].version
      BY <1>1, <1>2, <1>4, <3>1
    <3>3. CASE profs[m].version = ns[2]
      <4>1. profiles[m].version = ns[2]
        BY <1>1, <2>1, <3>1, <3>2, <3>3
      <4>2. used[ns] = {profs[m].meaning}
        BY <3>1, <3>2, <3>3, <4>1
      <4>3. used'[ns] = {profs[m].meaning}
        BY <1>2, <1>4, <2>2, <2>3, <3>2, <3>3, <4>2
      <4>4. QED
        BY <2>1, <3>2, <3>3, <4>3 DEF OneMeaning
    <3>4. CASE profs[m].version # ns[2]
      <4>1. used'[ns] = used[ns]
        <5>1. here(ns) = {}
          BY <2>2, <3>4
        <5>2. {profs[x].meaning : x \in here(ns)} = {}
          BY <5>1, Zenon
        <5>3. QED
          BY <1>2, <1>4, <2>3, <5>2
      <4>2. QED
        BY <1>1, <2>1, <3>1, <3>2, <3>4, <4>1 DEF OneMeaning
    <3>5. QED
      BY <3>3, <3>4
  <2>4. CASE ns \notin DOMAIN used
    <3>1. m \in DOMAIN profs /\ profs[m].version = ns[2]
      BY <1>2, <1>4, <2>4 DEF Namespace
    <3>2. used'[ns] = {profs[m].meaning}
      BY <1>2, <1>4, <2>2, <2>4, <3>1
    <3>3. profiles'[m].version = ns[2] /\ used'[ns] = {profiles'[m].meaning}
      BY <3>1, <3>2
    <3>4. m \in DOMAIN profiles' /\ ns[2] <= profiles'[m].version
      BY <2>1, <3>1, <3>3
    <3>5. QED
      BY <3>3, <3>4, Zenon DEF OneMeaning
  <2>5. QED
    BY <2>3, <2>4
<1>5. QED
  BY <1>3, <1>4 DEF ForwardInv

\* Nothing but an upsert changes a profile, and it bumps the version with the
\* meaning.
LEMMA CommitKeepsForward ==
    ASSUME SoundInv, SoundInv', ForwardInv,
           \/ \E ents, action, id : Commit(ents, profiles, action, id)
           \/ \E m \in Models, meaning \in Meanings, requested \in Requested \cup {0} :
                 UpsertModelProfile(m, meaning, requested)
           \/ \E m \in Models : RemoveModelProfile(m)
    PROVE  ForwardInv'
<1>1. /\ DOMAIN profiles' \subseteq Models /\ profiles' \in [DOMAIN profiles' -> Profiles]
      /\ DOMAIN profiles \subseteq Models /\ profiles \in [DOMAIN profiles -> Profiles]
  BY DEF SoundInv, Sound
<1>2. CASE \E ents, action, id : Commit(ents, profiles, action, id)
  <2>1. profiles' = profiles /\ Use(profiles)
    BY <1>2 DEF Commit
  <2>2. QED
    BY <1>1, <2>1, UseKeepsForward
<1>3. CASE \E m \in Models, meaning \in Meanings, requested \in Requested \cup {0} :
              UpsertModelProfile(m, meaning, requested)
  <2>1. PICK m \in Models, meaning \in Meanings, requested \in Requested \cup {0} :
            UpsertModelProfile(m, meaning, requested)
    BY <1>3
  <2> DEFINE p == [meaning |-> meaning, version |-> StoredVersion(m, meaning, requested)]
             profs == Put(profiles, m, p)
  <2>2. profiles' = profs /\ Use(profs)
    BY <2>1 DEF UpsertModelProfile, Commit
  <2>3. ASSUME NEW x \in DOMAIN profiles, profs[x].version = profiles[x].version
        PROVE  profs[x].meaning = profiles[x].meaning
    <3>1. CASE x = m /\ profiles[m].meaning # meaning
      <4>1. profs[x].version = profiles[m].version + 1
        BY <2>3, <3>1 DEF Put, StoredVersion
      <4>2. QED
        BY <2>3, <3>1, <4>1, <1>1 DEF Profiles
    <3>2. CASE ~(x = m /\ profiles[m].meaning # meaning)
      BY <2>3, <3>2 DEF Put
    <3>3. QED
      BY <3>1, <3>2
  <2>4. QED
    BY <1>1, <2>2, <2>3, UseKeepsForward
<1>4. CASE \E m \in Models : RemoveModelProfile(m)
  <2>1. PICK m \in Models : RemoveModelProfile(m)
    BY <1>4
  <2>2. profiles' = Without(profiles, m) /\ Use(Without(profiles, m))
    BY <2>1 DEF RemoveModelProfile, Commit
  <2>3. \A x \in DOMAIN Without(profiles, m) : Without(profiles, m)[x] = profiles[x]
    BY DEF Without
  <2>4. QED
    BY <1>1, <2>2, <2>3, UseKeepsForward
<1>5. QED
  BY <1>2, <1>3, <1>4

LEMMA StepKeepsForward ==
    ASSUME SoundInv, SoundInv', ForwardInv, [Next]_vars
    PROVE  ForwardInv'
<1>1. CASE Serve \/ SeedNext
  <2>1. \/ \E ents, action, id : Commit(ents, profiles, action, id)
        \/ \E m \in Models, meaning \in Meanings, requested \in Requested \cup {0} :
              UpsertModelProfile(m, meaning, requested)
        \/ \E m \in Models : RemoveModelProfile(m)
    BY <1>1, NextOfSeed DEF Serve, SeedNext, Upsert, Patch, Remove
  <2>2. QED
    BY <2>1, CommitKeepsForward
<1>2. CASE LoadStored
  <2>1. /\ DOMAIN profiles' \subseteq Models /\ profiles' \in [DOMAIN profiles' -> Profiles]
        /\ Use(profiles')
    BY <1>2 DEF LoadStored, SoundInv, Sound
  <2>2. profiles = << >>
    BY <1>2 DEF LoadStored, SoundInv, Nothing
  <2>3. QED
    BY <2>1, <2>2, UseKeepsForward
<1>3. CASE Crash
  BY <1>3 DEF Crash, ForwardInv
<1>4. CASE UNCHANGED <<config, history>>
  BY <1>4 DEF config, history, ForwardInv, OneMeaning
<1>5. QED
  BY <1>1, <1>2, <1>3, <1>4 DEF Next, StartEmpty, SeedingDone, vars

\* "Any change to a token/hash-affecting field must change this string"
\* (ModelProfile.Namespace): while a model's version only grows, no namespace of
\* a living index holds blocks hashed under two meanings.
THEOREM NamespaceHasOneMeaning == Spec => []ForwardNamespaceHasOneMeaning
<1>1. Init => ForwardInv
  BY DEF Init, ForwardInv
<1>2. SoundInv /\ SoundInv' /\ ForwardInv /\ [Next]_vars => ForwardInv'
  BY StepKeepsForward
<1>3. ForwardInv => ForwardNamespaceHasOneMeaning
  <2>1. ASSUME NEW x PROVE Cardinality({x}) <= 1
    <3>1. Cardinality({x}) = 1
      BY FS_Singleton, Zenon
    <3>2. QED
      BY <3>1
  <2>2. ASSUME ForwardInv, NEW ns \in DOMAIN used, ns[1] \notin rewound
        PROVE  Cardinality(used[ns]) <= 1
    <3>1. PICK meaning : used[ns] = {meaning}
      BY <2>2 DEF ForwardInv, OneMeaning
    <3>2. QED
      BY <2>1, <3>1
  <2>3. QED
    BY <2>2 DEF ForwardNamespaceHasOneMeaning
<1>4. QED
  BY <1>1, <1>2, <1>3, ConfigurationSound, PTL DEF Spec

-----------------------------------------------------------------------------
(***************************************************************************)
(* The snapshot is a moment of the store.  A load that fails makes the     *)
(* store forget what is saved, and seeding overwrites it: here none does.  *)
(***************************************************************************)

MomentInv ==
    /\ failures["load"] = 0
    /\ phase # "down" =>
          \A snap \in stored :
              /\ IsPrefixOf(snap.audit, audit)
              /\ snap.audit = audit => snap = Snapshot(entities, profiles, version, audit)
    /\ phase = "seeding" =>
          /\ Len(audit) = seeded
          /\ \A i \in DOMAIN audit : audit[i].id = Seed[i].id

\* A log is a prefix of itself with entries appended, and of what those begin.
LEMMA PrefixOfMore ==
    ASSUME NEW s \in Seq(Entries), NEW t \in Seq(Entries), NEW entry \in Entries,
           IsPrefixOf(s, t)
    PROVE  /\ IsPrefixOf(s, Append(t, entry))
           /\ s # Append(t, entry)
           /\ IsPrefixOf(Append(t, entry), Append(t, entry))
BY DEF IsPrefixOf

\* A mutation saves what it leaves, or leaves a snapshot of before.
LEMMA CommitKeepsMoment ==
    ASSUME SoundInv, MomentInv, phase # "down",
           NEW ents, NEW profs, NEW id \in Ids, NEW action \in {"upsert", "patch", "remove"},
           Commit(ents, profs, action, id)
    PROVE  /\ failures'["load"] = 0
           /\ \A snap \in stored' :
                 /\ IsPrefixOf(snap.audit, audit')
                 /\ snap.audit = audit' => snap = Snapshot(entities', profiles', version', audit')
           /\ audit' = Append(audit, AuditEntry(action, id))
<1> DEFINE entry == AuditEntry(action, id)
           log == Append(audit, entry)
<1>1. /\ entities' = ents /\ profiles' = profs /\ version' = version + 1 /\ audit' = log
      /\ stored' = stored \/ stored' = {Snapshot(ents, profs, version + 1, log)}
  BY DEF Commit
<1>2. failures'["load"] = 0
  BY DEF Commit, Spend, SoundInv, MomentInv, FailureKinds
<1>3. audit \in Seq(Entries) /\ entry \in Entries
  BY DEF SoundInv, Sound, Explains, AuditEntry, Entries
<1>4. CASE stored' = stored
  <2>1. ASSUME NEW snap \in stored
        PROVE  IsPrefixOf(snap.audit, log) /\ snap.audit # log
    <3>1. snap.audit \in Seq(Entries) /\ IsPrefixOf(snap.audit, audit)
      BY DEF SoundInv, SoundSnapshot, Sound, MomentInv
    <3>2. QED
      BY <3>1, <1>3, PrefixOfMore
  <2>2. QED
    BY <1>1, <1>2, <1>4, <2>1
<1>5. CASE stored' = {Snapshot(ents, profs, version + 1, log)}
  <2>1. IsPrefixOf(audit, audit)
    BY <1>3 DEF IsPrefixOf
  <2>2. IsPrefixOf(log, log)
    BY <1>3, <2>1, PrefixOfMore
  <2>3. QED
    BY <1>1, <1>2, <1>5, <2>2 DEF Snapshot
<1>6. QED
  BY <1>1, <1>4, <1>5

\* Every mutation, of the API or of the bootstrap, is one.
LEMMA MutationCommits ==
    ASSUME SoundInv, Serve \/ SeedNext
    PROVE  /\ phase' = phase /\ phase # "down"
           /\ \E ents, profs : \E id \in Ids, action \in {"upsert", "patch", "remove"} :
                 /\ Commit(ents, profs, action, id)
                 /\ SeedNext => id = Seed[seeded + 1].id
<1>1. CASE Serve
  <2>1. \E ents, profs : \E id \in Ids, action \in {"upsert", "patch", "remove"} :
            Commit(ents, profs, action, id)
    BY <1>1, ConfigAssumption
       DEF Serve, Ids, Upsert, Patch, Remove, UpsertModelProfile, RemoveModelProfile
  <2>2. phase = "up" /\ ~SeedNext
    BY <1>1 DEF Serve, SeedNext
  <2>3. QED
    BY <1>1, <2>1, <2>2 DEF Serve
<1>2. CASE SeedNext
  BY <1>2, NextOfSeed DEF SeedNext, Ids, Upsert, UpsertModelProfile
<1>3. QED
  BY <1>1, <1>2

LEMMA StepKeepsMoment == ASSUME SoundInv, SoundInv', MomentInv, [Next]_vars PROVE MomentInv'
<1>1. CASE Serve \/ SeedNext
  <2>1. PICK ents, profs : \E id \in Ids, action \in {"upsert", "patch", "remove"} :
            Commit(ents, profs, action, id) /\ (SeedNext => id = Seed[seeded + 1].id)
    BY <1>1, MutationCommits
  <2>2. PICK id \in Ids, action \in {"upsert", "patch", "remove"} :
            Commit(ents, profs, action, id) /\ (SeedNext => id = Seed[seeded + 1].id)
    BY <2>1
  <2>3. /\ phase' = phase /\ phase # "down"
        /\ failures'["load"] = 0
        /\ \A snap \in stored' :
              /\ IsPrefixOf(snap.audit, audit')
              /\ snap.audit = audit' => snap = Snapshot(entities', profiles', version', audit')
        /\ audit' = Append(audit, AuditEntry(action, id))
    BY <1>1, <2>2, MutationCommits, CommitKeepsMoment
  <2>4. ASSUME phase' = "seeding"
        PROVE  /\ Len(audit') = seeded'
               /\ \A i \in DOMAIN audit' : audit'[i].id = Seed[i].id
    <3>1. SeedNext /\ seeded' = seeded + 1
      BY <1>1, <2>3, <2>4 DEF Serve, SeedNext
    <3>2. AuditEntry(action, id).id = Seed[seeded + 1].id
      BY <3>1, <2>2 DEF AuditEntry
    <3>3. audit \in Seq(Entries) /\ Len(audit) = seeded /\ \A i \in DOMAIN audit : audit[i].id = Seed[i].id
      BY <2>3, <2>4 DEF MomentInv, SoundInv, Sound
    <3>4. QED
      BY <2>3, <3>1, <3>2, <3>3
  <2>5. QED
    BY <2>3, <2>4 DEF MomentInv
<1>2. CASE LoadStored
  <2>1. PICK snap \in stored : /\ entities' = snap.entities /\ profiles' = snap.profiles
                               /\ version' = snap.version /\ audit' = snap.audit
                               /\ phase' = AfterLoad(snap.version)
                               /\ stored' = stored /\ failures' = failures
    BY <1>2 DEF LoadStored
  <2>2. /\ SoundSnapshot(snap) /\ \A s \in stored : s = snap
        /\ phase' = "up"
    BY <2>1 DEF SoundInv, SoundSnapshot, AfterLoad, Sound, Explains
  <2>3. IsPrefixOf(snap.audit, snap.audit)
    BY <2>2 DEF SoundSnapshot, Sound, IsPrefixOf
  <2>4. snap = Snapshot(entities', profiles', version', audit')
    BY <2>1, <2>2 DEF SoundSnapshot
  <2>5. QED
    BY <2>1, <2>2, <2>3, <2>4 DEF MomentInv
<1>3. CASE StartEmpty
  <2>1. /\ stored = {} /\ stored' = stored /\ failures' = failures
        /\ audit' = << >> /\ seeded' = 0
    BY <1>3 DEF StartEmpty, Spend, MomentInv, SoundInv, Nothing, config
  <2>2. QED
    BY <2>1 DEF MomentInv
<1>4. CASE SeedingDone
  BY <1>4 DEF SeedingDone, config, MomentInv
<1>5. CASE Crash
  BY <1>5 DEF Crash, Spend, MomentInv, SoundInv, FailureKinds
<1>6. CASE UNCHANGED vars
  BY <1>6 DEF vars, config, MomentInv
<1>7. QED
  BY <1>1, <1>2, <1>3, <1>4, <1>5, <1>6 DEF Next

LEMMA MomentsHold == ASSUME Failures["load"] = 0 PROVE Spec => []MomentInv
<1>1. Init => MomentInv
  BY DEF Init, MomentInv
<1>2. SoundInv /\ SoundInv' /\ MomentInv /\ [Next]_vars => MomentInv'
  BY StepKeepsMoment
<1>3. QED
  BY <1>1, <1>2, ConfigurationSound, PTL DEF Spec

\* Where no load fails, the snapshot is an earlier moment of the store and never
\* a mixture of two (persistLocked): restarts lose what was not saved and
\* nothing else.
THEOREM SnapshotMoment == ASSUME Failures["load"] = 0 PROVE Spec => []SnapshotIsAMoment
<1>1. MomentInv => SnapshotIsAMoment
  BY DEF MomentInv, SnapshotIsAMoment
<1>2. QED
  BY <1>1, MomentsHold, PTL

\* "It is a no-op if the store is already non-empty" (ApplyBootstrap): where no
\* load fails and the bootstrap names an id once, seeding touches nothing that is
\* saved and replaces it with nothing less.
THEOREM SeedingIsHarmless ==
    ASSUME Failures["load"] = 0,
           \A i, j \in DOMAIN Seed : Seed[i].id = Seed[j].id => i = j
    PROVE  Spec => SeedingNeverClobbers
<1> DEFINE Harmless ==
        phase = "seeding" /\ version' # version /\ phase' = phase =>
            \A snap \in stored :
                /\ \A i \in DOMAIN snap.audit : snap.audit[i].id # Seed[seeded + 1].id
                /\ \E after \in stored' : IsPrefixOf(snap.audit, after.audit)
<1>1. ASSUME SoundInv, MomentInv, MomentInv', Next PROVE Harmless
  <2> SUFFICES ASSUME phase = "seeding", version' # version, phase' = phase, NEW snap \in stored
               PROVE  /\ \A i \in DOMAIN snap.audit : snap.audit[i].id # Seed[seeded + 1].id
                      /\ \E after \in stored' : IsPrefixOf(snap.audit, after.audit)
    OBVIOUS
  <2>1. SeedNext
    BY <1>1 DEF Next, Serve, LoadStored, StartEmpty, SeedingDone, Crash
  <2>2. PICK ents, profs : \E id \in Ids, action \in {"upsert", "patch", "remove"} :
            Commit(ents, profs, action, id)
    BY <1>1, <2>1, MutationCommits
  <2>3. PICK id \in Ids, action \in {"upsert", "patch", "remove"} : Commit(ents, profs, action, id)
    BY <2>2
  <2>4. /\ audit \in Seq(Entries) /\ AuditEntry(action, id) \in Entries
        /\ snap.audit \in Seq(Entries) /\ IsPrefixOf(snap.audit, audit)
    <3>1. audit \in Seq(Entries) /\ version = Len(audit)
      BY <1>1 DEF SoundInv, Sound, Explains
    <3>2. AuditEntry(action, id) \in Entries
      BY <3>1 DEF AuditEntry, Entries
    <3>3. SoundSnapshot(snap) /\ IsPrefixOf(snap.audit, audit)
      BY <1>1 DEF SoundInv, MomentInv
    <3>4. QED
      BY <3>1, <3>2, <3>3 DEF SoundSnapshot, Sound
  <2>5. IsPrefixOf(snap.audit, Append(audit, AuditEntry(action, id)))
    BY <2>4, PrefixOfMore
  <2>6. \E after \in stored' : IsPrefixOf(snap.audit, after.audit)
    <3>1. CASE stored' = stored
      BY <2>4, <3>1 DEF IsPrefixOf
    <3>2. CASE stored' # stored
      <4>1. stored' = {Snapshot(ents, profs, version + 1, Append(audit, AuditEntry(action, id)))}
        BY <2>3, <3>2 DEF Commit
      <4>2. QED
        BY <2>5, <4>1 DEF Snapshot
    <3>3. QED
      BY <3>1, <3>2
  <2>7. ASSUME NEW i \in DOMAIN snap.audit
        PROVE  snap.audit[i].id # Seed[seeded + 1].id
    <3>1. i \in 1..seeded /\ i \in DOMAIN audit /\ snap.audit[i].id = Seed[i].id
      BY <1>1, <2>4, <2>7 DEF MomentInv, IsPrefixOf
    <3>2. i \in DOMAIN Seed /\ seeded + 1 \in DOMAIN Seed /\ i # seeded + 1
      BY <1>1, <2>1, <3>1, NextOfSeed, ConfigAssumption DEF SeedNext, SoundInv
    <3>3. QED
      BY <3>1, <3>2
  <2>8. QED
    BY <2>6, <2>7
<1>2. SoundInv /\ MomentInv /\ MomentInv' /\ Next => Harmless
  BY <1>1
<1>3. SoundInv /\ MomentInv /\ MomentInv' /\ [Next]_vars => [Harmless]_vars
  BY <1>2
<1>4. QED
  BY <1>3, ConfigurationSound, MomentsHold, PTL DEF Spec, SeedingNeverClobbers

=============================================================================
