------------------------- MODULE ProviderMigration -------------------------
(***************************************************************************)
(* Moving a project from one provider to another (Migration, Transfer and  *)
(* MigrationEntity of v2/projectmanagement).  The host pauses the writers, *)
(* asks for a migration, and makes the destination the authority when a    *)
(* verified manifest of that migration comes back.  The providers are      *)
(* outside the repository: what they say they have verified is true when   *)
(* they say it, everything else in a manifest may be wrong.                *)
(***************************************************************************)
EXTENDS ProjectContract, FiniteSets

CONSTANTS
    Records,        \* the records of the source
    MaxVersion,     \* bound of the versions of a record
    MaxMigrations   \* bound of the migrations started

VARIABLES
    source,         \* record -> its version at the source
    copy,           \* record -> the version at the destination, 0 for none
    job,            \* the migration asked for last
    paused,         \* writers are paused
    results,        \* manifests under way
    active          \* the authority in force: "source" or "destination"

migrationVars == <<source, copy, job, paused, results, active>>

From == Scope(1, 1, 1)
To == Scope(2, 2, 1)
Ref(r) == [provider |-> "provider", id |-> r]

Init ==
    /\ source = [r \in Records |-> 1]
    /\ copy = [r \in Records |-> 0]
    /\ job = 0 /\ paused = FALSE /\ results = {} /\ active = "source"

----------------------------------------------------------------------------
(* Transfer, MigrationEntity and Migration.                                *)
TransferValid(t) ==
    /\ ResourceValid(t.resource)
    /\ Enum(t.direction, {"upload", "download"})
    /\ Enum(t.method, {"mcp-resource", "mcp-chunk", "authorized-https"})
EntityValid(e) ==
    /\ Required(e.id) /\ ResourceValid(e.source)
    /\ \A t \in e.record :
          /\ SameResource(t.resource, e.source) /\ t.checksum = e.checksum
          /\ TransferValid(t)
Complete(e) == e.mapped /\ ~e.problems /\ e.record # {} /\ \A t \in e.record : t.verified
MigrationValid(m) ==
    /\ m.source.project = m.destination.project
    /\ m.state = "verified" => m.lossless /\ m.paused /\ \A e \in m.entities : Complete(e)
    /\ \A e \in m.entities : EntityValid(e)
    /\ \A e, f \in m.entities : e.id = f.id => e = f
    /\ Enum(m.state, {"planned", "exporting", "importing", "verifying", "verified", "failed", "aborted"})
    /\ ScopeValid(m.source) /\ ScopeValid(m.destination)

(* MigrationRequest and MigrationResult.ValidateFor.                       *)
Plan(id) ==
    [id |-> id, source |-> From, destination |-> To, state |-> "planned", lossless |-> FALSE,
     paused |-> TRUE, entities |-> {}]
MigrationRequestValid(scope, m) == scope \in {m.source, m.destination} /\ MigrationValid(m)
MigrationResultFor_AnyMigration(m, asked) ==
    m.source = asked.source /\ m.destination = asked.destination /\ MigrationValid(m)
MigrationResultFor(m, asked) ==
    /\ m.id = asked.id
    /\ m.source = asked.source /\ m.destination = asked.destination
    /\ MigrationValid(m)

----------------------------------------------------------------------------
Write(r) ==
    /\ ~paused /\ active = "source"
    /\ source[r] < MaxVersion
    /\ source' = [source EXCEPT ![r] = @ + 1]
    /\ UNCHANGED <<copy, job, paused, results, active>>

Begin ==
    /\ ~paused /\ active = "source" /\ job < MaxMigrations
    /\ MigrationRequestValid(From, Plan(job + 1))
    /\ job' = job + 1
    /\ paused' = TRUE
    /\ UNCHANGED <<source, copy, results, active>>
Abort ==
    /\ paused
    /\ paused' = FALSE
    /\ UNCHANGED <<source, copy, job, results, active>>

(* The destination imports a record, and reports: each entity with a       *)
(* record that was read back, of its own source or of another.             *)
Import(r) ==
    /\ paused
    /\ copy' = [copy EXCEPT ![r] = source[r]]
    /\ UNCHANGED <<source, job, paused, results, active>>
Transferred(r) ==
    [resource |-> Ref(r), direction |-> "download", method |-> "mcp-resource",
     checksum |-> copy[r], verified |-> copy[r] = source[r]]
Report(state, about) ==
    /\ paused
    /\ results' = results \cup
        {[id |-> job, source |-> From, destination |-> To, state |-> state, lossless |-> TRUE,
          paused |-> paused,
          entities |-> {[id |-> r, source |-> Ref(r), checksum |-> source[r], mapped |-> copy[r] # 0,
                         problems |-> FALSE, record |-> {Transferred(about[r])}] : r \in Records}]}
    /\ UNCHANGED <<source, copy, job, paused, active>>

(* The host takes a result of the migration it asked for.                  *)
Accept(m) ==
    /\ paused
    /\ results' = results \ {m}
    /\ IF MigrationResultFor(m, Plan(job)) /\ m.state = "verified"
       THEN active' = "destination" /\ paused' = FALSE
       ELSE UNCHANGED <<active, paused>>
    /\ UNCHANGED <<source, copy, job>>

Next ==
    \/ \E r \in Records : Write(r) \/ Import(r)
    \/ Begin \/ Abort
    \/ \E state \in {"verifying", "verified"}, about \in [Records -> Records] :
          Cardinality(results) < 1 /\ Report(state, about)
    \/ \E m \in results : Accept(m)

Spec == Init /\ [][Next]_migrationVars

----------------------------------------------------------------------------
(* When the destination becomes the authority it holds every record as the *)
(* source has it: no write is left behind by a report of a migration that  *)
(* was aborted, or by bytes that were read back for another record.        *)
NothingLeftBehind == active = "destination" => copy = source
=============================================================================
