---------------------------- MODULE Attestation ----------------------------
(***************************************************************************)
(* Who vouches for a package: the publisher's signature, the Store's       *)
(* countersignature and the publisher registry (v2/attest: envelope.go,    *)
(* sign.go, registry.go).                                                  *)
(*                                                                         *)
(* A signature is the pair of its key and the statement it is over; a hash *)
(* is one-to-one, so a key is its own kid and an object its own digest.    *)
(* Envelopes, manifests and key objects reach the host through mirrors and *)
(* caches, which may pair the parts of two of them or serve an old one.    *)
(***************************************************************************)
EXTENDS Naturals, FiniteSets, Sequences

CONSTANTS
    PublisherKeys,  \* keys publishers sign with
    Ids,            \* publisher ids
    Digests,        \* payload digests
    StoreKeys,      \* keys of Stores
    Roots,          \* the root sets a host may have
    MaxManifests    \* manifests of the registry

VARIABLES
    envelopes,      \* attestation.json files in circulation
    checked,        \* statements a Store countersigned
    proved,         \* what Verify reported
    registry,       \* the publisher manifests a Store signed, oldest first
    honoured        \* keys ResolvePublisherKey returned

attestVars == <<envelopes, checked, proved, registry, honoured>>

Sig(key, statement) == [by |-> key, over |-> statement]
(* An empty slot of the envelope.                                          *)
Unsigned == [id |-> "", kid |-> "", key |-> "", sig |-> Sig("", <<>>)]
NoStore == [kid |-> "", sig |-> Sig("", <<>>)]
Valid(key, statement, sig) == sig = Sig(key, statement)

PublisherStatement(id, sha) == <<"publisher-release", id, sha>>
StoreStatement_NoKey(env) == <<"store-attestation", env.sha, env.publisher.id>>
StoreStatement(env) ==
    <<"store-attestation", env.sha, env.publisher.id, env.publisher.kid, env.publisher.sig>>

(* verifyPublisher: against the key in the envelope.                       *)
VerifyPublisher(env) ==
    /\ env.publisher.kid = env.publisher.key
    /\ Valid(env.publisher.key, PublisherStatement(env.publisher.id, env.sha), env.publisher.sig)

(* Declares: what the filled slots claim.                                  *)
Declares(env) ==
    IF env.publisher = Unsigned THEN "dev" ELSE IF env.store = NoStore THEN "upload" ELSE "store"

(* Verify, with the error it returned or "".                               *)
Verify(env, sha, roots) ==
    LET answer(p, e) == [provenance |-> p, error |-> e] IN
    IF sha # "" /\ sha # env.sha THEN answer("dev", "digest")
    ELSE IF env.publisher = Unsigned THEN answer("dev", "unsigned")
    ELSE IF ~VerifyPublisher(env) THEN answer("dev", "signature")
    ELSE IF env.store = NoStore THEN answer("upload", "")
    ELSE IF env.store.kid \notin roots THEN answer("upload", "untrusted")
    ELSE IF ~Valid(env.store.kid, StoreStatement(env), env.store.sig) THEN answer("upload", "signature")
    ELSE answer("store", "")

AttestInit ==
    /\ envelopes = {[sha |-> d, publisher |-> Unsigned, store |-> NoStore] : d \in Digests}
    /\ checked = {}
    /\ proved = {}
    /\ registry = <<>>
    /\ honoured = {}

(* SignPublisher fills the publisher's slot.                               *)
SignPublisher(key, id, sha) ==
    /\ envelopes' = envelopes \cup
          {[sha |-> sha, store |-> NoStore,
            publisher |-> [id |-> id, kid |-> key, key |-> key,
                           sig |-> Sig(key, PublisherStatement(id, sha))]]}
    /\ UNCHANGED <<checked, proved, registry, honoured>>

(* Countersign verifies the publisher's half first.                        *)
Countersign(store, env) ==
    /\ env.publisher # Unsigned
    /\ VerifyPublisher(env)
    /\ checked' = checked \cup {[by |-> store, env |-> [env EXCEPT !.store = NoStore]]}
    /\ envelopes' = envelopes \cup
          {[env EXCEPT !.store = [kid |-> store, sig |-> Sig(store, StoreStatement(env))]]}
    /\ UNCHANGED <<proved, registry, honoured>>

(* The parts of two envelopes paired, and a name exchanged.                *)
Paired(a, b, id) ==
    {[sha |-> b.sha, publisher |-> a.publisher, store |-> a.store],
     [sha |-> a.sha, publisher |-> a.publisher, store |-> b.store]}
        \cup IF a.publisher = Unsigned THEN {} ELSE {[a EXCEPT !.publisher.id = id]}
Pair(a, b, id) ==
    /\ envelopes' = envelopes \cup Paired(a, b, id)
    /\ UNCHANGED <<checked, proved, registry, honoured>>

VerifyEnvelope(env, sha, roots) ==
    /\ proved' = {[env |-> env, sha |-> sha, roots |-> roots, answer |-> Verify(env, sha, roots)]}
    /\ UNCHANGED <<envelopes, checked, registry, honoured>>

----------------------------------------------------------------------------
(* The registry of one publisher's keys: a manifest lists the digest of    *)
(* the key object at each path, and the Store signs the sorted list.       *)
KeyObject(key, status) == [kid |-> key, key |-> key, status |-> status]
Statuses == {"active", "revoked", "other"}
ManifestStatement(id, objects) == <<"publisher-manifest", id, objects>>
SignPublisherManifest(store, id, objects) ==
    [id |-> id, objects |-> objects, kid |-> store,
     sig |-> Sig(store, ManifestStatement(id, objects))]
VerifyPublisherManifest(man, roots) ==
    man.kid \in roots /\ Valid(man.kid, ManifestStatement(man.id, man.objects), man.sig)

(* ObjectDigest and VerifyObject.                                          *)
VerifyObject(man, kid, object) == kid \in DOMAIN man.objects /\ man.objects[kid] = object

ResolvePublisherKey(man, id, kid, object, roots) ==
    /\ man.id = id
    /\ VerifyPublisherManifest(man, roots)
    /\ VerifyObject(man, kid, object)
    /\ object.key = kid /\ object.kid = kid
    /\ object.status = "active"

(* The Store writes a manifest; a key that was revoked stays revoked.      *)
Objects(statuses) == [k \in DOMAIN statuses |-> KeyObject(k, statuses[k])]
Latest(id) == {registry[i].objects : i \in {j \in DOMAIN registry :
                  registry[j].id = id /\ ~\E l \in (j + 1) .. Len(registry) : registry[l].id = id}}
Revokes(objects, k) == k \in DOMAIN objects /\ objects[k].status = "revoked"
WriteManifest(store, id, statuses) ==
    /\ Len(registry) < MaxManifests
    /\ \A old \in Latest(id), k \in PublisherKeys : Revokes(old, k) => Revokes(Objects(statuses), k)
    /\ registry' = Append(registry, SignPublisherManifest(store, id, Objects(statuses)))
    /\ UNCHANGED <<envelopes, checked, proved, honoured>>

(* The host asks with any manifest and any key object it was served.       *)
Served == UNION {{registry[i].objects[k] : k \in DOMAIN registry[i].objects} : i \in DOMAIN registry}
Resolve(i, id, kid, object, roots) ==
    /\ ResolvePublisherKey(registry[i], id, kid, object, roots)
    /\ honoured' = {[manifest |-> i, id |-> id, key |-> object.key, roots |-> roots]}
    /\ UNCHANGED <<envelopes, checked, proved, registry>>

AttestNext ==
    \/ \E k \in PublisherKeys, id \in Ids, d \in Digests : SignPublisher(k, id, d)
    \/ \E s \in StoreKeys, e \in envelopes : Countersign(s, e)
    \/ \E a, b \in envelopes, id \in Ids : Pair(a, b, id)
    \/ \E e \in envelopes, d \in Digests \cup {""}, r \in Roots : VerifyEnvelope(e, d, r)
    \/ \E s \in StoreKeys, id \in Ids, ks \in SUBSET PublisherKeys : \E st \in [ks -> Statuses] :
          WriteManifest(s, id, st)
    \/ \E i \in DOMAIN registry, id \in Ids, k \in PublisherKeys, o \in Served, r \in Roots :
          Resolve(i, id, k, o, r)

AttestSpec == AttestInit /\ [][AttestNext]_attestVars

(* Bounds: two envelopes are signed, one is countersigned, one pairing,    *)
(* and then one verification; or manifests, and then one key resolved.     *)
AttestBounded ==
    LET more(n) == proved = {} /\ Cardinality(envelopes) < Cardinality(Digests) + n IN
    \/ registry = <<>> /\ more(2) /\ \E k \in PublisherKeys, id \in Ids, d \in Digests : SignPublisher(k, id, d)
    \/ checked = {} /\ proved = {} /\ \E s \in StoreKeys, e \in envelopes : Countersign(s, e)
    \/ more(4) /\ \E a, b \in envelopes, id \in Ids : Pair(a, b, id)
    \/ proved = {} /\ \E e \in envelopes, d \in Digests \cup {""}, r \in Roots : VerifyEnvelope(e, d, r)
    \/ /\ honoured = {} /\ Cardinality(envelopes) = Cardinality(Digests)
       /\ \E s \in StoreKeys, id \in Ids, ks \in SUBSET PublisherKeys : \E st \in [ks -> Statuses] :
             WriteManifest(s, id, st)
    \/ honoured = {} /\ \E i \in DOMAIN registry, id \in Ids, k \in PublisherKeys, o \in Served, r \in Roots :
          Resolve(i, id, k, o, r)

----------------------------------------------------------------------------
(* Verify reports what it proved and never more than the slots claim: with *)
(* "store", a trusted Store countersigned this very publisher half for the *)
(* payload at hand; with "store" or "upload" and no error, the named key   *)
(* signed this payload for the named publisher.                            *)
ProvenanceIsProved ==
    \A p \in proved :
        /\ p.answer.provenance = "store" =>
              \E c \in checked : /\ c.by \in p.roots
                                 /\ c.env = [p.env EXCEPT !.store = NoStore]
        /\ p.answer.error = "" =>
              /\ p.sha \in {"", p.env.sha}
              /\ p.answer.provenance = Declares(p.env)
              /\ p.env.publisher.sig =
                    Sig(p.env.publisher.kid,
                        <<"publisher-release", p.env.publisher.id, p.env.sha>>)

(* A key is honoured for a publisher only by a manifest that a trusted     *)
(* Store signed for that publisher and in which the key is active: never   *)
(* by the key object of another manifest, so with the newest manifest a    *)
(* revoked key is refused even when the object served is an old one.       *)
HonouredIsActive ==
    \A h \in honoured :
        /\ registry[h.manifest].id = h.id
        /\ registry[h.manifest].kid \in h.roots
        /\ h.key \in DOMAIN registry[h.manifest].objects
        /\ registry[h.manifest].objects[h.key].status = "active"

(* Verify reports no more than was signed about this payload, and a key is *)
(* honoured only by a manifest in which it is active, though mirrors mix   *)
(* and repeat what they serve (Verify, ResolvePublisherKey).               *)
NothingForged == ProvenanceIsProved /\ HonouredIsActive
=============================================================================
