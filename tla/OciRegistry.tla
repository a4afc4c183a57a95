----------------------------- MODULE OciRegistry -----------------------------
(***************************************************************************)
(* OciClient pushing and pulling artifacts.  A push uploads the blobs one  *)
(* after the other, each unless the registry says it has it, and then puts *)
(* the manifest; a pull gets the manifest and then all blobs at once, each *)
(* verified by its digest.  The registry is a service: it answers, fails   *)
(* before or after taking effect, and may lose or damage a blob.           *)
(***************************************************************************)
EXTENDS Integers, Sequences, FiniteSets

CONSTANTS
    Artifact,     \* artifacts that are pushed
    BlobsOf,      \* BlobsOf[x]: its blobs, in the order they are uploaded
    Tag,          \* references
    Pusher,       \* tasks that push
    Puller,       \* tasks that pull
    MaxPushes,    \* bound: pushes of a task
    MaxDamage,    \* bound: blobs lost or damaged
    NoArtifact    \* nothing under that tag

Blob == UNION {{BlobsOf[x][i] : i \in DOMAIN BlobsOf[x]} : x \in Artifact}
Blobs(x) == {BlobsOf[x][i] : i \in DOMAIN BlobsOf[x]}

ASSUME OciAssumption ==
    /\ BlobsOf \in [Artifact -> Seq(Blob)] /\ NoArtifact \notin Artifact
    /\ MaxPushes \in Nat /\ MaxDamage \in Nat

VARIABLES
    held,         \* held[b]: what the registry has under a digest
    tagged,       \* tagged[t]: the artifact of the manifest under a tag
    push,         \* push[p]: how far a push is
    pull,         \* pull[q]: how far a pull is
    damaged,      \* blobs the registry lost or damaged
    tried         \* tried[t]: artifacts whose push to a tag was begun (not in the code)

ociVars == <<held, tagged, push, pull, damaged, tried>>

NoPush == [stage |-> "idle", artifact |-> NoArtifact, tag |-> "", next |-> 1, made |-> 0]
NoPull == [stage |-> "idle", artifact |-> NoArtifact, tag |-> "", got |-> {}, failed |-> FALSE]

OciInit ==
    /\ held = [b \in Blob |-> "absent"]
    /\ tagged = [t \in Tag |-> NoArtifact]
    /\ push = [p \in Pusher |-> NoPush]
    /\ pull = [q \in Puller |-> NoPull]
    /\ damaged = {}
    /\ tried = [t \in Tag |-> {}]

Pushing(p) == BlobsOf[push[p].artifact][push[p].next]
AllUploaded(p) == push[p].next > Len(BlobsOf[push[p].artifact])

BeginPush(p, x, t) ==
    /\ push[p].stage = "idle" /\ push[p].made < MaxPushes
    /\ push' = [push EXCEPT ![p] = [stage |-> "checking", artifact |-> x, tag |-> t,
                                    next |-> 1, made |-> @.made + 1]]
    /\ tried' = [tried EXCEPT ![t] = @ \cup {x}]
    /\ UNCHANGED <<held, tagged, pull, damaged>>

\* A push that meets an error ends; what it uploaded stays.
EndPush(p) == push' = [push EXCEPT ![p] = [NoPush EXCEPT !.made = push[p].made]]

\* upload_blob: a blob the registry has, whatever is in it, is not uploaded again.
CheckBlob(p) ==
    /\ push[p].stage = "checking" /\ ~AllUploaded(p)
    /\ \/ held[Pushing(p)] # "absent" /\ push' = [push EXCEPT ![p].next = @ + 1]
       \/ held[Pushing(p)] = "absent" /\ push' = [push EXCEPT ![p].stage = "uploading"]
       \/ EndPush(p)
    /\ UNCHANGED <<held, tagged, pull, damaged, tried>>

\* The registry takes the bytes after verifying their digest, or an error ends the push.
UploadBlob(p) ==
    /\ push[p].stage = "uploading"
    /\ \/ /\ held' = [held EXCEPT ![Pushing(p)] = "good"]
          /\ \/ push' = [push EXCEPT ![p].stage = "checking", ![p].next = @ + 1]
             \/ EndPush(p)
       \/ held' = held /\ EndPush(p)
    /\ UNCHANGED <<tagged, pull, damaged, tried>>

\* Mutant: the manifest is put while the last blob is still missing.
ReadyForManifestEarly(p) == push[p].stage = "checking" /\ push[p].next >= Len(BlobsOf[push[p].artifact])
\* The manifest comes last.
ReadyForManifest(p) == push[p].stage = "checking" /\ AllUploaded(p)

PutManifest(p) ==
    /\ ReadyForManifest(p)
    /\ tagged' \in {tagged, [tagged EXCEPT ![push[p].tag] = push[p].artifact]}
    /\ EndPush(p)
    /\ UNCHANGED <<held, pull, damaged, tried>>

BeginPull(q, t) ==
    /\ pull[q].stage = "idle"
    /\ \/ /\ tagged[t] # NoArtifact
          /\ pull' = [pull EXCEPT ![q] = [NoPull EXCEPT !.stage = "fetching", !.tag = t,
                                                        !.artifact = tagged[t]]]
       \/ pull' = [pull EXCEPT ![q] = [NoPull EXCEPT !.stage = "failed", !.tag = t]]
    /\ UNCHANGED <<held, tagged, push, damaged, tried>>

\* fetch_blob: bytes whose digest is another are refused.
Verified(b) == held[b] = "good"

\* One of the fetches ends; all are waited for before any error counts.
FetchBlob(q, b) ==
    /\ pull[q].stage = "fetching"
    /\ b \in Blobs(pull[q].artifact) \ {g.blob : g \in pull[q].got}
    /\ \E answered \in BOOLEAN :
          LET failed == pull[q].failed \/ ~answered \/ ~Verified(b)
              got == pull[q].got \cup {[blob |-> b, bytes |-> held[b]]} IN
          pull' = [pull EXCEPT ![q].failed = failed, ![q].got = got,
                      ![q].stage = IF {g.blob : g \in got} # Blobs(pull[q].artifact) THEN @
                                   ELSE IF failed THEN "failed" ELSE "ok"]
    /\ UNCHANGED <<held, tagged, push, damaged, tried>>

\* The caller is done with the outcome of a pull.
EndPull(q) ==
    /\ pull[q].stage \in {"ok", "failed"}
    /\ pull' = [pull EXCEPT ![q] = NoPull]
    /\ UNCHANGED <<held, tagged, push, damaged, tried>>

\* The registry loses a blob, or its bytes are damaged.
Damage(b) ==
    /\ held[b] = "good" /\ Cardinality(damaged) < MaxDamage
    /\ held' \in {[held EXCEPT ![b] = how] : how \in {"absent", "corrupt"}}
    /\ damaged' = damaged \cup {b}
    /\ UNCHANGED <<tagged, push, pull, tried>>

OciNext ==
    \/ \E p \in Pusher : \/ \E x \in Artifact, t \in Tag : BeginPush(p, x, t)
                         \/ CheckBlob(p) \/ UploadBlob(p) \/ PutManifest(p)
    \/ \E q \in Puller : \/ \E t \in Tag : BeginPull(q, t)
                         \/ \E b \in Blob : FetchBlob(q, b)
                         \/ EndPull(q)
    \/ \E b \in Blob : Damage(b)

OciSpec == OciInit /\ [][OciNext]_ociVars

-----------------------------------------------------------------------------
(* Properties *)

OciTypeOK ==
    /\ held \in [Blob -> {"absent", "good", "corrupt"}]
    /\ tagged \in [Tag -> Artifact \cup {NoArtifact}]
    /\ \A p \in Pusher : /\ push[p].stage \in {"idle", "checking", "uploading"}
                         /\ push[p].made \in 0..MaxPushes
                         /\ push[p].stage # "idle" => push[p].artifact \in Artifact
                         /\ push[p].stage = "uploading" => ~AllUploaded(p)
    /\ \A q \in Puller : pull[q].stage \in {"idle", "fetching", "ok", "failed"}
    /\ damaged \subseteq Blob
    /\ tried \in [Tag -> SUBSET Artifact]

\* An artifact that is pulled with success was pushed under that tag and has all of its
\* blobs, with the bytes they were pushed with; and under a tag is never a manifest with a
\* blob that the registry was not given.  Though pushes fail, share a tag or rely on each
\* other's blobs, and blobs are lost or damaged (push, upload_blob, pull, fetch_blob).
ArtifactsWhole ==
    /\ \A q \in Puller : pull[q].stage = "ok" =>
          /\ pull[q].artifact \in tried[pull[q].tag]
          /\ pull[q].got = [blob : Blobs(pull[q].artifact), bytes : {"good"}]
    /\ \A t \in Tag : tagged[t] # NoArtifact =>
          \A b \in Blobs(tagged[t]) : held[b] = "absent" => b \in damaged
=============================================================================
