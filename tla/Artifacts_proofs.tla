-------------------------- MODULE Artifacts_proofs --------------------------
(* Theorems about artifacts, for every number of artifacts, blobs, tags, files, *)
(* pushers and pullers, and every number of pushes and of damages.          *)
EXTENDS OciRegistry, ArtifactStores, TLAPS, FiniteSetTheorems

-----------------------------------------------------------------------------
(* OciRegistry: pulled artifacts are whole.                                 *)

PushState == [stage : {"idle", "checking", "uploading"}, artifact : Artifact \cup {NoArtifact},
              tag : Tag \cup {""}, next : Nat, made : Nat]

Fetched == [blob : Blob, bytes : {"absent", "good", "corrupt"}]

PullState == [stage : {"idle", "fetching", "ok", "failed"}, artifact : Artifact \cup {NoArtifact},
              tag : Tag \cup {""}, got : SUBSET Fetched, failed : BOOLEAN]

OciTyped ==
    /\ held \in [Blob -> {"absent", "good", "corrupt"}]
    /\ tagged \in [Tag -> Artifact \cup {NoArtifact}]
    /\ push \in [Pusher -> PushState]
    /\ pull \in [Puller -> PullState]
    /\ damaged \subseteq Blob
    /\ tried \in [Tag -> SUBSET Artifact]

\* Of the blobs in bs, the registry was given all, though it may have lost some.
GivenBack(bs, registry, lost) == \A b \in bs : registry[b] = "absent" => b \in lost

\* A push has uploaded the blobs before the next, or found them there.
Before(s) == {BlobsOf[s.artifact][i] : i \in 1..(s.next - 1)}
Begun(s, begun) ==
    /\ s.artifact \in Artifact /\ s.tag \in Tag /\ s.artifact \in begun[s.tag]
    /\ 1 <= s.next /\ s.next <= Len(BlobsOf[s.artifact]) + 1
    /\ s.stage = "uploading" => s.next <= Len(BlobsOf[s.artifact])
Uploaded == \A p \in Pusher : push[p].stage # "idle" =>
    Begun(push[p], tried) /\ GivenBack(Before(push[p]), held, damaged)

Complete == \A t \in Tag : tagged[t] # NoArtifact =>
    tagged[t] \in tried[t] /\ GivenBack(Blobs(tagged[t]), held, damaged)

\* A pull without a failure has verified all it got.
Pulled == \A q \in Puller : pull[q].stage \in {"fetching", "ok"} =>
    /\ pull[q].tag \in Tag /\ pull[q].artifact \in tried[pull[q].tag]
    /\ \A g \in pull[q].got : /\ g.blob \in Blobs(pull[q].artifact)
                              /\ ~pull[q].failed => g.bytes = "good"
    /\ pull[q].stage = "ok" => /\ ~pull[q].failed
                               /\ {g.blob : g \in pull[q].got} = Blobs(pull[q].artifact)

OciInv == OciTyped /\ Uploaded /\ Complete /\ Pulled

LEMMA Successor == \A n \in Nat : n + 1 \in Nat
OBVIOUS

LEMMA JustAbove == \A n, k \in Nat : n > k /\ n <= k + 1 => n - 1 = k
OBVIOUS

LEMMA BlobsAreBlobs ==
    ASSUME OciAssumption, NEW x \in Artifact
    PROVE  /\ Blobs(x) \subseteq Blob /\ Len(BlobsOf[x]) \in Nat
           /\ Blobs(x) = {BlobsOf[x][i] : i \in 1..Len(BlobsOf[x])}
           /\ \A i \in 1..Len(BlobsOf[x]) : BlobsOf[x][i] \in Blob
<1>1. BlobsOf[x] \in Seq(Blob)
  BY DEF OciAssumption
<1>2. DOMAIN BlobsOf[x] = 1..Len(BlobsOf[x]) /\ Len(BlobsOf[x]) \in Nat
  BY <1>1
<1>3. \A i \in 1..Len(BlobsOf[x]) : BlobsOf[x][i] \in Blob
  BY <1>1
<1>4. QED
  BY <1>2, <1>3 DEF Blobs

LEMMA InitOciInv == ASSUME OciInit PROVE OciInv
<1>1. NoPush \in PushState /\ NoPull \in PullState /\ NoPush.stage = "idle" /\ NoPull.stage = "idle"
  BY DEF NoPush, NoPull, PushState, PullState
<1>2. OciTyped
  BY <1>1 DEF OciInit, OciTyped
<1>3. QED
  BY <1>1, <1>2 DEF OciInit, OciInv, Uploaded, Complete, Pulled

LEMMA BeforeAreBlobs ==
    ASSUME OciAssumption, NEW s \in PushState, NEW begun, Begun(s, begun)
    PROVE  Before(s) \subseteq Blobs(s.artifact) /\ Blobs(s.artifact) \subseteq Blob
<1>1. s.artifact \in Artifact /\ s.next \in Nat /\ s.next <= Len(BlobsOf[s.artifact]) + 1
  BY DEF Begun, PushState
<1>2. QED
  BY <1>1, BlobsAreBlobs DEF Before

-----------------------------------------------------------------------------
(* Parts of steps *)

\* The registry is given a blob, or loses one.
LEMMA RegistryStep ==
    ASSUME OciAssumption, OciInv, held' \in [Blob -> {"absent", "good", "corrupt"}],
           damaged' \in SUBSET Blob,
           \A b \in Blob : (held[b] = "absent" => b \in damaged) => (held'[b] = "absent" => b \in damaged')
    PROVE  \A bs \in SUBSET Blob : GivenBack(bs, held, damaged) => GivenBack(bs, held', damaged')
BY DEF GivenBack

\* A push goes on.
LEMMA PushStep ==
    ASSUME OciAssumption, OciInv, NEW p \in Pusher, NEW s \in PushState, push' = [push EXCEPT ![p] = s],
           \A bs \in SUBSET Blob : GivenBack(bs, held, damaged) => GivenBack(bs, held', damaged'),
           \A t \in Tag : tried[t] \subseteq tried'[t],
           s.stage # "idle" => Begun(s, tried') /\ GivenBack(Before(s), held', damaged')
    PROVE  push' \in [Pusher -> PushState] /\ Uploaded'
<1>1. push' \in [Pusher -> PushState]
  BY DEF OciInv, OciTyped
<1>2. push'[p] = s /\ \A r \in Pusher \ {p} : push'[r] = push[r] /\ push[r] \in PushState
  BY DEF OciInv, OciTyped
<1>3. \A r \in Pusher \ {p} : push[r].stage # "idle" =>
          Begun(push[r], tried') /\ GivenBack(Before(push[r]), held', damaged')
  <2> SUFFICES ASSUME NEW r \in Pusher \ {p}, push[r].stage # "idle"
               PROVE  Begun(push[r], tried') /\ GivenBack(Before(push[r]), held', damaged')
    OBVIOUS
  <2>1. Begun(push[r], tried) /\ GivenBack(Before(push[r]), held, damaged)
    BY DEF OciInv, Uploaded
  <2>2. Begun(push[r], tried')
    BY <2>1 DEF Begun
  <2>3. Before(push[r]) \in SUBSET Blob
    BY <1>2, <2>1, BeforeAreBlobs
  <2>4. QED
    BY <2>1, <2>2, <2>3
<1>4. Uploaded'
  <2> SUFFICES ASSUME NEW r \in Pusher, push'[r].stage # "idle"
               PROVE  Begun(push'[r], tried') /\ GivenBack(Before(push'[r]), held', damaged')
    BY DEF Uploaded, Begun, GivenBack, Before
  <2>1. CASE r = p
    BY <1>2, <2>1
  <2>2. CASE r # p
    BY <1>2, <1>3, <2>2
  <2>3. QED
    BY <2>1, <2>2
<1>5. QED
  BY <1>1, <1>4

\* What was complete under a tag stays so.
LEMMA TagsStay ==
    ASSUME OciAssumption, OciInv, UNCHANGED tagged,
           \A bs \in SUBSET Blob : GivenBack(bs, held, damaged) => GivenBack(bs, held', damaged'),
           \A t \in Tag : tried[t] \subseteq tried'[t]
    PROVE  Complete'
<1> SUFFICES ASSUME NEW t \in Tag, tagged[t] # NoArtifact
             PROVE  tagged[t] \in tried'[t] /\ GivenBack(Blobs(tagged[t]), held', damaged')
  BY DEF Complete, Blobs
<1>1. tagged[t] \in tried[t] /\ GivenBack(Blobs(tagged[t]), held, damaged)
  BY DEF OciInv, Complete
<1>2. Blobs(tagged[t]) \in SUBSET Blob
  BY BlobsAreBlobs DEF OciInv, OciTyped
<1>3. QED
  BY <1>1, <1>2

\* So do pulls, and the pushes that do nothing.
LEMMA PullsStay ==
    ASSUME OciInv, UNCHANGED pull, \A t \in Tag : tried[t] \subseteq tried'[t]
    PROVE  Pulled'
BY DEF OciInv, Pulled, Blobs

-----------------------------------------------------------------------------
(* One step *)

LEMMA IdlePush ==
    ASSUME OciInv, NEW p \in Pusher, EndPush(p)
    PROVE  \E s \in PushState : s.stage = "idle" /\ push' = [push EXCEPT ![p] = s]
<1> DEFINE s == [NoPush EXCEPT !.made = push[p].made]
<1>1. s \in PushState /\ s.stage = "idle"
  <2>1. push[p] \in PushState
    BY DEF OciInv, OciTyped
  <2>2. push[p].made \in Nat
    BY <2>1 DEF PushState
  <2>3. QED
    BY <2>2 DEF NoPush, PushState
<1>2. QED
  BY <1>1 DEF EndPush

LEMMA BeginPushKeepsOciInv ==
    ASSUME OciAssumption, OciInv, NEW p \in Pusher, NEW x \in Artifact, NEW t \in Tag,
           BeginPush(p, x, t)
    PROVE  OciInv'
<1> DEFINE s == [stage |-> "checking", artifact |-> x, tag |-> t, next |-> 1,
                 made |-> push[p].made + 1]
<1>1. /\ OciTyped /\ push' = [push EXCEPT ![p] = s] /\ tried' = [tried EXCEPT ![t] = @ \cup {x}]
      /\ UNCHANGED <<held, tagged, pull, damaged>>
  BY DEF OciInv, BeginPush
<1>2. s \in PushState /\ s.stage = "checking"
  <2>1. push[p].made \in Nat
    BY <1>1 DEF OciTyped, PushState
  <2>2. QED
    BY <2>1, Successor DEF PushState
<1>3. /\ tried' \in [Tag -> SUBSET Artifact] /\ x \in tried'[t]
      /\ \A u \in Tag : tried[u] \subseteq tried'[u]
  BY <1>1 DEF OciTyped
<1>4. \A bs \in SUBSET Blob : GivenBack(bs, held, damaged) => GivenBack(bs, held', damaged')
  BY <1>1
<1>5. Begun(s, tried') /\ GivenBack(Before(s), held', damaged')
  BY <1>3, BlobsAreBlobs DEF Begun, Before, GivenBack
<1>6. push' \in [Pusher -> PushState] /\ Uploaded'
  BY <1>1, <1>2, <1>3, <1>4, <1>5, PushStep
<1>7. Complete' /\ Pulled'
  BY <1>1, <1>3, <1>4, TagsStay, PullsStay
<1>8. QED
  BY <1>1, <1>3, <1>6, <1>7 DEF OciInv, OciTyped

\* The blob at hand of a push that is not over.
LEMMA AtHand ==
    ASSUME OciAssumption, OciInv, NEW p \in Pusher, push[p].stage # "idle", ~AllUploaded(p)
    PROVE  /\ Begun(push[p], tried) /\ GivenBack(Before(push[p]), held, damaged)
           /\ push[p] \in PushState /\ push[p].next <= Len(BlobsOf[push[p].artifact])
           /\ Pushing(p) \in Blob
           /\ \A s \in PushState : s.artifact = push[p].artifact /\ s.next = push[p].next + 1
                 => Before(s) = Before(push[p]) \cup {Pushing(p)}
<1>1. Begun(push[p], tried) /\ GivenBack(Before(push[p]), held, damaged) /\ push[p] \in PushState
  BY DEF OciInv, Uploaded, OciTyped
<1>2. /\ push[p].next \in Nat /\ 1 <= push[p].next /\ push[p].artifact \in Artifact
      /\ Len(BlobsOf[push[p].artifact]) \in Nat
  BY <1>1, BlobsAreBlobs DEF Begun, PushState
<1>3. push[p].next <= Len(BlobsOf[push[p].artifact])
  BY <1>2 DEF AllUploaded
<1>4. Pushing(p) \in Blob
  BY <1>2, <1>3, BlobsAreBlobs DEF Pushing
<1>5. ASSUME NEW s \in PushState, s.artifact = push[p].artifact, s.next = push[p].next + 1
      PROVE  Before(s) = Before(push[p]) \cup {Pushing(p)}
  <2>1. 1..(s.next - 1) = 1..(push[p].next - 1) \cup {push[p].next}
    BY <1>2, <1>5
  <2>2. QED
    BY <1>5, <2>1 DEF Before, Pushing
<1>6. QED
  BY <1>1, <1>3, <1>4, <1>5

LEMMA CheckKeepsOciInv ==
    ASSUME OciAssumption, OciInv, NEW p \in Pusher, CheckBlob(p)
    PROVE  OciInv'
<1>1. /\ OciTyped /\ push[p].stage = "checking" /\ ~AllUploaded(p)
      /\ UNCHANGED <<held, tagged, pull, damaged, tried>>
  BY DEF OciInv, CheckBlob
<1>2. \A bs \in SUBSET Blob : GivenBack(bs, held, damaged) => GivenBack(bs, held', damaged')
  BY <1>1
<1>3. push' \in [Pusher -> PushState] /\ Uploaded'
  <2>1. CASE held[Pushing(p)] # "absent" /\ push' = [push EXCEPT ![p].next = @ + 1]
    <3> DEFINE s == [push[p] EXCEPT !.next = @ + 1]
    <3>1. /\ s \in PushState /\ s.stage = "checking" /\ s.artifact = push[p].artifact
          /\ s.tag = push[p].tag /\ s.next = push[p].next + 1
          /\ push' = [push EXCEPT ![p] = s]
      <4>1. push[p] \in PushState
        BY <1>1 DEF OciTyped
      <4>2. s \in PushState /\ s.next = push[p].next + 1
        BY <4>1, Successor DEF PushState
      <4>3. QED
        BY <1>1, <2>1, <4>1, <4>2 DEF PushState
    <3>2. Before(s) = Before(push[p]) \cup {Pushing(p)} /\ GivenBack(Before(push[p]), held, damaged)
      BY <1>1, <3>1, AtHand
    <3>3. GivenBack(Before(s), held', damaged')
      BY <1>1, <2>1, <3>2 DEF GivenBack
    <3>4. Begun(s, tried')
      <4>1. /\ Begun(push[p], tried) /\ push[p] \in PushState
            /\ push[p].next <= Len(BlobsOf[push[p].artifact])
        BY <1>1, AtHand
      <4>2. push[p].next \in Nat /\ Len(BlobsOf[push[p].artifact]) \in Nat
        BY <4>1, BlobsAreBlobs DEF Begun, PushState
      <4>3. QED
        BY <1>1, <3>1, <4>1, <4>2 DEF Begun
    <3>5. QED
      BY <1>1, <1>2, <3>1, <3>3, <3>4, PushStep
  <2>2. CASE push' = [push EXCEPT ![p].stage = "uploading"]
    <3> DEFINE s == [push[p] EXCEPT !.stage = "uploading"]
    <3>1. /\ s \in PushState /\ s.artifact = push[p].artifact /\ s.tag = push[p].tag
          /\ s.next = push[p].next /\ push' = [push EXCEPT ![p] = s]
      BY <1>1, <2>2 DEF OciTyped, PushState
    <3>2. Begun(s, tried') /\ GivenBack(Before(s), held', damaged')
      BY <1>1, <3>1, AtHand DEF Begun, Before, GivenBack
    <3>3. QED
      BY <1>1, <1>2, <3>1, <3>2, PushStep
  <2>3. CASE EndPush(p)
    BY <1>1, <1>2, <2>3, IdlePush, PushStep
  <2>4. QED
    BY <2>1, <2>2, <2>3 DEF CheckBlob
<1>4. Complete' /\ Pulled'
  BY <1>1, <1>2, TagsStay, PullsStay
<1>5. QED
  BY <1>1, <1>3, <1>4 DEF OciInv, OciTyped

LEMMA UploadKeepsOciInv ==
    ASSUME OciAssumption, OciInv, NEW p \in Pusher, UploadBlob(p)
    PROVE  OciInv'
<1>1. /\ OciTyped /\ push[p].stage = "uploading" /\ ~AllUploaded(p)
      /\ held' \in {held, [held EXCEPT ![Pushing(p)] = "good"]}
      /\ UNCHANGED <<tagged, pull, damaged, tried>>
  <2>1. Begun(push[p], tried) /\ push[p] \in PushState /\ push[p].stage = "uploading"
    BY DEF OciInv, OciTyped, Uploaded, UploadBlob
  <2>2. push[p].next \in Nat /\ Len(BlobsOf[push[p].artifact]) \in Nat
    BY <2>1, BlobsAreBlobs DEF Begun, PushState
  <2>3. ~AllUploaded(p)
    BY <2>1, <2>2 DEF AllUploaded, Begun
  <2>4. QED
    BY <2>1, <2>3 DEF OciInv, UploadBlob
<1>2. /\ held' \in [Blob -> {"absent", "good", "corrupt"}]
      /\ \A b \in Blob : held'[b] = "absent" => held[b] = "absent"
  BY <1>1, AtHand DEF OciTyped
<1>3. \A bs \in SUBSET Blob : GivenBack(bs, held, damaged) => GivenBack(bs, held', damaged')
  BY <1>1, <1>2 DEF GivenBack
<1>4. push' \in [Pusher -> PushState] /\ Uploaded'
  <2>1. CASE /\ held' = [held EXCEPT ![Pushing(p)] = "good"]
             /\ push' = [push EXCEPT ![p].stage = "checking", ![p].next = @ + 1]
    <3> DEFINE s == [push[p] EXCEPT !.stage = "checking", !.next = @ + 1]
    <3>1. /\ s \in PushState /\ s.stage = "checking" /\ s.artifact = push[p].artifact
          /\ s.tag = push[p].tag /\ s.next = push[p].next + 1
          /\ push' = [push EXCEPT ![p] = s]
      <4>1. push[p] \in PushState
        BY <1>1 DEF OciTyped
      <4>2. s \in PushState /\ s.next = push[p].next + 1
        BY <4>1, Successor DEF PushState
      <4>3. QED
        BY <1>1, <2>1, <4>1, <4>2 DEF PushState
    <3>2. /\ Before(s) = Before(push[p]) \cup {Pushing(p)} /\ Pushing(p) \in Blob
          /\ GivenBack(Before(push[p]), held, damaged)
          /\ Before(push[p]) \in SUBSET Blob
      BY <1>1, <3>1, AtHand, BeforeAreBlobs
    <3>3. held'[Pushing(p)] = "good" /\ GivenBack(Before(push[p]), held', damaged')
      BY <1>1, <1>3, <2>1, <3>2 DEF OciTyped
    <3>4. GivenBack(Before(s), held', damaged')
      BY <3>2, <3>3 DEF GivenBack
    <3>5. Begun(s, tried')
      <4>1. /\ Begun(push[p], tried) /\ push[p] \in PushState
            /\ push[p].next <= Len(BlobsOf[push[p].artifact])
        BY <1>1, AtHand
      <4>2. push[p].next \in Nat /\ Len(BlobsOf[push[p].artifact]) \in Nat
        BY <4>1, BlobsAreBlobs DEF Begun, PushState
      <4>3. QED
        BY <1>1, <3>1, <4>1, <4>2 DEF Begun
    <3>6. QED
      BY <1>1, <1>3, <3>1, <3>4, <3>5, PushStep
  <2>2. CASE EndPush(p)
    BY <1>1, <1>3, <2>2, IdlePush, PushStep
  <2>3. QED
    BY <2>1, <2>2 DEF UploadBlob
<1>5. Complete' /\ Pulled'
  BY <1>1, <1>3, TagsStay, PullsStay
<1>6. QED
  BY <1>1, <1>2, <1>4, <1>5 DEF OciInv, OciTyped

\* All blobs have been uploaded when the manifest is put.
LEMMA ManifestKeepsOciInv ==
    ASSUME OciAssumption, OciInv, NEW p \in Pusher, PutManifest(p)
    PROVE  OciInv'
<1> DEFINE x == push[p].artifact
           t == push[p].tag
<1>1. /\ OciTyped /\ push[p].stage = "checking" /\ AllUploaded(p) /\ EndPush(p)
      /\ tagged' \in {tagged, [tagged EXCEPT ![t] = x]}
      /\ UNCHANGED <<held, pull, damaged, tried>>
  BY DEF OciInv, PutManifest, ReadyForManifest
<1>2. /\ Begun(push[p], tried) /\ GivenBack(Before(push[p]), held, damaged) /\ push[p] \in PushState
      /\ x \in Artifact /\ t \in Tag /\ x \in tried[t]
  BY <1>1 DEF OciInv, Uploaded, Begun, OciTyped
<1>3. Before(push[p]) = Blobs(x)
  <2>1. push[p].next - 1 = Len(BlobsOf[x])
    <3>1. push[p].next \in Nat /\ Len(BlobsOf[x]) \in Nat
      BY <1>2, BlobsAreBlobs DEF PushState
    <3>2. push[p].next > Len(BlobsOf[x]) /\ push[p].next <= Len(BlobsOf[x]) + 1
      BY <1>1, <1>2 DEF AllUploaded, Begun
    <3>3. QED
      BY <3>1, <3>2, JustAbove
  <2>2. QED
    BY <1>2, <2>1, BlobsAreBlobs DEF Before
<1>4. push' \in [Pusher -> PushState] /\ Uploaded'
  BY <1>1, IdlePush, PushStep
<1>5. tagged' \in [Tag -> Artifact \cup {NoArtifact}]
  BY <1>1, <1>2 DEF OciTyped
<1>6. Complete'
  <2> SUFFICES ASSUME NEW u \in Tag, tagged'[u] # NoArtifact
               PROVE  tagged'[u] \in tried[u] /\ GivenBack(Blobs(tagged'[u]), held, damaged)
    BY <1>1 DEF Complete, Blobs
  <2>1. tagged'[u] = tagged[u] \/ (u = t /\ tagged'[u] = x)
    BY <1>1, <1>2 DEF OciTyped
  <2>2. CASE tagged'[u] = tagged[u]
    BY <2>2 DEF OciInv, Complete
  <2>3. CASE u = t /\ tagged'[u] = x
    BY <1>2, <1>3, <2>3
  <2>4. QED
    BY <2>1, <2>2, <2>3
<1>7. Pulled'
  BY <1>1, PullsStay
<1>8. QED
  BY <1>1, <1>4, <1>5, <1>6, <1>7 DEF OciInv, OciTyped

\* What a pull makes of its entry, by its new state.
LEMMA PullStep ==
    ASSUME OciInv, NEW q \in Puller, NEW s \in PullState, pull' = [pull EXCEPT ![q] = s],
           UNCHANGED <<held, tagged, push, damaged, tried>>,
           s.stage \in {"fetching", "ok"} =>
               /\ s.tag \in Tag /\ s.artifact \in tried[s.tag]
               /\ \A g \in s.got : g.blob \in Blobs(s.artifact) /\ (~s.failed => g.bytes = "good")
               /\ s.stage = "ok" => ~s.failed /\ {g.blob : g \in s.got} = Blobs(s.artifact)
    PROVE  OciInv'
<1>1. OciTyped'
  BY DEF OciInv, OciTyped
<1>2. Uploaded' /\ Complete'
  BY DEF OciInv, Uploaded, Begun, GivenBack, Before, Complete, Blobs
<1>3. pull'[q] = s /\ \A r \in Puller \ {q} : pull'[r] = pull[r]
  BY DEF OciInv, OciTyped
<1>4. Pulled'
  <2> SUFFICES ASSUME NEW r \in Puller, pull'[r].stage \in {"fetching", "ok"}
               PROVE  /\ pull'[r].tag \in Tag /\ pull'[r].artifact \in tried[pull'[r].tag]
                      /\ \A g \in pull'[r].got : /\ g.blob \in Blobs(pull'[r].artifact)
                                                 /\ ~pull'[r].failed => g.bytes = "good"
                      /\ pull'[r].stage = "ok" =>
                            /\ ~pull'[r].failed
                            /\ {g.blob : g \in pull'[r].got} = Blobs(pull'[r].artifact)
    BY DEF Pulled, Blobs
  <2>1. CASE r = q
    BY <1>3, <2>1
  <2>2. CASE r # q
    BY <1>3, <2>2 DEF OciInv, Pulled
  <2>3. QED
    BY <2>1, <2>2
<1>5. QED
  BY <1>1, <1>2, <1>4 DEF OciInv

LEMMA BeginPullKeepsOciInv ==
    ASSUME OciInv, NEW q \in Puller, NEW t \in Tag, BeginPull(q, t)
    PROVE  OciInv'
<1>1. OciTyped /\ UNCHANGED <<held, tagged, push, damaged, tried>>
  BY DEF OciInv, BeginPull
<1>2. CASE /\ tagged[t] # NoArtifact
           /\ pull' = [pull EXCEPT ![q] = [NoPull EXCEPT !.stage = "fetching", !.tag = t,
                                                         !.artifact = tagged[t]]]
  <2> DEFINE s == [NoPull EXCEPT !.stage = "fetching", !.tag = t, !.artifact = tagged[t]]
  <2>1. /\ s \in PullState /\ s.stage = "fetching" /\ s.tag = t /\ s.artifact = tagged[t]
        /\ s.got = {}
    BY <1>1 DEF NoPull, PullState, OciTyped
  <2>2. tagged[t] \in tried[t]
    BY <1>2 DEF OciInv, Complete
  <2>3. QED
    BY <1>1, <1>2, <2>1, <2>2, PullStep
<1>3. CASE pull' = [pull EXCEPT ![q] = [NoPull EXCEPT !.stage = "failed", !.tag = t]]
  <2> DEFINE s == [NoPull EXCEPT !.stage = "failed", !.tag = t]
  <2>1. s \in PullState /\ s.stage = "failed"
    BY DEF NoPull, PullState
  <2>2. QED
    BY <1>1, <1>3, <2>1, PullStep
<1>4. QED
  BY <1>2, <1>3 DEF BeginPull

LEMMA FetchKeepsOciInv ==
    ASSUME OciInv, NEW q \in Puller, NEW b \in Blob, FetchBlob(q, b)
    PROVE  OciInv'
<1> DEFINE earlier == pull[q]
           got == earlier.got \cup {[blob |-> b, bytes |-> held[b]]}
<1>1. /\ OciTyped /\ earlier \in PullState /\ earlier.stage = "fetching" /\ b \in Blobs(earlier.artifact)
      /\ UNCHANGED <<held, tagged, push, damaged, tried>>
  BY DEF OciInv, OciTyped, FetchBlob
<1>2. PICK answered \in BOOLEAN : pull' = [pull EXCEPT
          ![q].failed = earlier.failed \/ ~answered \/ ~Verified(b), ![q].got = got,
          ![q].stage = IF {g.blob : g \in got} # Blobs(earlier.artifact) THEN @
                       ELSE IF earlier.failed \/ ~answered \/ ~Verified(b) THEN "failed" ELSE "ok"]
  BY DEF FetchBlob
<1> DEFINE failed == earlier.failed \/ ~answered \/ ~Verified(b)
           stage == IF {g.blob : g \in got} # Blobs(earlier.artifact) THEN "fetching"
                    ELSE IF failed THEN "failed" ELSE "ok"
           s == [earlier EXCEPT !.failed = failed, !.got = got, !.stage = stage]
<1>3. got \in SUBSET Fetched /\ failed \in BOOLEAN /\ stage \in {"fetching", "failed", "ok"}
  <2>1. held[b] \in {"absent", "good", "corrupt"} /\ earlier.got \in SUBSET Fetched
    BY <1>1 DEF OciTyped, PullState
  <2>2. [blob |-> b, bytes |-> held[b]] \in Fetched
    BY <2>1 DEF Fetched
  <2>3. failed \in BOOLEAN
    OBVIOUS
  <2>4. stage \in {"fetching", "failed", "ok"}
    OBVIOUS
  <2>5. QED
    BY <2>1, <2>2, <2>3, <2>4
<1>4. s \in PullState
  BY <1>1, <1>3 DEF PullState
<1>5. /\ s.stage = stage /\ s.tag = earlier.tag /\ s.artifact = earlier.artifact
      /\ s.got = got /\ s.failed = failed
  BY <1>1, <1>3 DEF PullState
<1>6. pull' = [pull EXCEPT ![q] = s]
  BY <1>1, <1>2 DEF OciTyped
<1>7. /\ s.tag \in Tag /\ s.artifact \in tried[s.tag]
      /\ \A g \in earlier.got : g.blob \in Blobs(earlier.artifact) /\ (~earlier.failed => g.bytes = "good")
  BY <1>1, <1>5 DEF OciInv, Pulled
<1>8. \A g \in got : g.blob \in Blobs(earlier.artifact) /\ (~failed => g.bytes = "good")
  BY <1>1, <1>7 DEF Verified
<1>9. stage = "ok" => ~failed /\ {g.blob : g \in got} = Blobs(earlier.artifact)
  OBVIOUS
<1>10. QED
  BY <1>1, <1>4, <1>5, <1>6, <1>7, <1>8, <1>9, PullStep

LEMMA EndPullKeepsOciInv ==
    ASSUME OciInv, NEW q \in Puller, EndPull(q)
    PROVE  OciInv'
<1>1. NoPull \in PullState /\ NoPull.stage = "idle"
  BY DEF NoPull, PullState
<1>2. QED
  BY <1>1, PullStep DEF EndPull

LEMMA DamageKeepsOciInv ==
    ASSUME OciAssumption, OciInv, NEW b \in Blob, Damage(b)
    PROVE  OciInv'
<1>1. /\ OciTyped /\ held' \in {[held EXCEPT ![b] = how] : how \in {"absent", "corrupt"}}
      /\ damaged' = damaged \cup {b} /\ UNCHANGED <<tagged, push, pull, tried>>
  BY DEF OciInv, Damage
<1>2. held' \in [Blob -> {"absent", "good", "corrupt"}] /\ \A c \in Blob \ {b} : held'[c] = held[c]
  BY <1>1 DEF OciTyped
<1>3. \A bs \in SUBSET Blob : GivenBack(bs, held, damaged) => GivenBack(bs, held', damaged')
  BY <1>1, <1>2 DEF GivenBack
<1>4. Uploaded'
  <2> SUFFICES ASSUME NEW p \in Pusher, push[p].stage # "idle"
               PROVE  Begun(push[p], tried) /\ GivenBack(Before(push[p]), held', damaged')
    BY <1>1 DEF Uploaded, Begun, GivenBack, Before
  <2>1. Begun(push[p], tried) /\ GivenBack(Before(push[p]), held, damaged) /\ push[p] \in PushState
    BY DEF OciInv, Uploaded, OciTyped
  <2>2. Before(push[p]) \in SUBSET Blob
    BY <2>1, BeforeAreBlobs
  <2>3. QED
    BY <1>3, <2>1, <2>2
<1>5. Complete' /\ Pulled'
  BY <1>1, <1>3, TagsStay, PullsStay
<1>6. QED
  BY <1>1, <1>2, <1>4, <1>5 DEF OciInv, OciTyped

LEMMA StutterKeepsOciInv == ASSUME OciInv, UNCHANGED ociVars PROVE OciInv'
<1>1. UNCHANGED <<held, tagged, push, pull, damaged, tried>>
  BY DEF ociVars
<1>2. OciTyped'
  BY <1>1 DEF OciInv, OciTyped
<1>3. Uploaded'
  BY <1>1 DEF OciInv, Uploaded, Begun, GivenBack, Before
<1>4. Complete'
  BY <1>1 DEF OciInv, Complete, GivenBack, Blobs
<1>5. Pulled'
  BY <1>1 DEF OciInv, Pulled, Blobs
<1>6. QED
  BY <1>2, <1>3, <1>4, <1>5 DEF OciInv

-----------------------------------------------------------------------------
(* Theorems *)

(* The inductive invariant: a push has uploaded what it left behind, so that *)
(* what a tag names is complete but for what the registry lost, and a pull   *)
(* without failure has verified what it got.                                 *)
THEOREM OciInvariance == ASSUME OciAssumption PROVE OciSpec => []OciInv
<1>1. OciInit => OciInv
  BY InitOciInv
<1>2. OciInv /\ [OciNext]_ociVars => OciInv'
  <2> SUFFICES ASSUME OciInv, [OciNext]_ociVars PROVE OciInv'
    OBVIOUS
  <2>1. CASE UNCHANGED ociVars
    BY <2>1, StutterKeepsOciInv
  <2>2. CASE \E p \in Pusher, x \in Artifact, t \in Tag : BeginPush(p, x, t)
    BY <2>2, BeginPushKeepsOciInv
  <2>3. CASE \E p \in Pusher : CheckBlob(p) \/ UploadBlob(p) \/ PutManifest(p)
    BY <2>3, CheckKeepsOciInv, UploadKeepsOciInv, ManifestKeepsOciInv
  <2>4. CASE \E q \in Puller, t \in Tag : BeginPull(q, t)
    BY <2>4, BeginPullKeepsOciInv
  <2>5. CASE \E q \in Puller : EndPull(q) \/ \E b \in Blob : FetchBlob(q, b)
    BY <2>5, EndPullKeepsOciInv, FetchKeepsOciInv
  <2>6. CASE \E b \in Blob : Damage(b)
    BY <2>6, DamageKeepsOciInv
  <2>7. QED
    BY <2>1, <2>2, <2>3, <2>4, <2>5, <2>6 DEF OciNext
<1>3. QED
  BY <1>1, <1>2, PTL DEF OciSpec

(* Whatever pushes fail, share a tag or rely on each other's blobs, and      *)
(* whatever the registry loses or damages: a pull that succeeds has all      *)
(* blobs of an artifact pushed under its tag, unharmed, and no tag names an  *)
(* artifact with a blob the registry was never given (push, upload_blob,     *)
(* pull, fetch_blob).                                                        *)
THEOREM PulledArtifactsAreWhole == ASSUME OciAssumption PROVE OciSpec => []ArtifactsWhole
<1>1. OciInv => ArtifactsWhole
  <2> SUFFICES ASSUME OciInv PROVE ArtifactsWhole
    OBVIOUS
  <2>1. ASSUME NEW q \in Puller, pull[q].stage = "ok"
        PROVE  /\ pull[q].artifact \in tried[pull[q].tag]
               /\ pull[q].got = [blob : Blobs(pull[q].artifact), bytes : {"good"}]
    <3>1. /\ pull[q].artifact \in tried[pull[q].tag] /\ pull[q].got \subseteq Fetched
          /\ \A g \in pull[q].got : g.blob \in Blobs(pull[q].artifact) /\ g.bytes = "good"
          /\ {g.blob : g \in pull[q].got} = Blobs(pull[q].artifact)
      BY <2>1 DEF OciInv, OciTyped, PullState, Pulled
    <3>2. pull[q].got \subseteq [blob : Blobs(pull[q].artifact), bytes : {"good"}]
      BY <3>1 DEF Fetched
    <3>3. [blob : Blobs(pull[q].artifact), bytes : {"good"}] \subseteq pull[q].got
      <4> SUFFICES ASSUME NEW b \in Blobs(pull[q].artifact)
                   PROVE  [blob |-> b, bytes |-> "good"] \in pull[q].got
        OBVIOUS
      <4>1. PICK g \in pull[q].got : g.blob = b
        BY <3>1
      <4>2. g = [blob |-> b, bytes |-> "good"]
        BY <3>1, <4>1 DEF Fetched
      <4>3. QED
        BY <4>1, <4>2
    <3>4. QED
      BY <3>1, <3>2, <3>3
  <2>2. ASSUME NEW t \in Tag, tagged[t] # NoArtifact, NEW b \in Blobs(tagged[t]),
               held[b] = "absent"
        PROVE  b \in damaged
    BY <2>2 DEF OciInv, Complete, GivenBack
  <2>3. QED
    BY <2>1, <2>2 DEF ArtifactsWhole
<1>2. QED
  BY <1>1, OciInvariance, PTL

\* A push was begun no more often than it may.
Made == \A p \in Pusher : push[p].made \in 0..MaxPushes

LEMMA MadeNext == OciAssumption /\ Made /\ [OciNext]_ociVars /\ OciTyped => Made'
<1> SUFFICES ASSUME OciAssumption, Made, [OciNext]_ociVars, OciTyped PROVE Made'
  OBVIOUS
<1>1. MaxPushes \in Nat /\ push \in [Pusher -> PushState]
  BY DEF OciAssumption, OciTyped
<1>2. ASSUME NEW p \in Pusher, NEW s, push' = [push EXCEPT ![p] = s], s.made \in 0..MaxPushes
      PROVE  Made'
  BY <1>1, <1>2 DEF Made
<1>3. ASSUME NEW p \in Pusher, NEW x \in Artifact, NEW t \in Tag, BeginPush(p, x, t) PROVE Made'
  <2>1. PICK s : /\ s = [stage |-> "checking", artifact |-> x, tag |-> t, next |-> 1, made |-> push[p].made + 1]
                 /\ push' = [push EXCEPT ![p] = s]
    BY <1>3 DEF BeginPush
  <2>2. s.made = push[p].made + 1 /\ push[p].made < MaxPushes /\ push[p].made \in 0..MaxPushes
    BY <1>3, <2>1 DEF BeginPush, Made
  <2>3. s.made \in 0..MaxPushes
    BY <1>1, <2>2
  <2>4. QED
    BY <1>2, <2>1, <2>3
<1>4. ASSUME NEW p \in Pusher, EndPush(p) PROVE Made'
  <2>1. PICK s : s = [NoPush EXCEPT !.made = push[p].made] /\ push' = [push EXCEPT ![p] = s]
    BY <1>4 DEF EndPush
  <2>2. s.made \in 0..MaxPushes
    BY <2>1 DEF NoPush, Made
  <2>3. QED
    BY <1>2, <2>1, <2>2
<1>5. ASSUME NEW p \in Pusher, NEW stage, NEW n,
             push' = [push EXCEPT ![p].next = n] \/ push' = [push EXCEPT ![p].stage = stage]
                \/ push' = [push EXCEPT ![p].stage = stage, ![p].next = n]
      PROVE  Made'
  <2>0. push[p] = [stage |-> push[p].stage, artifact |-> push[p].artifact, tag |-> push[p].tag,
                   next |-> push[p].next, made |-> push[p].made]
    BY <1>1 DEF PushState
  <2>3. PICK s : push' = [push EXCEPT ![p] = s] /\ s.made = push[p].made
    <3>1. \E s \in {[push[p] EXCEPT !.next = n], [push[p] EXCEPT !.stage = stage],
                   [push[p] EXCEPT !.stage = stage, !.next = n]} : push' = [push EXCEPT ![p] = s]
      BY <1>5
    <3>2. QED
      BY <2>0, <3>1
  <2>1. \A q \in Pusher : push'[q].made = push[q].made
    BY <1>1, <2>3
  <2>2. QED
    BY <2>1 DEF Made
<1>6. ASSUME NEW p \in Pusher, CheckBlob(p) \/ UploadBlob(p) \/ PutManifest(p) PROVE Made'
  <2>1. PICK n : n = push[p].next + 1
    OBVIOUS
  <2>2. \/ push' = [push EXCEPT ![p].next = n] \/ push' = [push EXCEPT ![p].stage = "uploading"]
        \/ push' = [push EXCEPT ![p].stage = "checking", ![p].next = n] \/ EndPush(p)
    BY <1>6, <2>1 DEF CheckBlob, UploadBlob, PutManifest
  <2>3. QED
    BY <2>2, <1>4, <1>5
<1>7. ASSUME UNCHANGED push PROVE Made'
  BY <1>7 DEF Made
<1>8. QED
  BY <1>3, <1>6, <1>7 DEF OciNext, ociVars, BeginPull, FetchBlob, EndPull, Damage

(* A push counts its attempts, uploads a blob of its artifact and nothing    *)
(* after the last one.                                                       *)
THEOREM OciTypeCorrect == ASSUME OciAssumption PROVE OciSpec => []OciTypeOK
<1>1. OciInit => Made
  <2>1. NoPush.made = 0
    BY DEF NoPush
  <2>2. 0 \in 0..MaxPushes
    BY DEF OciAssumption
  <2>3. QED
    BY <2>1, <2>2 DEF OciInit, Made
<1>2. OciInv => OciTyped
  BY DEF OciInv
<1>3. OciInv /\ Made => OciTypeOK
  <2> SUFFICES ASSUME OciInv, Made PROVE OciTypeOK
    OBVIOUS
  <2>1. ASSUME NEW p \in Pusher
        PROVE  /\ push[p].stage \in {"idle", "checking", "uploading"}
               /\ push[p].stage # "idle" => push[p].artifact \in Artifact
               /\ push[p].stage = "uploading" => ~AllUploaded(p)
    <3>1. push[p] \in PushState
      BY DEF OciInv, OciTyped
    <3>2. push[p].stage \in {"idle", "checking", "uploading"} /\ push[p].next \in Nat
      BY <3>1 DEF PushState
    <3>3. push[p].stage # "idle" => Begun(push[p], tried)
      BY DEF OciInv, Uploaded
    <3>4. ASSUME push[p].stage = "uploading" PROVE ~AllUploaded(p)
      <4>1. push[p].artifact \in Artifact /\ push[p].next <= Len(BlobsOf[push[p].artifact])
        BY <3>3, <3>4 DEF Begun
      <4>2. Len(BlobsOf[push[p].artifact]) \in Nat
        BY <4>1, BlobsAreBlobs
      <4>3. QED
        BY <3>2, <4>1, <4>2 DEF AllUploaded
    <3>5. QED
      BY <3>2, <3>3, <3>4 DEF Begun
  <2>2. \A q \in Puller : pull[q].stage \in {"idle", "fetching", "ok", "failed"}
    BY DEF OciInv, OciTyped, PullState
  <2>3. QED
    BY <2>1, <2>2 DEF OciInv, OciTyped, OciTypeOK, Made
<1>4. OciSpec => []Made
  BY <1>1, <1>2, MadeNext, OciInvariance, PTL DEF OciSpec
<1>5. QED
  BY <1>3, <1>4, OciInvariance, PTL

-----------------------------------------------------------------------------
(* ArtifactStores: types, quiet pulls and the size of the cache.            *)

\* What a push or a pull that is not idle is about.
Stages == \A w \in Writer :
    /\ writer[w].stage # "idle" => writer[w].file \in File /\ writer[w].writes # 0
    /\ writer[w].stage \in {"routing", "measuring", "sweeping"} => writer[w].file \in Block
    /\ writer[w].stage = "sweeping" => writer[w].total > CacheLimit
Reading == \A r \in Reader : reader[r].stage # "idle" => reader[r].file \in File

\* A file of which it is known what a pull finds has that content, nobody writes it and
\* the purge has nothing against it.
Linked(w) == writer[w].stage = "writing" /\ ~writer[w].unlinked
Known == \A f \in File : fresh[f] # NoFile =>
    /\ file[f] = fresh[f] /\ f \notin old /\ purge.doomed # f
    /\ \A w \in Writer : ~(Linked(w) /\ writer[w].file = f)
\* Two that write one file know that their contents may mix.
Mixing == \A w, u \in Writer :
    Linked(w) /\ Linked(u) /\ writer[w].file = writer[u].file /\ w # u => writer[w].mixed
\* What a pull has to find is there until it has read it.
Due == \A r \in Reader : reader[r].due # NoFile =>
    /\ reader[r].stage = "reading" => fresh[reader[r].file] = reader[r].due
    /\ reader[r].stage = "done" => reader[r].got = reader[r].due

\* A push that will measure the cache, or a sweep whose total and list still cover what is
\* cached, brings the cache within its limit.
Sound(w) == /\ writer[w].stage = "sweeping"
            /\ CacheSize <= writer[w].total /\ Cached \subseteq writer[w].left
Witness(w) == writer[w].stage \in {"routing", "measuring"} \/ Sound(w)
Settled == CacheSize <= CacheLimit \/ \E w \in Writer : Witness(w)
\* A cache that is too large is somebody's work, or a failed push explains it: a fault that
\* stays when the sweep of any one push is complete.
Accounted == Settled \/ faults # {}
AnswersHold == \A w \in Writer : writer[w].stage = "sweeping" => Settled \/ faults \ writer[w].makesUp # {}
\* Sweeps make up for the faults of their time: of two, the later one for those of the other.
Chain == \A w, u \in Writer : writer[w].stage = "sweeping" /\ writer[u].stage = "sweeping" =>
    \/ writer[w].makesUp \cap faults \subseteq writer[u].makesUp
    \/ writer[u].makesUp \cap faults \subseteq writer[w].makesUp
\* A fault is of a push that is over.
Earlier(fs) == \A v \in Writer : \A k \in 1..MaxWrites : <<v, k>> \in fs =>
    k <= writer[v].writes /\ (writer[v].stage # "idle" => k < writer[v].writes)
Past == Earlier(faults) /\ \A w \in Writer : Earlier(writer[w].makesUp)

(***************************************************************************)
(* Types.                                                                  *)
(***************************************************************************)
FileContents == Payload \cup Block \cup {NoFile}

LEMMA WriterFields ==
    ASSUME StoresTypeOK, NEW w \in Writer
    PROVE  /\ writer[w] \in WriteState
           /\ writer[w].stage \in {"idle", "writing", "routing", "measuring", "sweeping"}
           /\ writer[w].file \in File \cup {NoFile} /\ writer[w].value \in FileContents
           /\ writer[w].writes \in 0..MaxWrites /\ writer[w].mixed \in BOOLEAN
           /\ writer[w].unlinked \in BOOLEAN /\ writer[w].total \in Nat
           /\ writer[w].left \subseteq Block /\ writer[w].makesUp \subseteq Writer \X (1..MaxWrites)
BY DEF StoresTypeOK, WriteState, FileContents

LEMMA ReaderFields ==
    ASSUME StoresTypeOK, NEW r \in Reader
    PROVE  /\ reader[r] \in ReadState /\ reader[r].stage \in {"idle", "reading", "done"}
           /\ reader[r].file \in File \cup {NoFile} /\ reader[r].got \in FileContents \cup {Torn}
           /\ reader[r].due \in FileContents
BY DEF StoresTypeOK, ReadState, FileContents

LEMMA DisturbStep ==
    ASSUME StoresTypeOK, NEW files, files \subseteq File, Disturb(files)
    PROVE  /\ fresh' \in [File -> FileContents] /\ reader' \in [Reader -> ReadState]
           /\ \A g \in File : /\ g \in files => fresh'[g] = NoFile
                              /\ g \notin files => fresh'[g] = fresh[g]
           /\ \A r \in Reader : /\ reader'[r].stage = reader[r].stage
                                /\ reader'[r].file = reader[r].file
                                /\ reader'[r].got = reader[r].got
                                /\ reader[r].file \in files => reader'[r].due = NoFile
                                /\ reader[r].file \notin files => reader'[r] = reader[r]
<1>1. /\ fresh' \in [File -> FileContents]
      /\ \A g \in File : /\ g \in files => fresh'[g] = NoFile
                         /\ g \notin files => fresh'[g] = fresh[g]
  BY DEF Disturb, StoresTypeOK, FileContents
<1>2. ASSUME NEW r \in Reader
      PROVE  /\ reader'[r] \in ReadState
             /\ reader'[r].stage = reader[r].stage
             /\ reader'[r].file = reader[r].file
             /\ reader'[r].got = reader[r].got
             /\ reader[r].file \in files => reader'[r].due = NoFile
             /\ reader[r].file \notin files => reader'[r] = reader[r]
  <2>1. reader[r] \in ReadState
    BY DEF StoresTypeOK
  <2>2. reader'[r] = IF reader[r].file \in files THEN [reader[r] EXCEPT !.due = NoFile] ELSE reader[r]
    BY DEF Disturb
  <2>3. QED
    BY <2>1, <2>2 DEF ReadState
<1>3. reader' \in [Reader -> ReadState]
  BY <1>2 DEF Disturb
<1>4. QED
  BY <1>1, <1>2, <1>3

LEMMA UnlinkedFields ==
    ASSUME NEW s \in WriteState, NEW t, t = [s EXCEPT !.unlinked = TRUE]
    PROVE  /\ t \in WriteState /\ t.unlinked = TRUE
           /\ t.stage = s.stage /\ t.file = s.file /\ t.writes = s.writes /\ t.mixed = s.mixed
           /\ t.total = s.total /\ t.left = s.left /\ t.makesUp = s.makesUp
BY DEF WriteState

LEMMA MixedFields ==
    ASSUME NEW s \in WriteState, NEW t, t = [s EXCEPT !.mixed = TRUE]
    PROVE  /\ t \in WriteState /\ t.mixed = TRUE
           /\ t.stage = s.stage /\ t.file = s.file /\ t.writes = s.writes
           /\ t.unlinked = s.unlinked
           /\ t.total = s.total /\ t.left = s.left /\ t.makesUp = s.makesUp
BY DEF WriteState

LEMMA UnlinkedStep ==
    ASSUME StoresTypeOK, NEW f, NEW w \in Writer
    PROVE  /\ Unlinked(f) \in [Writer -> WriteState]
           /\ w \notin WritersOf(f) => Unlinked(f)[w] = writer[w]
           /\ Unlinked(f)[w].stage = writer[w].stage /\ Unlinked(f)[w].file = writer[w].file
           /\ Unlinked(f)[w].writes = writer[w].writes /\ Unlinked(f)[w].mixed = writer[w].mixed
           /\ Unlinked(f)[w].total = writer[w].total /\ Unlinked(f)[w].left = writer[w].left
           /\ Unlinked(f)[w].makesUp = writer[w].makesUp
           /\ ~(/\ Unlinked(f)[w].stage = "writing" /\ Unlinked(f)[w].file = f
                /\ ~Unlinked(f)[w].unlinked)
           /\ ~Unlinked(f)[w].unlinked => ~writer[w].unlinked
<1>1. \A u \in Writer : writer[u] \in WriteState
  BY DEF StoresTypeOK
<1>2. \A u \in Writer : Unlinked(f)[u] = IF u \in WritersOf(f) THEN [writer[u] EXCEPT !.unlinked = TRUE]
                                         ELSE writer[u]
  BY DEF Unlinked
<1>3. ASSUME NEW u \in Writer PROVE Unlinked(f)[u] \in WriteState
  <2>1. PICK s \in WriteState : s = writer[u]
    BY <1>1
  <2>2. PICK t : t = [s EXCEPT !.unlinked = TRUE]
    OBVIOUS
  <2>3. t \in WriteState
    BY <2>2, UnlinkedFields
  <2>4. QED
    BY <1>2, <2>1, <2>2, <2>3
<1>4. Unlinked(f) \in [Writer -> WriteState]
  BY <1>3 DEF Unlinked
<1>5. writer[w] \in WriteState
  BY <1>1
<1>6. /\ w \in WritersOf(f) => Unlinked(f)[w] = [writer[w] EXCEPT !.unlinked = TRUE]
      /\ w \notin WritersOf(f) => Unlinked(f)[w] = writer[w]
  BY <1>2
<1>7. CASE w \in WritersOf(f)
  BY <1>4, <1>5, <1>6, <1>7 DEF WriteState
<1>8. CASE w \notin WritersOf(f)
  BY <1>4, <1>5, <1>6, <1>8 DEF WriteState, WritersOf
<1>9. QED
  BY <1>7, <1>8

LEMMA FinishedFields ==
    ASSUME StoresTypeOK, NEW w \in Writer
    PROVE  /\ Finished(w) \in WriteState /\ Finished(w).stage = "idle"
           /\ Finished(w).writes = writer[w].writes /\ Finished(w).makesUp = {}
<1>1. writer[w].writes \in 0..MaxWrites
  BY WriterFields
<1>2. QED
  BY <1>1 DEF Finished, NoWrite, WriteState

\* A push begins.
LEMMA BeginStep ==
    ASSUME StoresTypeOK, NEW w \in Writer, NEW f \in File, NEW v \in Payload \cup Block,
           BeginWrite(w, f, v)
    PROVE  /\ writer' \in [Writer -> WriteState]
           /\ writer[w].stage = "idle" /\ writer'[w].stage = "writing" /\ writer'[w].file = f
           /\ writer'[w].writes = writer[w].writes + 1 /\ writer'[w].makesUp = {}
           /\ writer'[w].mixed = (WritersOf(f) # {})
           /\ \A u \in Writer \ {w} :
                 /\ writer'[u].stage = writer[u].stage /\ writer'[u].file = writer[u].file
                 /\ writer'[u].writes = writer[u].writes /\ writer'[u].unlinked = writer[u].unlinked
                 /\ writer'[u].total = writer[u].total /\ writer'[u].left = writer[u].left
                 /\ writer'[u].makesUp = writer[u].makesUp
                 /\ u \in WritersOf(f) => writer'[u].mixed
                 /\ writer[u].mixed => writer'[u].mixed
<1>1. writer[w].stage = "idle" /\ writer[w].writes \in 0..MaxWrites /\ writer[w].writes < MaxWrites
  BY WriterFields DEF BeginWrite
<1>2. PICK n \in 0..MaxWrites : n = writer[w].writes + 1
  BY <1>1, StoresAssumption
<1>3. PICK b \in BOOLEAN : b = (WritersOf(f) # {})
  OBVIOUS
<1>4. PICK t : t = [NoWrite EXCEPT !.stage = "writing", !.file = f, !.value = v, !.writes = n, !.mixed = b]
  OBVIOUS
<1>5. /\ t \in WriteState /\ t.stage = "writing" /\ t.file = f /\ t.writes = n /\ t.makesUp = {}
      /\ t.mixed = b
  BY <1>4 DEF NoWrite, WriteState
<1>6. /\ writer'[w] = t
      /\ \A u \in Writer \ {w} : writer'[u] = IF u \in WritersOf(f) THEN [writer[u] EXCEPT !.mixed = TRUE]
                                              ELSE writer[u]
  BY <1>2, <1>3, <1>4 DEF BeginWrite
<1>7. ASSUME NEW u \in Writer \ {w}
      PROVE  /\ writer'[u] \in WriteState
             /\ writer'[u].stage = writer[u].stage /\ writer'[u].file = writer[u].file
             /\ writer'[u].writes = writer[u].writes /\ writer'[u].unlinked = writer[u].unlinked
             /\ writer'[u].total = writer[u].total /\ writer'[u].left = writer[u].left
             /\ writer'[u].makesUp = writer[u].makesUp
             /\ u \in WritersOf(f) => writer'[u].mixed
             /\ writer[u].mixed => writer'[u].mixed
  <2>1. PICK s \in WriteState : s = writer[u]
    BY DEF StoresTypeOK
  <2>2. PICK t2 : t2 = [s EXCEPT !.mixed = TRUE]
    OBVIOUS
  <2>3. /\ t2 \in WriteState /\ t2.mixed = TRUE
        /\ t2.stage = s.stage /\ t2.file = s.file /\ t2.writes = s.writes
        /\ t2.unlinked = s.unlinked
        /\ t2.total = s.total /\ t2.left = s.left /\ t2.makesUp = s.makesUp
    BY <2>2, MixedFields
  <2>4. (writer'[u] = s /\ u \notin WritersOf(f)) \/ writer'[u] = t2
    BY <1>6, <2>1, <2>2
  <2>5. QED
    BY <2>1, <2>3, <2>4
<1>8. writer' \in [Writer -> WriteState]
  <2>1. \A u \in Writer : writer'[u] \in WriteState
    BY <1>5, <1>6, <1>7
  <2>2. QED
    BY <2>1 DEF BeginWrite
<1>9. QED
  BY <1>1, <1>2, <1>3, <1>5, <1>6, <1>7, <1>8

LEMMA StageFields ==
    ASSUME NEW s \in WriteState, NEW g \in {"idle", "writing", "routing", "measuring", "sweeping"},
           NEW t, t = [s EXCEPT !.stage = g]
    PROVE  /\ t \in WriteState /\ t.stage = g /\ t.file = s.file /\ t.writes = s.writes
           /\ t.mixed = s.mixed /\ t.unlinked = s.unlinked
           /\ t.total = s.total /\ t.left = s.left /\ t.makesUp = s.makesUp
BY DEF WriteState

Summed(s, n, l, t) == t = [s EXCEPT !.total = n, !.left = l]
LEMMA SumFields ==
    ASSUME NEW s \in WriteState, NEW n \in Nat, NEW l \in SUBSET Block, NEW t, Summed(s, n, l, t)
    PROVE  /\ t \in WriteState /\ t.stage = s.stage /\ t.file = s.file /\ t.writes = s.writes
           /\ t.mixed = s.mixed /\ t.unlinked = s.unlinked
           /\ t.total = n /\ t.left = l /\ t.makesUp = s.makesUp
BY DEF WriteState, Summed

Sweeps(s, n, l, m, t) == t = [s EXCEPT !.stage = "sweeping", !.total = n, !.left = l, !.makesUp = m]
LEMMA SweepFields ==
    ASSUME NEW s \in WriteState, NEW n \in Nat, NEW l \in SUBSET Block,
           NEW m \in SUBSET (Writer \X (1..MaxWrites)),
           NEW t, Sweeps(s, n, l, m, t)
    PROVE  /\ t \in WriteState /\ t.stage = "sweeping" /\ t.file = s.file /\ t.writes = s.writes
           /\ t.mixed = s.mixed /\ t.unlinked = s.unlinked
           /\ t.total = n /\ t.left = l /\ t.makesUp = m
BY DEF WriteState, Sweeps

\* One writer takes a step.
LEMMA WriterStep ==
    ASSUME StoresTypeOK, NEW w \in Writer, NEW t \in WriteState, writer' = [writer EXCEPT ![w] = t]
    PROVE  /\ writer' \in [Writer -> WriteState] /\ writer'[w] = t
           /\ \A u \in Writer \ {w} : writer'[u] = writer[u]
BY DEF StoresTypeOK

LEMMA OneKind == \A f \in File : f \in TagFile <=> f \notin Block
BY StoresAssumption DEF File

\* A push ends its write.
LEMMA FinishStep ==
    ASSUME StoresTypeOK, Stages, NEW w \in Writer, FinishWrite(w)
    PROVE  /\ writer[w].stage = "writing" /\ writer[w].file \in File
           /\ writer' \in [Writer -> WriteState]
           /\ \A u \in Writer \ {w} : writer'[u] = writer[u]
           /\ writer'[w].writes = writer[w].writes
           /\ writer[w].file \in TagFile => writer'[w] = Finished(w)
           /\ writer[w].file \in Block => /\ writer'[w].stage = "routing"
                                          /\ writer'[w].file = writer[w].file
           /\ writer'[w].stage \in {"idle", "routing"}
           /\ writer'[w].makesUp \subseteq writer[w].makesUp
           /\ file' \in [File -> FileContents \cup {Torn}] /\ fresh' \in [File -> FileContents]
           /\ old' \subseteq TagFile /\ old' \subseteq old
           /\ \A g \in File : g # writer[w].file => file'[g] = file[g] /\ fresh'[g] = fresh[g]
           /\ writer[w].unlinked => UNCHANGED <<file, fresh>>
           /\ ~writer[w].unlinked =>
                 /\ writer[w].file \notin old'
                 /\ writer[w].mixed \/ purge.doomed = writer[w].file => fresh' = fresh
                 /\ ~writer[w].mixed => file'[writer[w].file] = writer[w].value
                 /\ ~writer[w].mixed /\ purge.doomed # writer[w].file
                       => fresh'[writer[w].file] = writer[w].value
<1>1. PICK f \in File, v \in FileContents, s \in WriteState :
         writer[w].file = f /\ writer[w].value = v /\ s = writer[w] /\ s.file = f
  <2>1. writer[w].stage = "writing"
    BY DEF FinishWrite
  <2>2. QED
    BY <2>1, WriterFields DEF Stages
<1>2. PICK t : t = [s EXCEPT !.stage = "routing"]
  OBVIOUS
<1>3. /\ t \in WriteState /\ t.stage = "routing" /\ t.file = f /\ t.writes = s.writes
      /\ t.makesUp = s.makesUp
  BY <1>1, <1>2, StageFields
<1>4. PICK z \in WriteState : z = IF f \in TagFile THEN Finished(w) ELSE t
  BY <1>3, FinishedFields
<1>5. writer' = [writer EXCEPT ![w] = z]
  BY <1>1, <1>2, <1>4 DEF FinishWrite
<1>6. /\ writer' \in [Writer -> WriteState] /\ writer'[w] = z
      /\ \A u \in Writer \ {w} : writer'[u] = writer[u]
  BY <1>5, WriterStep
<1>7. /\ z.writes = writer[w].writes /\ z.makesUp \subseteq writer[w].makesUp
      /\ z.stage \in {"idle", "routing"}
      /\ f \in Block => z.stage = "routing" /\ z.file = f
  BY <1>1, <1>3, <1>4, FinishedFields, OneKind
<1>8. CASE writer[w].unlinked
  BY <1>1, <1>4, <1>6, <1>7, <1>8 DEF FinishWrite, StoresTypeOK, FileContents
<1>9. CASE ~writer[w].unlinked
  <2>1. PICK c \in {v, Torn} : /\ file' = [file EXCEPT ![f] = c]
                               /\ ~writer[w].mixed => c = v
    BY <1>1, <1>9 DEF FinishWrite
  <2>2. /\ file' \in [File -> FileContents \cup {Torn}] /\ file'[f] = c
        /\ \A g \in File : g # f => file'[g] = file[g]
    BY <2>1 DEF StoresTypeOK, FileContents
  <2>3. old' = old \ {f} /\ old' \subseteq TagFile
    BY <1>1, <1>9 DEF FinishWrite, StoresTypeOK
  <2>4. fresh' = IF writer[w].mixed \/ purge.doomed = f THEN fresh ELSE [fresh EXCEPT ![f] = v]
    BY <1>1, <1>9 DEF FinishWrite
  <2>5. /\ fresh' \in [File -> FileContents] /\ \A g \in File : g # f => fresh'[g] = fresh[g]
        /\ writer[w].mixed \/ purge.doomed = f => fresh' = fresh
        /\ ~writer[w].mixed /\ purge.doomed # f => fresh'[f] = v
    BY <2>4 DEF StoresTypeOK, FileContents
  <2>6. writer[w].stage = "writing"
    BY DEF FinishWrite
  <2>7. QED
    BY <1>1, <1>4, <1>6, <1>7, <1>9, <2>1, <2>2, <2>3, <2>5, <2>6
<1>10. QED
  BY <1>8, <1>9

\* A push that fails.
LEMMA FailStep ==
    ASSUME StoresTypeOK, NEW w \in Writer, writer[w].writes \in 1..MaxWrites, FailPush(w)
    PROVE  /\ writer' \in [Writer -> WriteState] /\ writer'[w] = Finished(w)
           /\ \A u \in Writer \ {w} : writer'[u] = writer[u]
           /\ faults' = faults \cup {<<w, writer[w].writes>>}
           /\ faults' \subseteq Writer \X (1..MaxWrites)
<1>1. PICK t \in WriteState : t = Finished(w)
  BY FinishedFields
<1>2. QED
  BY <1>1, WriterStep DEF FailPush, StoresTypeOK

LEMMA ReaderStep ==
    ASSUME StoresTypeOK, NEW r \in Reader, NEW t \in ReadState, reader' = [reader EXCEPT ![r] = t]
    PROVE  /\ reader' \in [Reader -> ReadState] /\ reader'[r] = t
           /\ \A q \in Reader \ {r} : reader'[q] = reader[q]
BY DEF StoresTypeOK

LEMMA BeginReadStep ==
    ASSUME StoresTypeOK, NEW r \in Reader, NEW f \in File, BeginRead(r, f)
    PROVE  /\ reader' \in [Reader -> ReadState]
           /\ \A q \in Reader \ {r} : reader'[q] = reader[q]
           /\ reader'[r].file = f /\ reader'[r].due = fresh[f]
           /\ file[f] = NoFile => reader'[r].stage = "done"
           /\ file[f] # NoFile => reader'[r].stage = "reading"
           /\ reader'[r].got = NoFile
<1>1. PICK t : t = [stage |-> IF file[f] = NoFile THEN "done" ELSE "reading",
                    file |-> f, got |-> NoFile, due |-> fresh[f]]
  OBVIOUS
<1>2. fresh[f] \in FileContents
  BY DEF StoresTypeOK, FileContents
<1>3. t \in ReadState
  BY <1>1, <1>2 DEF ReadState, FileContents
<1>4. reader' = [reader EXCEPT ![r] = t]
  BY <1>1 DEF BeginRead
<1>5. QED
  BY <1>1, <1>3, <1>4, ReaderStep

LEMMA FinishReadStep ==
    ASSUME StoresTypeOK, NEW r \in Reader, FinishRead(r), reader[r].file \in File
    PROVE  /\ reader' \in [Reader -> ReadState]
           /\ \A q \in Reader \ {r} : reader'[q] = reader[q]
           /\ reader'[r].stage = "done" /\ reader'[r].due = reader[r].due
           /\ reader'[r].file = reader[r].file /\ reader'[r].got = file[reader[r].file]
<1>1. PICK s \in ReadState, c \in FileContents \cup {Torn} : s = reader[r] /\ c = file[reader[r].file]
  BY DEF StoresTypeOK, FileContents
<1>2. PICK t : t = [s EXCEPT !.stage = "done", !.got = c]
  OBVIOUS
<1>3. t \in ReadState /\ t.stage = "done" /\ t.due = s.due /\ t.file = s.file /\ t.got = c
  BY <1>1, <1>2 DEF ReadState, FileContents
<1>4. reader' = [reader EXCEPT ![r] = t]
  BY <1>1, <1>2 DEF FinishRead, StoresTypeOK
<1>5. QED
  BY <1>1, <1>3, <1>4, ReaderStep

(***************************************************************************)
(* Sizes.                                                                  *)
(***************************************************************************)
LEMMA BytesFinite ==
    ASSUME NEW f \in Block
    PROVE  IsFiniteSet(Bytes(f)) /\ Cardinality(Bytes(f)) = SizeOf[f] /\ SizeOf[f] \in Nat
<1>1. PICK n \in Nat : n = SizeOf[f]
  BY StoresAssumption
<1>2. IsFiniteSet(1..n) /\ Cardinality(1..n) = n
  <2>1. /\ IsFiniteSet(1..n)
        /\ Cardinality(1..n) = IF 1 > n THEN 0 ELSE n - 1 + 1
    BY FS_Interval
  <2>2. QED
    BY <2>1
<1>3. IsFiniteSet({f}) /\ Cardinality({f}) = 1
  BY FS_Singleton
<1>4. IsFiniteSet({f} \X (1..n)) /\ Cardinality({f} \X (1..n)) = 1 * n
  BY <1>2, <1>3, FS_Product
<1>5. QED
  BY <1>1, <1>4 DEF Bytes

LEMMA TotalFinite ==
    ASSUME NEW fs \in SUBSET Block
    PROVE  IsFiniteSet(UNION {Bytes(f) : f \in fs}) /\ TotalOf(fs) \in Nat
<1>1. IsFiniteSet(fs)
  BY StoresAssumption, FS_Subset
<1> DEFINE T == {Bytes(f) : f \in fs}
           g == [f \in fs |-> Bytes(f)]
<1>2. g \in Surjection(fs, T)
  BY DEF Surjection
<1> HIDE DEF g, T
<1>3. IsFiniteSet(T)
  BY <1>1, <1>2, FS_Surjection
<1>4. \A S \in T : IsFiniteSet(S)
  BY BytesFinite DEF T
<1>5. IsFiniteSet(UNION T)
  BY <1>3, <1>4, FS_UNION
<1>6. Cardinality(UNION T) \in Nat
  BY <1>5, FS_CardinalityType
<1>7. QED
  BY <1>5, <1>6 DEF T, TotalOf

\* A block adds its size.
LEMMA TotalAdds ==
    ASSUME NEW fs \in SUBSET Block, NEW f \in Block, f \notin fs
    PROVE  TotalOf(fs \cup {f}) = TotalOf(fs) + SizeOf[f]
<1> DEFINE A == UNION {Bytes(g) : g \in fs}
           B == UNION {Bytes(g) : g \in fs \cup {f}}
<1>1. B = A \cup Bytes(f)
  OBVIOUS
<1>2. A \cap Bytes(f) = {}
  BY DEF Bytes
<1>3. IsFiniteSet(A) /\ Cardinality(A) \in Nat
  BY TotalFinite DEF TotalOf
<1>4. IsFiniteSet(Bytes(f)) /\ Cardinality(Bytes(f)) = SizeOf[f] /\ SizeOf[f] \in Nat
  BY BytesFinite
<1>5. TotalOf(fs) = Cardinality(A) /\ TotalOf(fs \cup {f}) = Cardinality(B)
  BY DEF TotalOf
<1> HIDE DEF A, B
<1>6. Cardinality(A \cup Bytes(f)) = Cardinality(A) + Cardinality(Bytes(f)) - Cardinality(A \cap Bytes(f))
  BY <1>3, <1>4, FS_Union
<1>7. Cardinality(A \cap Bytes(f)) = 0
  BY <1>2, FS_EmptySet
<1>8. Cardinality(B) = Cardinality(A) + Cardinality(Bytes(f)) - Cardinality(A \cap Bytes(f))
  BY <1>1, <1>6
<1>9. QED
  BY <1>3, <1>4, <1>5, <1>7, <1>8

LEMMA SizeType == CacheSize \in Nat /\ \A f \in Block : SizeNow(f) \in Nat
<1>1. CacheSize \in Nat
  BY TotalFinite DEF CacheSize, Cached
<1>2. QED
  BY <1>1, BytesFinite DEF SizeNow

\* A block goes.
LEMMA SizeShrinks ==
    ASSUME NEW f \in Block, Cached' = Cached \ {f}
    PROVE  CacheSize' = CacheSize - SizeNow(f)
<1>1. PICK c \in SUBSET Block : c = Cached
  BY DEF Cached
<1>2. CASE f \in c
  <2>1. (c \ {f}) \cup {f} = c
    BY <1>2
  <2>2. TotalOf(c) = TotalOf(c \ {f}) + SizeOf[f]
    <3>1. PICK d \in SUBSET Block : d = c \ {f}
      OBVIOUS
    <3>2. f \notin d
      BY <3>1
    <3>3. TotalOf(d \cup {f}) = TotalOf(d) + SizeOf[f]
      BY <3>2, TotalAdds
    <3>4. QED
      BY <2>1, <3>1, <3>3
  <2>3. TotalOf(c \ {f}) \in Nat /\ SizeOf[f] \in Nat
    BY TotalFinite, BytesFinite
  <2>4. CacheSize = TotalOf(c) /\ CacheSize' = TotalOf(c \ {f}) /\ SizeNow(f) = SizeOf[f]
    BY <1>1, <1>2 DEF CacheSize, SizeNow, TotalOf
  <2>5. QED
    BY <2>1, <2>2, <2>3, <2>4
<1>3. CASE f \notin c
  <2>1. c \ {f} = c
    BY <1>3
  <2>2. CacheSize = TotalOf(c) /\ CacheSize' = TotalOf(c) /\ SizeNow(f) = 0 /\ TotalOf(c) \in Nat
    BY <1>1, <1>3, <2>1, TotalFinite DEF CacheSize, SizeNow, TotalOf
  <2>3. QED
    BY <2>2
<1>4. QED
  BY <1>2, <1>3

\* What is not there takes no space.
LEMMA SizeMonotone ==
    ASSUME Cached' \subseteq Cached
    PROVE  CacheSize' <= CacheSize /\ CacheSize' \in Nat
<1>1. PICK c \in SUBSET Block, d \in SUBSET Block : d \subseteq c /\ c = Cached /\ d = Cached'
  BY DEF Cached
<1>2. IsFiniteSet(UNION {Bytes(f) : f \in c}) /\ TotalOf(d) \in Nat /\ TotalOf(c) \in Nat
  BY TotalFinite
<1>3. UNION {Bytes(f) : f \in d} \subseteq UNION {Bytes(f) : f \in c}
  <2>1. d \subseteq c
    BY <1>1
  <2>2. \A x : x \in UNION {Bytes(f) : f \in d} => \E f \in d : x \in Bytes(f)
    OBVIOUS
  <2>3. \A x : (\E f \in c : x \in Bytes(f)) => x \in UNION {Bytes(f) : f \in c}
    OBVIOUS
  <2>4. QED
    BY <2>1, <2>2, <2>3
<1>4. TotalOf(d) <= TotalOf(c)
  BY <1>2, <1>3, FS_Subset DEF TotalOf
<1>5. CacheSize = TotalOf(c) /\ CacheSize' = TotalOf(d)
  BY <1>1 DEF CacheSize, TotalOf
<1>6. QED
  BY <1>2, <1>4, <1>5

LEMMA RemainingType ==
    ASSUME NEW f \in Block, NEW total \in Nat
    PROVE  /\ Remaining(total, f) \in Nat
           /\ SizeNow(f) <= total => Remaining(total, f) = total - SizeNow(f)
<1>1. SizeNow(f) \in Nat /\ SizeNow(f) < Wrap /\ Wrap \in Nat
  BY SizeType, BytesFinite, StoresAssumption DEF SizeNow
<1>2. QED
  BY <1>1 DEF Remaining

(***************************************************************************)
(* The steps after the write, and that every step preserves the types.     *)
(***************************************************************************)
SInv == StoresTypeOK /\ Stages /\ Reading

LEMMA UpdateStep ==
    ASSUME StoresTypeOK, Stages, NEW w \in Writer, UpdateRoutes(w)
    PROVE  /\ writer' \in [Writer -> WriteState] /\ writer[w].stage = "routing"
           /\ \A u \in Writer \ {w} : writer'[u] = writer[u]
           /\ writer'[w].writes = writer[w].writes /\ writer'[w].makesUp \subseteq writer[w].makesUp
           /\ faults' \subseteq Writer \X (1..MaxWrites)
           /\ \/ /\ writer'[w].stage = "measuring" /\ writer'[w].file = writer[w].file
                 /\ faults' = faults
              \/ /\ writer'[w].stage = "idle" /\ faults' = faults \cup {<<w, writer[w].writes>>}
<1>1. writer[w].stage = "routing" /\ writer[w].writes \in 1..MaxWrites
  BY WriterFields DEF UpdateRoutes, Stages
<1>2. CASE FailPush(w)
  BY <1>1, <1>2, FailStep, FinishedFields
<1>3. CASE writer' = [writer EXCEPT ![w].stage = "measuring"] /\ UNCHANGED faults
  <2>1. PICK s \in WriteState : s = writer[w]
    BY WriterFields
  <2>2. PICK t : t = [s EXCEPT !.stage = "measuring"]
    OBVIOUS
  <2>3. t \in WriteState /\ t.stage = "measuring" /\ t.file = s.file /\ t.writes = s.writes
        /\ t.makesUp = s.makesUp
    BY <2>2, StageFields
  <2>4. writer' = [writer EXCEPT ![w] = t]
    BY <1>3, <2>1, <2>2
  <2>5. QED
    BY <1>1, <1>3, <2>1, <2>3, <2>4, WriterStep DEF StoresTypeOK
<1>4. QED
  BY <1>2, <1>3 DEF UpdateRoutes

LEMMA MeasureStep ==
    ASSUME StoresTypeOK, Stages, NEW w \in Writer, Measure(w)
    PROVE  /\ writer' \in [Writer -> WriteState] /\ writer[w].stage = "measuring"
           /\ \A u \in Writer \ {w} : writer'[u] = writer[u]
           /\ writer'[w].writes = writer[w].writes
           /\ writer'[w].makesUp \subseteq faults /\ faults' \subseteq faults
           /\ \/ /\ CacheSize <= CacheLimit /\ writer'[w].stage = "idle" /\ faults' = {}
              \/ /\ CacheSize > CacheLimit /\ faults' = faults
                 /\ writer'[w].stage = "sweeping" /\ writer'[w].file = writer[w].file
                 /\ writer'[w].total = CacheSize /\ writer'[w].left = {f \in Block : file[f] # NoFile}
                 /\ writer'[w].makesUp = faults
<1>1. writer[w].stage = "measuring"
  BY DEF Measure
<1>2. CASE CacheSize <= CacheLimit
  <2>1. PICK t \in WriteState : t = Finished(w)
    BY FinishedFields
  <2>2. writer' = [writer EXCEPT ![w] = t] /\ faults' = {}
    BY <1>2, <2>1 DEF Measure
  <2>3. QED
    BY <1>1, <1>2, <2>1, <2>2, WriterStep, FinishedFields
<1>3. CASE ~(CacheSize <= CacheLimit)
  <2>1. PICK s \in WriteState : s = writer[w]
    BY WriterFields
  <2>2. PICK n \in Nat, l \in SUBSET Block, m \in SUBSET (Writer \X (1..MaxWrites)) :
           n = CacheSize /\ l = {f \in Block : file[f] # NoFile} /\ m = faults
    BY SizeType DEF StoresTypeOK
  <2>3. PICK t : Sweeps(s, n, l, m, t)
    BY DEF Sweeps
  <2>4. t \in WriteState /\ t.stage = "sweeping" /\ t.file = s.file /\ t.writes = s.writes
        /\ t.total = n /\ t.left = l /\ t.makesUp = m
    BY <2>3, SweepFields
  <2>5. writer' = [writer EXCEPT ![w] = t] /\ faults' = faults
    BY <1>3, <2>1, <2>2, <2>3 DEF Measure, Sweeps
  <2>6. CacheSize > CacheLimit
    BY <1>3, SizeType, StoresAssumption
  <2>7. QED
    BY <1>1, <2>1, <2>2, <2>4, <2>5, <2>6, WriterStep
<1>4. QED
  BY <1>2, <1>3

LEMMA SweepStep ==
    ASSUME StoresTypeOK, Stages, NEW w \in Writer, NEW f \in Block, Sweep(w, f)
    PROVE  /\ writer' \in [Writer -> WriteState] /\ writer[w].stage = "sweeping" /\ f \in writer[w].left
           /\ writer'[w].writes = writer[w].writes /\ writer'[w].makesUp \subseteq writer[w].makesUp
           /\ faults' \subseteq Writer \X (1..MaxWrites)
           /\ \/ /\ \A u \in Writer \ {w} : writer'[u] = writer[u]
                 /\ writer'[w].stage = "idle" /\ faults' = faults \cup {<<w, writer[w].writes>>}
                 /\ UNCHANGED <<file, fresh, reader>>
              \/ /\ file[f] # NoFile /\ Vanish(f) /\ Disturb({f})
                 /\ \A u \in Writer \ {w} : writer'[u] = Unlinked(f)[u]
                 /\ \/ /\ writer'[w].stage = "idle" /\ faults' = faults \ writer[w].makesUp
                       /\ \/ Remaining(writer[w].total, f) <= CacheLimit
                          \/ writer[w].left = {f}
                    \/ /\ writer'[w].stage = "sweeping" /\ writer'[w].file = writer[w].file
                       /\ faults' = faults /\ writer'[w].makesUp = writer[w].makesUp
                       /\ writer'[w].total = Remaining(writer[w].total, f)
                       /\ writer'[w].total > CacheLimit
                       /\ writer'[w].left = writer[w].left \ {f}
<1>1. writer[w].stage = "sweeping" /\ f \in writer[w].left /\ writer[w].writes \in 1..MaxWrites
  BY WriterFields DEF Sweep, Stages
<1>2. CASE FailPush(w) /\ UNCHANGED <<file, fresh, reader>>
  BY <1>1, <1>2, FailStep, FinishedFields
<1>3. CASE ~(FailPush(w) /\ UNCHANGED <<file, fresh, reader>>)
  <2>1. file[f] # NoFile /\ Vanish(f) /\ Disturb({f})
    BY <1>3 DEF Sweep
  <2>2. PICK k \in [Writer -> WriteState] : k = Unlinked(f)
    BY UnlinkedStep
  <2>3. PICK s \in WriteState : s = writer[w] /\ k[w] = s
    <3>1. w \notin WritersOf(f)
      BY <1>1 DEF WritersOf
    <3>2. writer[w] \in WriteState
      BY WriterFields
    <3>3. Unlinked(f)[w] = writer[w]
      BY <3>1 DEF Unlinked
    <3>4. QED
      BY <2>2, <3>2, <3>3
  <2>4. PICK n \in Nat : n = Remaining(writer[w].total, f)
    BY RemainingType, WriterFields
  <2>5. CASE n <= CacheLimit \/ writer[w].left = {f}
    <3>1. writer' = [Unlinked(f) EXCEPT ![w] = Finished(w)] /\ faults' = faults \ writer[w].makesUp
      BY <1>3, <2>4, <2>5 DEF Sweep, Enough
    <3>2. PICK t \in WriteState : t = Finished(w)
      BY FinishedFields
    <3>3. writer' = [k EXCEPT ![w] = t]
      BY <2>2, <3>1, <3>2
    <3>4. writer' \in [Writer -> WriteState] /\ writer'[w] = t /\ \A u \in Writer \ {w} : writer'[u] = k[u]
      BY <3>3
    <3>5. t.stage = "idle" /\ t.writes = writer[w].writes /\ t.makesUp = {}
      BY <3>2, FinishedFields
    <3>6. faults' \subseteq Writer \X (1..MaxWrites)
      BY <3>1 DEF StoresTypeOK
    <3>7. QED
      BY <1>1, <2>1, <2>2, <2>4, <2>5, <3>1, <3>4, <3>5, <3>6
  <2>6. CASE ~(n <= CacheLimit \/ writer[w].left = {f})
    <3>1. writer' = [Unlinked(f) EXCEPT ![w].total = n, ![w].left = @ \ {f}] /\ faults' = faults
      BY <1>3, <2>4, <2>6 DEF Sweep, Enough
    <3>2. n > CacheLimit /\ n \in Nat
      BY <2>6, StoresAssumption
    <3>3. PICK l \in SUBSET Block : l = writer[w].left \ {f}
      BY WriterFields
    <3>4. PICK t : Summed(s, n, l, t)
      BY DEF Summed
    <3>5. /\ t \in WriteState /\ t.stage = s.stage /\ t.file = s.file /\ t.writes = s.writes
          /\ t.total = n /\ t.left = l /\ t.makesUp = s.makesUp
      BY <3>2, <3>4, SumFields
    <3>6. writer' = [k EXCEPT ![w] = t]
      BY <2>2, <2>3, <3>1, <3>3, <3>4 DEF Summed
    <3>7. writer' \in [Writer -> WriteState] /\ writer'[w] = t /\ \A u \in Writer \ {w} : writer'[u] = k[u]
      BY <3>5, <3>6
    <3>8. faults' \subseteq Writer \X (1..MaxWrites)
      BY <3>1 DEF StoresTypeOK
    <3>9. QED
      BY <1>1, <2>1, <2>2, <2>3, <2>4, <3>1, <3>2, <3>3, <3>5, <3>7, <3>8
  <2>7. QED
    BY <2>5, <2>6
<1>4. QED
  BY <1>2, <1>3

LEMMA VanishStep ==
    ASSUME StoresTypeOK, NEW f \in File, Vanish(f)
    PROVE  /\ file' \in [File -> FileContents \cup {Torn}] /\ file'[f] = NoFile
           /\ \A g \in File : g # f => file'[g] = file[g]
BY DEF Vanish, StoresTypeOK, FileContents

\* What the readers are at does not change.
LEMMA ReadingKept ==
    ASSUME StoresTypeOK, Reading, NEW files, files \subseteq File, Disturb(files)
    PROVE  Reading' /\ reader' \in [Reader -> ReadState] /\ fresh' \in [File -> FileContents]
BY DisturbStep DEF Reading

LEMMA InitSInv == StoresInit => SInv
<1> SUFFICES ASSUME StoresInit PROVE SInv
  OBVIOUS
<1>1. NoWrite \in WriteState /\ NoWrite.stage = "idle"
  BY StoresAssumption DEF NoWrite, WriteState
<1>2. NoRead \in ReadState /\ NoRead.stage = "idle"
  BY DEF NoRead, ReadState
<1>3. StoresTypeOK
  BY <1>1, <1>2 DEF StoresInit, StoresTypeOK, NoPurge
<1>4. Stages /\ Reading
  BY <1>1, <1>2 DEF StoresInit, Stages, Reading
<1>5. QED
  BY <1>3, <1>4 DEF SInv

LEMMA BeginWriteTypes ==
    ASSUME SInv, NEW w \in Writer, NEW f \in File, NEW v \in Payload \cup Block, BeginWrite(w, f, v)
    PROVE  SInv'
<1> USE DEF SInv
<1>1. PICK files \in SUBSET File : files = {f}
  OBVIOUS
<1>2. Disturb(files)
  BY <1>1 DEF BeginWrite
<1>3. Reading' /\ reader' \in [Reader -> ReadState] /\ fresh' \in [File -> FileContents]
  BY <1>2, ReadingKept
<1>4. writer' \in [Writer -> WriteState]
  BY BeginStep
<1>5. StoresTypeOK'
  BY <1>3, <1>4 DEF BeginWrite, StoresTypeOK, FileContents
<1>6. Stages'
  <2>1. /\ writer'[w].stage = "writing" /\ writer'[w].file = f
        /\ writer'[w].writes = writer[w].writes + 1 /\ writer[w].writes \in Nat
    BY BeginStep, WriterFields
  <2>2. writer'[w].writes # 0
    BY <2>1
  <2>3. \A u \in Writer \ {w} :
           /\ writer'[u].stage = writer[u].stage /\ writer'[u].file = writer[u].file
           /\ writer'[u].writes = writer[u].writes /\ writer'[u].total = writer[u].total
    BY BeginStep
  <2>4. QED
    BY <2>1, <2>2, <2>3 DEF Stages
<1>7. QED
  BY <1>3, <1>5, <1>6

LEMMA FinishWriteTypes ==
    ASSUME SInv, NEW w \in Writer, FinishWrite(w)
    PROVE  SInv'
<1> USE DEF SInv
<1>1. StoresTypeOK'
  <2>1. /\ file' \in [File -> FileContents \cup {Torn}] /\ fresh' \in [File -> FileContents]
        /\ old' \subseteq TagFile /\ writer' \in [Writer -> WriteState]
    BY FinishStep
  <2>2. QED
    BY <2>1 DEF FinishWrite, StoresTypeOK, FileContents
<1>2. Stages'
  <2>1. /\ \A u \in Writer \ {w} : writer'[u] = writer[u]
        /\ writer'[w].writes = writer[w].writes
        /\ writer'[w].stage \in {"idle", "routing"}
        /\ writer[w].stage = "writing" /\ writer[w].file \in File
    BY FinishStep
  <2>2. writer'[w].stage = "routing" => writer'[w].file = writer[w].file /\ writer[w].file \in Block
    BY FinishStep, FinishedFields, OneKind
  <2>3. writer[w].writes # 0
    BY <2>1 DEF Stages
  <2>4. QED
    BY <2>1, <2>2, <2>3 DEF Stages
<1>3. Reading'
  BY DEF FinishWrite, Reading
<1>4. QED
  BY <1>1, <1>2, <1>3

LEMMA UpdateTypes ==
    ASSUME SInv, NEW w \in Writer, UpdateRoutes(w)
    PROVE  SInv'
<1> USE DEF SInv
<1>1. /\ writer' \in [Writer -> WriteState] /\ faults' \subseteq Writer \X (1..MaxWrites)
      /\ writer[w].stage = "routing" /\ writer'[w].writes = writer[w].writes
      /\ \A u \in Writer \ {w} : writer'[u] = writer[u]
      /\ \/ writer'[w].stage = "measuring" /\ writer'[w].file = writer[w].file
         \/ writer'[w].stage = "idle"
  BY UpdateStep
<1>2. StoresTypeOK'
  BY <1>1 DEF UpdateRoutes, StoresTypeOK
<1>3. Stages'
  BY <1>1 DEF Stages
<1>4. Reading'
  BY DEF UpdateRoutes, Reading
<1>5. QED
  BY <1>2, <1>3, <1>4

LEMMA MeasureTypes ==
    ASSUME SInv, NEW w \in Writer, Measure(w)
    PROVE  SInv'
<1> USE DEF SInv
<1>1. /\ writer' \in [Writer -> WriteState] /\ faults' \subseteq faults
      /\ writer[w].stage = "measuring" /\ writer'[w].writes = writer[w].writes
      /\ \A u \in Writer \ {w} : writer'[u] = writer[u]
      /\ \/ /\ writer'[w].stage = "sweeping" /\ writer'[w].file = writer[w].file
            /\ writer'[w].total > CacheLimit
         \/ writer'[w].stage = "idle"
  BY MeasureStep
<1>2. StoresTypeOK'
  BY <1>1 DEF Measure, StoresTypeOK
<1>3. Stages'
  BY <1>1 DEF Stages
<1>4. Reading'
  BY DEF Measure, Reading
<1>5. QED
  BY <1>2, <1>3, <1>4

LEMMA SweepTypes ==
    ASSUME SInv, NEW w \in Writer, NEW f \in Block, Sweep(w, f)
    PROVE  SInv'
<1> USE DEF SInv
<1>1. /\ writer' \in [Writer -> WriteState] /\ faults' \subseteq Writer \X (1..MaxWrites)
      /\ writer[w].stage = "sweeping" /\ writer'[w].writes = writer[w].writes
  BY SweepStep
<1>2. CASE /\ \A u \in Writer \ {w} : writer'[u] = writer[u]
           /\ writer'[w].stage = "idle" /\ UNCHANGED <<file, fresh, reader>>
  <2>1. StoresTypeOK'
    BY <1>1, <1>2 DEF Sweep, StoresTypeOK
  <2>2. QED
    BY <1>1, <1>2, <2>1 DEF Stages, Reading
<1>3. CASE ~(/\ \A u \in Writer \ {w} : writer'[u] = writer[u]
             /\ writer'[w].stage = "idle" /\ UNCHANGED <<file, fresh, reader>>)
  <2>1. /\ Vanish(f) /\ Disturb({f})
        /\ \A u \in Writer \ {w} : writer'[u] = Unlinked(f)[u]
        /\ \/ writer'[w].stage = "idle"
           \/ /\ writer'[w].stage = "sweeping" /\ writer'[w].file = writer[w].file
              /\ writer'[w].total > CacheLimit
    BY <1>3, SweepStep
  <2>2. f \in File
    BY DEF File
  <2>3. PICK files \in SUBSET File : files = {f}
    BY <2>2
  <2>4. Reading' /\ reader' \in [Reader -> ReadState] /\ fresh' \in [File -> FileContents]
    BY <2>1, <2>3, ReadingKept
  <2>5. file' \in [File -> FileContents \cup {Torn}]
    BY <2>1, <2>2, VanishStep
  <2>6. StoresTypeOK'
    BY <1>1, <2>4, <2>5 DEF Sweep, StoresTypeOK, FileContents
  <2>7. ASSUME NEW u \in Writer \ {w}
        PROVE  /\ writer'[u].stage = writer[u].stage /\ writer'[u].file = writer[u].file
               /\ writer'[u].writes = writer[u].writes /\ writer'[u].total = writer[u].total
    <3>1. /\ Unlinked(f)[u].stage = writer[u].stage /\ Unlinked(f)[u].file = writer[u].file
          /\ Unlinked(f)[u].writes = writer[u].writes /\ Unlinked(f)[u].total = writer[u].total
      BY UnlinkedStep
    <3>2. QED
      BY <2>1, <3>1
  <2>8. Stages'
    BY <1>1, <2>1, <2>7 DEF Stages
  <2>9. QED
    BY <2>4, <2>6, <2>8
<1>4. QED
  BY <1>2, <1>3

LEMMA BeginReadTypes ==
    ASSUME SInv, NEW r \in Reader, NEW f \in File, BeginRead(r, f)
    PROVE  SInv'
<1> USE DEF SInv
<1>1. /\ reader' \in [Reader -> ReadState] /\ reader'[r].file = f
      /\ \A q \in Reader \ {r} : reader'[q] = reader[q]
  BY BeginReadStep
<1>2. StoresTypeOK'
  BY <1>1 DEF BeginRead, StoresTypeOK
<1>3. Stages' /\ Reading'
  BY <1>1 DEF BeginRead, Stages, Reading
<1>4. QED
  BY <1>2, <1>3

LEMMA FinishReadTypes ==
    ASSUME SInv, NEW r \in Reader, FinishRead(r)
    PROVE  SInv'
<1> USE DEF SInv
<1>1. /\ reader' \in [Reader -> ReadState] /\ reader'[r].file = reader[r].file
      /\ reader[r].stage = "reading"
      /\ \A q \in Reader \ {r} : reader'[q] = reader[q]
  <2>1. reader[r].stage = "reading" /\ reader[r].file \in File
    BY DEF FinishRead, Reading
  <2>2. QED
    BY <2>1, FinishReadStep
<1>2. StoresTypeOK'
  BY <1>1 DEF FinishRead, StoresTypeOK
<1>3. Stages' /\ Reading'
  BY <1>1 DEF FinishRead, Stages, Reading
<1>4. QED
  BY <1>2, <1>3

LEMMA EndReadTypes ==
    ASSUME SInv, NEW r \in Reader, EndRead(r)
    PROVE  SInv'
<1> USE DEF SInv
<1>0. NoRead \in ReadState /\ NoRead.stage = "idle"
  BY DEF NoRead, ReadState
<1>1. PICK t \in ReadState : t = NoRead /\ t.stage = "idle"
  BY <1>0
<1>2. reader' = [reader EXCEPT ![r] = t]
  BY <1>1 DEF EndRead
<1>3. /\ reader' \in [Reader -> ReadState] /\ reader'[r] = t
      /\ \A q \in Reader \ {r} : reader'[q] = reader[q]
  BY <1>2, ReaderStep
<1>4. StoresTypeOK'
  BY <1>3 DEF EndRead, StoresTypeOK
<1>5. Stages' /\ Reading'
  BY <1>1, <1>3 DEF EndRead, Stages, Reading
<1>6. QED
  BY <1>4, <1>5

LEMMA AgeTypes ==
    ASSUME SInv, NEW f \in TagFile, Age(f)
    PROVE  SInv'
<1> USE DEF SInv
<1>1. PICK files \in SUBSET File : files = {f}
  BY DEF File
<1>2. Disturb(files)
  BY <1>1 DEF Age
<1>3. Reading' /\ reader' \in [Reader -> ReadState] /\ fresh' \in [File -> FileContents]
  BY <1>2, ReadingKept
<1>4. StoresTypeOK'
  BY <1>3 DEF Age, StoresTypeOK, FileContents
<1>5. Stages'
  BY DEF Age, Stages
<1>6. QED
  BY <1>3, <1>4, <1>5

LEMMA PurgeTypes ==
    ASSUME SInv, StartPurge \/ \E f \in TagFile : LookAt(f)
    PROVE  SInv'
<1> USE DEF SInv
<1>1. purge' \in [left : SUBSET TagFile, doomed : TagFile \cup {NoFile}]
  <2>1. CASE StartPurge
    BY <2>1 DEF StartPurge, NoPurge, StoresTypeOK
  <2>2. ASSUME NEW f \in TagFile, LookAt(f)
        PROVE  purge' \in [left : SUBSET TagFile, doomed : TagFile \cup {NoFile}]
    BY <2>2 DEF LookAt, StoresTypeOK
  <2>3. QED
    BY <2>1, <2>2
<1>2. UNCHANGED <<file, old, writer, reader, faults, fresh>>
  BY DEF StartPurge, LookAt
<1>3. StoresTypeOK'
  BY <1>1, <1>2 DEF StoresTypeOK
<1>4. QED
  BY <1>2, <1>3 DEF Stages, Reading

LEMMA RemoveTypes ==
    ASSUME SInv, RemoveDoomed
    PROVE  SInv'
<1> USE DEF SInv
<1>1. PICK f \in TagFile : f = purge.doomed
  BY DEF RemoveDoomed, StoresTypeOK
<1>2. f \in File
  BY DEF File
<1>3. Vanish(f) /\ writer' = Unlinked(f)
  BY <1>1 DEF RemoveDoomed
<1>4. file' \in [File -> FileContents \cup {Torn}]
  BY <1>2, <1>3, VanishStep
<1>5. ASSUME NEW u \in Writer
      PROVE  /\ writer' \in [Writer -> WriteState]
             /\ writer'[u].stage = writer[u].stage /\ writer'[u].file = writer[u].file
             /\ writer'[u].writes = writer[u].writes /\ writer'[u].total = writer[u].total
  <2>1. /\ Unlinked(f) \in [Writer -> WriteState]
        /\ Unlinked(f)[u].stage = writer[u].stage /\ Unlinked(f)[u].file = writer[u].file
        /\ Unlinked(f)[u].writes = writer[u].writes /\ Unlinked(f)[u].total = writer[u].total
    BY UnlinkedStep
  <2>2. QED
    BY <1>3, <2>1
<1>6. writer' \in [Writer -> WriteState]
  <2>1. CASE Writer = {}
    BY <1>3, <2>1 DEF Unlinked
  <2>2. QED
    BY <1>5, <2>1
<1>7. StoresTypeOK'
  BY <1>4, <1>6 DEF RemoveDoomed, StoresTypeOK, FileContents
<1>8. Stages' /\ Reading'
  BY <1>5 DEF RemoveDoomed, Stages, Reading
<1>9. QED
  BY <1>7, <1>8

\* Every step of the stores keeps the types and what pushes and pulls are about.
LEMMA StoresStepTypes == SInv /\ [StoresNext]_storeVars => SInv'
<1> SUFFICES ASSUME SInv, [StoresNext]_storeVars PROVE SInv'
  OBVIOUS
<1>1. ASSUME NEW w \in Writer, NEW f \in Block, BeginWrite(w, f, f) PROVE SInv'
  BY <1>1, BeginWriteTypes DEF File
<1>2. ASSUME NEW w \in Writer, NEW f \in TagFile, NEW v \in Payload, BeginWrite(w, f, v) PROVE SInv'
  BY <1>2, BeginWriteTypes DEF File
<1>3. ASSUME NEW w \in Writer, FinishWrite(w) \/ UpdateRoutes(w) \/ Measure(w) PROVE SInv'
  BY <1>3, FinishWriteTypes, UpdateTypes, MeasureTypes
<1>4. ASSUME NEW w \in Writer, NEW f \in Block, Sweep(w, f) PROVE SInv'
  BY <1>4, SweepTypes
<1>5. ASSUME NEW r \in Reader, NEW f \in File, BeginRead(r, f) PROVE SInv'
  BY <1>5, BeginReadTypes
<1>6. ASSUME NEW r \in Reader, FinishRead(r) \/ EndRead(r) PROVE SInv'
  BY <1>6, FinishReadTypes, EndReadTypes
<1>7. ASSUME NEW f \in TagFile, Age(f) PROVE SInv'
  BY <1>7, AgeTypes
<1>8. ASSUME StartPurge \/ \E f \in TagFile : LookAt(f) PROVE SInv'
  BY <1>8, PurgeTypes
<1>9. ASSUME RemoveDoomed PROVE SInv'
  BY <1>9, RemoveTypes
<1>10. CASE UNCHANGED storeVars
  BY <1>10 DEF storeVars, SInv, StoresTypeOK, Stages, Reading
<1>11. QED
  BY <1>1, <1>2, <1>3, <1>4, <1>5, <1>6, <1>7, <1>8, <1>9, <1>10 DEF StoresNext

\* The stores' variables keep their types (IdentityRegistry, LocalRegistry, the purge).
THEOREM StoresTypeCorrect == StoresSpec => []StoresTypeOK
<1>1. SInv => StoresTypeOK
  BY DEF SInv
<1>2. QED
  BY <1>1, InitSInv, StoresStepTypes, PTL DEF StoresSpec

(***************************************************************************)
(* Quiet pulls.                                                            *)
(***************************************************************************)
QInv == SInv /\ Known /\ Mixing /\ Due

LEMMA InitQInv == StoresInit => QInv
<1> SUFFICES ASSUME StoresInit PROVE QInv
  OBVIOUS
<1>1. SInv
  BY InitSInv
<1>2. NoWrite.stage = "idle" /\ NoRead.due = NoFile
  BY DEF NoWrite, NoRead
<1>3. Known /\ Mixing /\ Due
  BY <1>2 DEF StoresInit, Known, Mixing, Due, Linked
<1>4. QED
  BY <1>1, <1>3 DEF QInv

\* What is known of other files than f stays known, when f is written anew, evicted,
\* or grows old.
LEMMA DueKept ==
    ASSUME StoresTypeOK, Reading, Due, NEW files, files \subseteq File, Disturb(files)
    PROVE  Due'
<1>1. ASSUME NEW r \in Reader, reader'[r].due # NoFile
      PROVE  /\ reader'[r].stage = "reading" => fresh'[reader'[r].file] = reader'[r].due
             /\ reader'[r].stage = "done" => reader'[r].got = reader'[r].due
  <2>1. reader'[r] = reader[r] /\ reader[r].file \notin files
    BY <1>1, DisturbStep
  <2>2. reader[r].stage = "reading" => fresh[reader[r].file] = reader[r].due
    BY <1>1, <2>1 DEF Due
  <2>3. CASE reader[r].file \in File
    BY <1>1, <2>1, <2>2, <2>3, DisturbStep DEF Due
  <2>4. CASE reader[r].file \notin File
    <3>1. reader[r].stage = "idle"
      BY <2>4 DEF Reading
    <3>2. QED
      BY <2>1, <3>1
  <2>5. QED
    BY <2>3, <2>4
<1>2. QED
  BY <1>1 DEF Due

LEMMA BeginWriteKnown ==
    ASSUME QInv, NEW w \in Writer, NEW f \in File, NEW v \in Payload \cup Block, BeginWrite(w, f, v)
    PROVE  (Known /\ Mixing /\ Due)'
<1> USE DEF QInv, SInv
<1>1. PICK files \in SUBSET File : files = {f}
  OBVIOUS
<1>2. Disturb(files)
  BY <1>1 DEF BeginWrite
<1>3. Due'
  BY <1>2, DueKept
<1>4. /\ \A g \in File : /\ g = f => fresh'[g] = NoFile
                         /\ g # f => fresh'[g] = fresh[g] /\ file'[g] = file[g]
      /\ old' \subseteq old /\ purge' = purge
  <2>1. \A g \in File : /\ g = f => fresh'[g] = NoFile
                        /\ g # f => fresh'[g] = fresh[g]
    BY <1>1, <1>2, DisturbStep
  <2>2. file' = [file EXCEPT ![f] = Torn] /\ old' \subseteq old /\ purge' = purge
    BY DEF BeginWrite
  <2>3. QED
    BY <2>1, <2>2 DEF StoresTypeOK
<1>5. /\ writer'[w].stage = "writing" /\ writer'[w].file = f
      /\ writer'[w].mixed = (WritersOf(f) # {})
      /\ \A u \in Writer \ {w} :
            /\ writer'[u].stage = writer[u].stage /\ writer'[u].file = writer[u].file
            /\ writer'[u].unlinked = writer[u].unlinked
            /\ u \in WritersOf(f) => writer'[u].mixed
            /\ writer[u].mixed => writer'[u].mixed
  BY BeginStep
<1>6. Known'
  BY <1>4, <1>5 DEF Known, Linked
<1>7. ASSUME NEW a \in Writer, NEW b \in Writer, a # b,
             writer'[a].stage = "writing" /\ ~writer'[a].unlinked,
             writer'[b].stage = "writing" /\ ~writer'[b].unlinked,
             writer'[a].file = writer'[b].file
      PROVE  writer'[a].mixed
  <2>1. CASE a = w
    <3>1. b \in WritersOf(f)
      BY <1>5, <1>7, <2>1 DEF WritersOf
    <3>2. QED
      BY <1>5, <2>1, <3>1
  <2>2. CASE a # w /\ b = w
    <3>1. a \in WritersOf(f)
      BY <1>5, <1>7, <2>2 DEF WritersOf
    <3>2. QED
      BY <1>5, <2>2, <3>1
  <2>3. CASE a # w /\ b # w
    <3>1. writer[a].mixed
      BY <1>5, <1>7, <2>3 DEF Mixing, Linked
    <3>2. QED
      BY <1>5, <2>3, <3>1
  <2>4. QED
    BY <2>1, <2>2, <2>3
<1>8. Mixing'
  BY <1>7 DEF Mixing, Linked
<1>9. QED
  BY <1>3, <1>6, <1>8

LEMMA FinishWriteKnown ==
    ASSUME QInv, NEW w \in Writer, FinishWrite(w)
    PROVE  (Known /\ Mixing /\ Due)'
<1> USE DEF QInv, SInv
<1>1. PICK f \in File : writer[w].file = f
  BY FinishStep
<1>2. /\ writer[w].stage = "writing" /\ writer'[w].stage # "writing"
      /\ \A u \in Writer \ {w} : writer'[u] = writer[u]
      /\ old' \subseteq old /\ purge' = purge /\ reader' = reader
      /\ \A g \in File : g # f => file'[g] = file[g] /\ fresh'[g] = fresh[g]
  BY <1>1, FinishStep DEF FinishWrite
<1>3. Mixing'
  BY <1>2 DEF Mixing, Linked
<1>4. CASE writer[w].unlinked
  <2>1. UNCHANGED <<file, fresh>>
    BY <1>4, FinishStep
  <2>2. QED
    BY <1>2, <1>3, <2>1 DEF Known, Due, Linked
<1>5. CASE ~writer[w].unlinked
  <2>1. fresh[f] = NoFile
    BY <1>1, <1>2, <1>5 DEF Known, Linked
  <2>2. /\ f \notin old'
        /\ writer[w].mixed \/ purge.doomed = f => fresh' = fresh
        /\ ~writer[w].mixed => file'[f] = writer[w].value
        /\ ~writer[w].mixed /\ purge.doomed # f => fresh'[f] = writer[w].value
    BY <1>1, <1>5, FinishStep
  <2>3. ASSUME fresh'[f] # NoFile
        PROVE  /\ file'[f] = fresh'[f] /\ f \notin old' /\ purge'.doomed # f
               /\ \A u \in Writer : ~(/\ writer'[u].stage = "writing" /\ ~writer'[u].unlinked
                                      /\ writer'[u].file = f)
    <3>1. ~writer[w].mixed /\ purge.doomed # f
      BY <2>1, <2>2, <2>3
    <3>2. \A u \in Writer \ {w} : ~(Linked(u) /\ writer[u].file = f)
      BY <1>1, <1>2, <1>5, <3>1 DEF Mixing, Linked
    <3>3. QED
      BY <1>2, <2>2, <3>1, <3>2 DEF Linked
  <2>4. ASSUME NEW g \in File, fresh'[g] # NoFile, g # f
        PROVE  /\ file'[g] = fresh'[g] /\ g \notin old' /\ purge'.doomed # g
               /\ \A u \in Writer : ~(/\ writer'[u].stage = "writing" /\ ~writer'[u].unlinked
                                      /\ writer'[u].file = g)
    BY <1>2, <2>4 DEF Known, Linked
  <2>5. Known'
    BY <2>3, <2>4 DEF Known, Linked
  <2>6. ASSUME NEW r \in Reader, reader[r].due # NoFile
        PROVE  /\ reader[r].stage = "reading" => fresh'[reader[r].file] = reader[r].due
               /\ reader[r].stage = "done" => reader[r].got = reader[r].due
    <3>1. CASE reader[r].stage = "reading"
      <4>1. reader[r].file \in File /\ fresh[reader[r].file] = reader[r].due
        BY <2>6, <3>1 DEF Reading, Due
      <4>2. reader[r].file # f
        BY <2>1, <2>6, <4>1
      <4>3. QED
        BY <1>2, <3>1, <4>1, <4>2
    <3>2. CASE reader[r].stage # "reading"
      BY <2>6, <3>2 DEF Due
    <3>3. QED
      BY <3>1, <3>2
  <2>7. Due'
    BY <1>2, <2>6 DEF Due
  <2>8. QED
    BY <1>3, <2>5, <2>7
<1>6. QED
  BY <1>4, <1>5

\* A push that goes on after its write writes no file.
LEMMA WriterKnown ==
    ASSUME QInv, NEW w \in Writer, writer'[w].stage # "writing",
           \A u \in Writer \ {w} : writer'[u] = writer[u],
           UNCHANGED <<file, old, reader, purge, fresh>>
    PROVE  (Known /\ Mixing /\ Due)'
BY DEF QInv, Known, Mixing, Due, Linked

\* A file is removed.
LEMMA UnlinkKnown ==
    ASSUME QInv, NEW f \in File, NEW W \in SUBSET Writer,
           \A u \in Writer \ W : writer'[u] = Unlinked(f)[u],
           \A w \in W : writer'[w].stage # "writing",
           fresh'[f] = NoFile, \A g \in File : g # f => fresh'[g] = fresh[g],
           Vanish(f), old' \subseteq old, purge'.doomed \in {purge.doomed, NoFile}
    PROVE  (Known /\ Mixing)'
<1> USE DEF QInv, SInv
<1>1. \A g \in File : g # f => file'[g] = file[g]
  BY VanishStep
<1>2. ASSUME NEW u \in Writer, writer'[u].stage = "writing", ~writer'[u].unlinked
      PROVE  /\ writer[u].stage = "writing" /\ ~writer[u].unlinked
             /\ writer'[u].file = writer[u].file /\ writer'[u].mixed = writer[u].mixed
  <2>1. PICK x \in Writer : x = u
    OBVIOUS
  <2>2. /\ Unlinked(f)[x].stage = writer[x].stage /\ Unlinked(f)[x].file = writer[x].file
        /\ Unlinked(f)[x].mixed = writer[x].mixed
        /\ ~Unlinked(f)[x].unlinked => ~writer[x].unlinked
    BY UnlinkedStep
  <2>3. writer'[u] = Unlinked(f)[x]
    BY <1>2, <2>1
  <2>4. QED
    BY <1>2, <2>1, <2>2, <2>3
<1>3. Mixing'
  BY <1>2 DEF Mixing, Linked
<1>4. ASSUME NEW g \in File, fresh'[g] # NoFile
      PROVE  /\ file'[g] = fresh'[g] /\ g \notin old' /\ purge'.doomed # g
             /\ \A u \in Writer : ~(/\ writer'[u].stage = "writing" /\ ~writer'[u].unlinked
                                    /\ writer'[u].file = g)
  <2>1. g # f /\ fresh[g] # NoFile /\ fresh'[g] = fresh[g] /\ file'[g] = file[g] /\ g # NoFile
    BY <1>1, <1>4, StoresAssumption
  <2>2. QED
    BY <1>2, <2>1 DEF Known, Linked
<1>5. Known'
  BY <1>4 DEF Known, Linked
<1>6. QED
  BY <1>3, <1>5

LEMMA SweepKnown ==
    ASSUME QInv, NEW w \in Writer, NEW f \in Block, Sweep(w, f)
    PROVE  (Known /\ Mixing /\ Due)'
<1> USE DEF QInv, SInv
<1>1. old' = old /\ purge' = purge
  BY DEF Sweep
<1>2. CASE /\ \A u \in Writer \ {w} : writer'[u] = writer[u]
           /\ writer'[w].stage = "idle" /\ UNCHANGED <<file, fresh, reader>>
  BY <1>1, <1>2, WriterKnown
<1>3. CASE ~(/\ \A u \in Writer \ {w} : writer'[u] = writer[u]
             /\ writer'[w].stage = "idle" /\ UNCHANGED <<file, fresh, reader>>)
  <2>1. /\ Vanish(f) /\ Disturb({f})
        /\ \A u \in Writer \ {w} : writer'[u] = Unlinked(f)[u]
        /\ writer'[w].stage # "writing"
    BY <1>3, SweepStep
  <2>2. f \in File
    BY DEF File
  <2>3. PICK files \in SUBSET File : files = {f}
    BY <2>2
  <2>4. Due'
    BY <2>1, <2>3, DueKept
  <2>5. fresh'[f] = NoFile /\ \A g \in File : g # f => fresh'[g] = fresh[g]
    BY <2>1, <2>2, <2>3, DisturbStep
  <2>6. PICK W \in SUBSET Writer : W = {w}
    OBVIOUS
  <2>7. (Known /\ Mixing)'
    BY <1>1, <2>1, <2>2, <2>5, <2>6, UnlinkKnown
  <2>8. QED
    BY <2>4, <2>7
<1>4. QED
  BY <1>2, <1>3

LEMMA RemoveKnown ==
    ASSUME QInv, RemoveDoomed
    PROVE  (Known /\ Mixing /\ Due)'
<1> USE DEF QInv, SInv
<1>1. PICK f \in File : f = purge.doomed
  BY DEF RemoveDoomed, StoresTypeOK, File
<1>2. /\ Vanish(f) /\ writer' = Unlinked(f) /\ old' \subseteq old /\ purge'.doomed = NoFile
      /\ reader' = reader /\ fresh' = fresh
  BY <1>1 DEF RemoveDoomed, StoresTypeOK
<1>3. fresh[f] = NoFile
  BY <1>1 DEF Known
<1>4. PICK W \in SUBSET Writer : W = {}
  OBVIOUS
<1>5. (Known /\ Mixing)'
  BY <1>2, <1>3, <1>4, UnlinkKnown
<1>6. Due'
  BY <1>2 DEF Due
<1>7. QED
  BY <1>5, <1>6

LEMMA BeginReadKnown ==
    ASSUME QInv, NEW r \in Reader, NEW f \in File, BeginRead(r, f)
    PROVE  (Known /\ Mixing /\ Due)'
<1> USE DEF QInv, SInv
<1>1. /\ \A q \in Reader \ {r} : reader'[q] = reader[q]
      /\ reader'[r].file = f /\ reader'[r].due = fresh[f]
      /\ file[f] = NoFile => reader'[r].stage = "done"
      /\ file[f] # NoFile => reader'[r].stage = "reading"
      /\ reader'[r].got = NoFile
  BY BeginReadStep
<1>2. UNCHANGED <<file, old, writer, purge, fresh>>
  BY DEF BeginRead
<1>3. fresh[f] # NoFile => file[f] = fresh[f]
  BY DEF Known
<1>4. Due'
  BY <1>1, <1>2, <1>3 DEF Due
<1>5. QED
  BY <1>2, <1>4 DEF Known, Mixing, Linked

LEMMA FinishReadKnown ==
    ASSUME QInv, NEW r \in Reader, FinishRead(r)
    PROVE  (Known /\ Mixing /\ Due)'
<1> USE DEF QInv, SInv
<1>0. reader[r].stage = "reading" /\ reader[r].file \in File
  BY DEF FinishRead, Reading
<1>1. /\ \A q \in Reader \ {r} : reader'[q] = reader[q]
      /\ reader'[r].stage = "done" /\ reader'[r].due = reader[r].due
      /\ reader'[r].got = file[reader[r].file]
  BY <1>0, FinishReadStep
<1>2. UNCHANGED <<file, old, writer, purge, fresh>>
  BY DEF FinishRead
<1>3. reader[r].due # NoFile => file[reader[r].file] = reader[r].due
  BY <1>0 DEF Known, Due
<1>4. Due'
  BY <1>1, <1>2, <1>3 DEF Due
<1>5. QED
  BY <1>2, <1>4 DEF Known, Mixing, Linked

LEMMA EndReadKnown ==
    ASSUME QInv, NEW r \in Reader, EndRead(r)
    PROVE  (Known /\ Mixing /\ Due)'
<1> USE DEF QInv, SInv
<1>1. /\ \A q \in Reader \ {r} : reader'[q] = reader[q]
      /\ reader'[r].due = NoFile
  BY DEF EndRead, NoRead, StoresTypeOK
<1>2. UNCHANGED <<file, old, writer, purge, fresh>>
  BY DEF EndRead
<1>3. QED
  BY <1>1, <1>2 DEF Known, Mixing, Due, Linked

LEMMA AgeKnown ==
    ASSUME QInv, NEW f \in TagFile, Age(f)
    PROVE  (Known /\ Mixing /\ Due)'
<1> USE DEF QInv, SInv
<1>1. PICK files \in SUBSET File : files = {f}
  BY DEF File
<1>2. Disturb(files)
  BY <1>1 DEF Age
<1>3. Due'
  BY <1>2, DueKept
<1>4. /\ \A g \in File : /\ g = f => fresh'[g] = NoFile
                         /\ g # f => fresh'[g] = fresh[g]
      /\ old' = old \cup {f} /\ UNCHANGED <<file, writer, purge>>
  BY <1>1, <1>2, DisturbStep DEF Age
<1>5. Known' /\ Mixing'
  BY <1>4 DEF Known, Mixing, Linked
<1>6. QED
  BY <1>3, <1>5

LEMMA PurgeKnown ==
    ASSUME QInv, StartPurge \/ \E f \in TagFile : LookAt(f)
    PROVE  (Known /\ Mixing /\ Due)'
<1> USE DEF QInv, SInv
<1>1. UNCHANGED <<file, old, writer, reader, faults, fresh>>
  BY DEF StartPurge, LookAt
<1>2. purge'.doomed \in old \cup {NoFile}
  <2>1. CASE StartPurge
    BY <2>1 DEF StartPurge, NoPurge
  <2>2. ASSUME NEW f \in TagFile, LookAt(f) PROVE purge'.doomed \in old \cup {NoFile}
    BY <2>2 DEF LookAt, Stale
  <2>3. QED
    BY <2>1, <2>2
<1>3. Known'
  BY <1>1, <1>2, StoresAssumption DEF Known, Linked
<1>4. QED
  BY <1>1, <1>3 DEF Mixing, Due, Linked

\* Every step keeps what is known of the files.
LEMMA StoresStepKnown == QInv /\ [StoresNext]_storeVars => QInv'
<1> SUFFICES ASSUME QInv, [StoresNext]_storeVars PROVE QInv'
  OBVIOUS
<1>0. SInv'
  BY StoresStepTypes DEF QInv
<1> DEFINE G == (Known /\ Mixing /\ Due)'
<1> SUFFICES G
  BY <1>0 DEF QInv
<1> HIDE DEF G
<1>1. ASSUME NEW w \in Writer, NEW f \in Block, BeginWrite(w, f, f) PROVE G
  BY <1>1, BeginWriteKnown DEF File, G
<1>2. ASSUME NEW w \in Writer, NEW f \in TagFile, NEW v \in Payload, BeginWrite(w, f, v) PROVE G
  BY <1>2, BeginWriteKnown DEF File, G
<1>3. ASSUME NEW w \in Writer, FinishWrite(w) PROVE G
  BY <1>3, FinishWriteKnown DEF G
<1>4. ASSUME NEW w \in Writer, UpdateRoutes(w) PROVE G
  <2>1. writer'[w].stage # "writing" /\ \A u \in Writer \ {w} : writer'[u] = writer[u]
    BY <1>4, UpdateStep DEF QInv, SInv
  <2>2. UNCHANGED <<file, old, reader, purge, fresh>>
    BY <1>4 DEF UpdateRoutes
  <2>3. QED
    BY <2>1, <2>2, WriterKnown DEF G
<1>5. ASSUME NEW w \in Writer, Measure(w) PROVE G
  <2>1. writer'[w].stage # "writing" /\ \A u \in Writer \ {w} : writer'[u] = writer[u]
    BY <1>5, MeasureStep DEF QInv, SInv
  <2>2. UNCHANGED <<file, old, reader, purge, fresh>>
    BY <1>5 DEF Measure
  <2>3. QED
    BY <2>1, <2>2, WriterKnown DEF G
<1>6. ASSUME NEW w \in Writer, NEW f \in Block, Sweep(w, f) PROVE G
  BY <1>6, SweepKnown DEF G
<1>7. ASSUME NEW r \in Reader, NEW f \in File, BeginRead(r, f) PROVE G
  BY <1>7, BeginReadKnown DEF G
<1>8. ASSUME NEW r \in Reader, FinishRead(r) \/ EndRead(r) PROVE G
  BY <1>8, FinishReadKnown, EndReadKnown DEF G
<1>9. ASSUME NEW f \in TagFile, Age(f) PROVE G
  BY <1>9, AgeKnown DEF G
<1>10. ASSUME StartPurge \/ \E f \in TagFile : LookAt(f) PROVE G
  BY <1>10, PurgeKnown DEF G
<1>11. ASSUME RemoveDoomed PROVE G
  BY <1>11, RemoveKnown DEF G
<1>12. CASE UNCHANGED storeVars
  BY <1>12 DEF storeVars, Known, Mixing, Due, Linked, G, QInv
<1>13. QED
  BY <1>1, <1>2, <1>3, <1>4, <1>5, <1>6, <1>7, <1>8, <1>9, <1>10, <1>11, <1>12 DEF StoresNext

\* A pull finds what the last push of its file wrote, when nobody writes or evicts the
\* file, it is less than a day old, and it was not found old when it was written
\* (LocalRegistry, spawn_purge_thread, pull_artifact).
THEOREM PullsAreQuiet == StoresSpec => []QuietPulls
<1>1. QInv => QuietPulls
  BY DEF QInv, Due, QuietPulls
<1>2. QED
  BY <1>1, InitQInv, StoresStepKnown, PTL DEF StoresSpec

(***************************************************************************)
(* The cache stays bounded.                                                *)
(***************************************************************************)
CInv == SInv /\ Accounted /\ AnswersHold /\ Chain /\ Past

LEMMA InitCInv == StoresInit => CInv
<1> SUFFICES ASSUME StoresInit PROVE CInv
  OBVIOUS
<1>1. SInv
  BY InitSInv
<1>2. NoWrite.stage = "idle" /\ NoWrite.makesUp = {}
  BY DEF NoWrite
<1>3. CacheSize = 0
  <2>1. Cached = {}
    BY DEF StoresInit, Cached, File
  <2>2. UNION {Bytes(f) : f \in Cached} = {}
    BY <2>1
  <2>3. QED
    BY <2>2, FS_EmptySet DEF CacheSize, TotalOf
<1>4. Accounted /\ AnswersHold /\ Chain /\ Past
  BY <1>2, <1>3, StoresAssumption
     DEF StoresInit, Accounted, Settled, AnswersHold, Chain, Past, Earlier
<1>5. QED
  BY <1>1, <1>4 DEF CInv

Late(w) == writer[w].stage \in {"routing", "measuring", "sweeping"}

\* What accounts for the size of the cache does so as long as its push goes on.
LEMMA SettledKept ==
    ASSUME StoresTypeOK, Cached' \subseteq Cached, Settled,
           \A u \in Writer : Witness(u) => /\ writer'[u].stage = writer[u].stage
                                           /\ writer'[u].total = writer[u].total
                                           /\ writer'[u].left = writer[u].left
    PROVE  Settled'
<1>1. CacheSize' <= CacheSize /\ CacheSize' \in Nat /\ CacheSize \in Nat
  BY SizeMonotone, SizeType
<1>2. CASE CacheSize <= CacheLimit
  BY <1>1, <1>2, StoresAssumption DEF Settled
<1>3. ASSUME NEW u \in Writer, Witness(u) PROVE Settled'
  <2>1. writer[u].total \in Nat
    BY WriterFields
  <2>2. /\ writer'[u].stage = writer[u].stage /\ writer'[u].total = writer[u].total
        /\ writer'[u].left = writer[u].left
    BY <1>3
  <2>3. CASE writer[u].stage \in {"routing", "measuring"}
    BY <2>2, <2>3 DEF Settled, Witness
  <2>4. CASE Sound(u)
    <3>1. writer'[u].stage = "sweeping" /\ Cached' \subseteq writer'[u].left
      BY <2>2, <2>4 DEF Sound
    <3>2. CacheSize' <= writer'[u].total
      BY <1>1, <2>1, <2>2, <2>4 DEF Sound
    <3>3. QED
      BY <3>1, <3>2 DEF Settled, Witness, Sound
  <2>5. QED
    BY <1>3, <2>3, <2>4 DEF Witness
<1>4. QED
  BY <1>2, <1>3 DEF Settled

\* Steps that have nothing to do with a sweep.
LEMMA Bystander ==
    ASSUME CInv, Cached' \subseteq Cached, faults' = faults, writer' \in [Writer -> WriteState],
           \A u \in Writer : /\ Late(u) => /\ writer'[u].stage = writer[u].stage
                                           /\ writer'[u].total = writer[u].total
                                           /\ writer'[u].left = writer[u].left
                             /\ writer'[u].stage = "sweeping" => writer[u].stage = "sweeping"
                             /\ writer'[u].makesUp = writer[u].makesUp \/ writer'[u].makesUp = {}
                             /\ writer'[u].stage = "sweeping" => writer'[u].makesUp = writer[u].makesUp
                             /\ writer'[u].writes = writer[u].writes \/ writer'[u].writes = writer[u].writes + 1
                             /\ writer'[u].stage # "idle" /\ writer[u].stage = "idle"
                                   => writer'[u].writes = writer[u].writes + 1
    PROVE  (Accounted /\ AnswersHold /\ Chain /\ Past)'
<1> USE DEF CInv, SInv
<1>1. Settled => Settled'
  <2>1. ASSUME NEW u \in Writer, Witness(u)
        PROVE  /\ writer'[u].stage = writer[u].stage /\ writer'[u].total = writer[u].total
               /\ writer'[u].left = writer[u].left
    BY <2>1 DEF Witness, Sound, Late
  <2>2. QED
    BY <2>1, SettledKept
<1>2. Accounted' /\ AnswersHold'
  BY <1>1 DEF Accounted, AnswersHold
<1>3. Chain'
  BY DEF Chain
<1>4. ASSUME NEW v \in Writer, NEW k \in 1..MaxWrites,
             \/ <<v, k>> \in faults
             \/ \E w \in Writer : <<v, k>> \in writer[w].makesUp
      PROVE  k <= writer'[v].writes /\ (writer'[v].stage # "idle" => k < writer'[v].writes)
  <2>1. k <= writer[v].writes /\ (writer[v].stage # "idle" => k < writer[v].writes)
    BY <1>4 DEF Past, Earlier
  <2>2. writer[v].writes \in Nat /\ k \in Nat
    BY WriterFields
  <2>3. QED
    BY <2>1, <2>2
<1>5. Past'
  BY <1>4 DEF Past, Earlier
<1>6. QED
  BY <1>2, <1>3, <1>5

\* A push fails: the fault is none that a sweep makes up for.
LEMMA FailBounded ==
    ASSUME CInv, NEW w \in Writer, writer[w].stage # "idle",
           writer' \in [Writer -> WriteState],
           writer'[w].stage = "idle", writer'[w].writes = writer[w].writes,
           writer'[w].makesUp \subseteq writer[w].makesUp,
           \A u \in Writer \ {w} : writer'[u] = writer[u],
           faults' = faults \cup {<<w, writer[w].writes>>}
    PROVE  (Accounted /\ AnswersHold /\ Chain /\ Past)'
<1> USE DEF CInv, SInv
<1>1. PICK n \in 1..MaxWrites : n = writer[w].writes
  BY WriterFields DEF Stages
<1>2. /\ <<w, n>> \notin faults
      /\ \A u \in Writer : <<w, n>> \notin writer[u].makesUp
  BY <1>1 DEF Past, Earlier
<1>3. <<w, n>> \in faults' /\ faults' = faults \cup {<<w, n>>}
  BY <1>1
<1>4. Accounted'
  BY <1>3 DEF Accounted
<1>5. ASSUME NEW u \in Writer, writer'[u].stage = "sweeping"
      PROVE  faults' \ writer'[u].makesUp # {}
  <2>1. <<w, n>> \notin writer'[u].makesUp
    BY <1>2
  <2>2. QED
    BY <1>3, <2>1
<1>6. AnswersHold'
  BY <1>5 DEF AnswersHold
<1>7. ASSUME NEW a \in Writer, NEW b \in Writer,
             writer'[a].stage = "sweeping", writer'[b].stage = "sweeping"
      PROVE  \/ writer'[a].makesUp \cap faults' \subseteq writer'[b].makesUp
             \/ writer'[b].makesUp \cap faults' \subseteq writer'[a].makesUp
  <2>1. writer'[a] = writer[a] /\ writer'[b] = writer[b]
    BY <1>7
  <2>2. \/ writer[a].makesUp \cap faults \subseteq writer[b].makesUp
        \/ writer[b].makesUp \cap faults \subseteq writer[a].makesUp
    BY <1>7, <2>1 DEF Chain
  <2>3. \A u \in Writer : writer[u].makesUp \cap faults' = writer[u].makesUp \cap faults
    BY <1>2, <1>3
  <2>4. QED
    BY <2>1, <2>2, <2>3
<1>8. Chain'
  BY <1>7 DEF Chain
<1>9. ASSUME NEW v \in Writer, NEW k \in 1..MaxWrites,
             \/ <<v, k>> \in faults'
             \/ \E u \in Writer : <<v, k>> \in writer'[u].makesUp
      PROVE  k <= writer'[v].writes /\ (writer'[v].stage # "idle" => k < writer'[v].writes)
  <2>1. CASE v = w /\ k = n
    BY <1>1, <2>1
  <2>2. CASE ~(v = w /\ k = n)
    <3>1. \/ <<v, k>> \in faults
          \/ \E u \in Writer : <<v, k>> \in writer[u].makesUp
      BY <1>3, <1>9, <2>2
    <3>2. k <= writer[v].writes /\ (writer[v].stage # "idle" => k < writer[v].writes)
      BY <3>1 DEF Past, Earlier
    <3>3. CASE v = w
      BY <3>2, <3>3
    <3>4. CASE v # w
      BY <3>2, <3>4
    <3>5. QED
      BY <3>3, <3>4
  <2>3. QED
    BY <2>1, <2>2
<1>10. Past'
  BY <1>9 DEF Past, Earlier
<1>11. QED
  BY <1>4, <1>6, <1>8, <1>10

\* A push goes on.
LEMMA WitnessBounded ==
    ASSUME CInv, NEW w \in Writer, writer[w].stage # "idle", Settled',
           \A u \in Writer \ {w} : writer'[u] = writer[u],
           writer'[w].writes = writer[w].writes,
           faults' \subseteq faults,
           writer'[w].makesUp \subseteq writer[w].makesUp \/ writer'[w].makesUp \subseteq faults,
           writer'[w].stage = "sweeping" => faults' \subseteq writer'[w].makesUp
    PROVE  (Accounted /\ AnswersHold /\ Chain /\ Past)'
<1> USE DEF CInv, SInv
<1>1. Accounted' /\ AnswersHold'
  BY DEF Accounted, AnswersHold
<1>2. ASSUME NEW a \in Writer, NEW b \in Writer,
             writer'[a].stage = "sweeping", writer'[b].stage = "sweeping"
      PROVE  \/ writer'[a].makesUp \cap faults' \subseteq writer'[b].makesUp
             \/ writer'[b].makesUp \cap faults' \subseteq writer'[a].makesUp
  <2>1. CASE a = w \/ b = w
    BY <1>2, <2>1
  <2>2. CASE a # w /\ b # w
    <3>1. writer'[a] = writer[a] /\ writer'[b] = writer[b]
      BY <2>2
    <3>2. \/ writer[a].makesUp \cap faults \subseteq writer[b].makesUp
          \/ writer[b].makesUp \cap faults \subseteq writer[a].makesUp
      BY <1>2, <3>1 DEF Chain
    <3>3. QED
      BY <3>1, <3>2
  <2>3. QED
    BY <2>1, <2>2
<1>3. Chain'
  BY <1>2 DEF Chain
<1>4. ASSUME NEW v \in Writer, NEW k \in 1..MaxWrites,
             \/ <<v, k>> \in faults'
             \/ \E u \in Writer : <<v, k>> \in writer'[u].makesUp
      PROVE  k <= writer'[v].writes /\ (writer'[v].stage # "idle" => k < writer'[v].writes)
  <2>1. \/ <<v, k>> \in faults
        \/ \E u \in Writer : <<v, k>> \in writer[u].makesUp
    BY <1>4
  <2>2. k <= writer[v].writes /\ (writer[v].stage # "idle" => k < writer[v].writes)
    BY <2>1 DEF Past, Earlier
  <2>3. CASE v = w
    BY <2>2, <2>3
  <2>4. CASE v # w
    BY <2>2, <2>4
  <2>5. QED
    BY <2>3, <2>4
<1>5. Past'
  BY <1>4 DEF Past, Earlier
<1>6. QED
  BY <1>1, <1>3, <1>5

LEMMA BeginWriteBounded ==
    ASSUME CInv, NEW w \in Writer, NEW f \in File, NEW v \in Payload \cup Block, BeginWrite(w, f, v)
    PROVE  (Accounted /\ AnswersHold /\ Chain /\ Past)'
<1> USE DEF CInv, SInv
<1>1. Cached' \subseteq Cached /\ faults' = faults
  BY DEF BeginWrite, Cached, StoresTypeOK, File
<1>2. /\ writer' \in [Writer -> WriteState]
      /\ writer[w].stage = "idle" /\ writer'[w].stage = "writing"
      /\ writer'[w].writes = writer[w].writes + 1 /\ writer'[w].makesUp = {}
      /\ \A u \in Writer \ {w} :
            /\ writer'[u].stage = writer[u].stage /\ writer'[u].writes = writer[u].writes
            /\ writer'[u].total = writer[u].total /\ writer'[u].left = writer[u].left
            /\ writer'[u].makesUp = writer[u].makesUp
  BY BeginStep
<1>3. QED
  BY <1>1, <1>2, Bystander DEF Late

LEMMA FinishWriteBounded ==
    ASSUME CInv, NEW w \in Writer, FinishWrite(w)
    PROVE  (Accounted /\ AnswersHold /\ Chain /\ Past)'
<1> USE DEF CInv, SInv
<1>1. PICK f \in File : f = writer[w].file
  BY FinishStep
<1>2. /\ writer[w].stage = "writing" /\ writer' \in [Writer -> WriteState]
      /\ writer'[w].writes = writer[w].writes /\ writer'[w].makesUp \subseteq writer[w].makesUp
      /\ \A u \in Writer \ {w} : writer'[u] = writer[u]
      /\ \A g \in File : g # f => file'[g] = file[g]
      /\ f \in TagFile => writer'[w] = Finished(w)
      /\ f \in Block => writer'[w].stage = "routing"
  BY <1>1, FinishStep
<1>3. faults' = faults
  BY DEF FinishWrite
<1>4. CASE f \in Block
  <2>1. Settled'
    BY <1>2, <1>4 DEF Settled, Witness
  <2>2. QED
    BY <1>2, <1>3, <1>4, <2>1, WitnessBounded
<1>5. CASE f \in TagFile
  <2>1. Cached' \subseteq Cached
    BY <1>2, <1>5, OneKind DEF Cached, File
  <2>2. writer'[w].stage = "idle" /\ writer'[w].makesUp = {}
    BY <1>2, <1>5, FinishedFields
  <2>3. QED
    BY <1>2, <1>3, <2>1, <2>2, Bystander DEF Late
<1>6. QED
  BY <1>4, <1>5 DEF File

LEMMA UpdateBounded ==
    ASSUME CInv, NEW w \in Writer, UpdateRoutes(w)
    PROVE  (Accounted /\ AnswersHold /\ Chain /\ Past)'
<1> USE DEF CInv, SInv
<1>1. /\ writer' \in [Writer -> WriteState] /\ writer[w].stage = "routing"
      /\ \A u \in Writer \ {w} : writer'[u] = writer[u]
      /\ writer'[w].writes = writer[w].writes /\ writer'[w].makesUp \subseteq writer[w].makesUp
      /\ \/ writer'[w].stage = "measuring" /\ faults' = faults
         \/ writer'[w].stage = "idle" /\ faults' = faults \cup {<<w, writer[w].writes>>}
  BY UpdateStep
<1>2. CASE writer'[w].stage = "measuring" /\ faults' = faults
  <2>1. Settled'
    BY <1>2 DEF Settled, Witness
  <2>2. QED
    BY <1>1, <1>2, <2>1, WitnessBounded
<1>3. CASE writer'[w].stage = "idle" /\ faults' = faults \cup {<<w, writer[w].writes>>}
  BY <1>1, <1>3, FailBounded
<1>4. QED
  BY <1>1, <1>2, <1>3

LEMMA MeasureBounded ==
    ASSUME CInv, NEW w \in Writer, Measure(w)
    PROVE  (Accounted /\ AnswersHold /\ Chain /\ Past)'
<1> USE DEF CInv, SInv
<1>1. /\ writer' \in [Writer -> WriteState] /\ writer[w].stage = "measuring"
      /\ \A u \in Writer \ {w} : writer'[u] = writer[u]
      /\ writer'[w].writes = writer[w].writes
      /\ writer'[w].makesUp \subseteq faults /\ faults' \subseteq faults
      /\ \/ CacheSize <= CacheLimit /\ writer'[w].stage = "idle" /\ faults' = {}
         \/ /\ writer'[w].stage = "sweeping" /\ faults' = faults /\ writer'[w].makesUp = faults
            /\ writer'[w].total = CacheSize /\ writer'[w].left = {f \in Block : file[f] # NoFile}
  BY MeasureStep
<1>2. Cached' = Cached /\ CacheSize' = CacheSize
  BY DEF Measure, Cached, CacheSize, TotalOf
<1>3. Settled'
  <2>1. CASE CacheSize <= CacheLimit
    BY <1>2, <2>1 DEF Settled
  <2>2. CASE /\ writer'[w].stage = "sweeping"
             /\ writer'[w].total = CacheSize /\ writer'[w].left = {f \in Block : file[f] # NoFile}
    <3>1. Cached' \subseteq writer'[w].left
      BY <1>2, <2>2 DEF Cached
    <3>2. CacheSize' <= writer'[w].total
      BY <1>2, <2>2, SizeType
    <3>3. QED
      BY <2>2, <3>1, <3>2 DEF Settled, Witness, Sound
  <2>3. QED
    BY <1>1, <2>1, <2>2
<1>4. QED
  BY <1>1, <1>3, WitnessBounded

LEMMA SweepBounded ==
    ASSUME CInv, NEW w \in Writer, NEW f \in Block, Sweep(w, f)
    PROVE  (Accounted /\ AnswersHold /\ Chain /\ Past)'
<1> USE DEF CInv, SInv
<1>1. /\ writer' \in [Writer -> WriteState] /\ writer[w].stage = "sweeping" /\ f \in writer[w].left
      /\ writer'[w].writes = writer[w].writes /\ writer'[w].makesUp \subseteq writer[w].makesUp
  BY SweepStep
<1>2. CASE /\ \A u \in Writer \ {w} : writer'[u] = writer[u]
           /\ writer'[w].stage = "idle" /\ faults' = faults \cup {<<w, writer[w].writes>>}
  BY <1>1, <1>2, FailBounded
<1>3. CASE ~(/\ \A u \in Writer \ {w} : writer'[u] = writer[u]
             /\ writer'[w].stage = "idle" /\ faults' = faults \cup {<<w, writer[w].writes>>})
  <2>1. /\ Vanish(f)
        /\ \A u \in Writer \ {w} : writer'[u] = Unlinked(f)[u]
        /\ \/ /\ writer'[w].stage = "idle" /\ faults' = faults \ writer[w].makesUp
              /\ \/ Remaining(writer[w].total, f) <= CacheLimit
                 \/ writer[w].left = {f}
           \/ /\ writer'[w].stage = "sweeping" /\ faults' = faults
              /\ writer'[w].makesUp = writer[w].makesUp
              /\ writer'[w].total = Remaining(writer[w].total, f)
              /\ writer'[w].left = writer[w].left \ {f}
    BY <1>3, SweepStep
  <2>2. ASSUME NEW u \in Writer \ {w}
        PROVE  /\ writer'[u].stage = writer[u].stage /\ writer'[u].writes = writer[u].writes
               /\ writer'[u].total = writer[u].total /\ writer'[u].left = writer[u].left
               /\ writer'[u].makesUp = writer[u].makesUp
    <3>1. /\ Unlinked(f)[u].stage = writer[u].stage /\ Unlinked(f)[u].writes = writer[u].writes
          /\ Unlinked(f)[u].total = writer[u].total /\ Unlinked(f)[u].left = writer[u].left
          /\ Unlinked(f)[u].makesUp = writer[u].makesUp
      BY UnlinkedStep
    <3>2. QED
      BY <2>1, <3>1
  <2>3. Cached' = Cached \ {f}
    <3>1. /\ file'[f] = NoFile
          /\ \A g \in File : g # f => file'[g] = file[g]
      BY <2>1, VanishStep DEF File
    <3>2. QED
      BY <3>1 DEF Cached, File
  <2>4. /\ CacheSize' = CacheSize - SizeNow(f) /\ CacheSize \in Nat /\ SizeNow(f) \in Nat
        /\ writer[w].total \in Nat /\ CacheLimit \in Nat
    BY <2>3, SizeShrinks, SizeType, WriterFields, StoresAssumption
  <2>5. Settled => Settled'
    <3>0. Sound(w) => Remaining(writer[w].total, f) = writer[w].total - SizeNow(f)
      <4>1. SizeNow(f) <= CacheSize
        BY <2>3, <2>4, SizeMonotone
      <4>2. Sound(w) => SizeNow(f) <= writer[w].total
        BY <2>4, <4>1 DEF Sound
      <4>3. PICK total \in Nat : total = writer[w].total
        BY <2>4
      <4>4. QED
        BY <4>2, <4>3, RemainingType
    <3>1. ASSUME Sound(w) PROVE Settled'
      <4>1. CASE writer'[w].stage = "idle"
        <5>1. CASE Remaining(writer[w].total, f) <= CacheLimit
          <6>1. CacheSize' <= CacheLimit
            BY <2>4, <3>0, <3>1, <5>1 DEF Sound
          <6>2. QED
            BY <6>1 DEF Settled
        <5>2. CASE writer[w].left = {f}
          <6>1. Cached' = {}
            BY <2>3, <3>1, <5>2 DEF Sound
          <6>2. CacheSize' = 0
            BY <6>1, FS_EmptySet DEF CacheSize, TotalOf
          <6>3. QED
            BY <2>4, <6>2 DEF Settled
        <5>3. QED
          BY <2>1, <4>1, <5>1, <5>2
      <4>2. CASE writer'[w].stage # "idle"
        <5>1. /\ writer'[w].stage = "sweeping" /\ writer'[w].total = Remaining(writer[w].total, f)
              /\ writer'[w].left = writer[w].left \ {f}
          BY <2>1, <4>2
        <5>2. CacheSize' <= writer'[w].total
          BY <2>4, <3>0, <3>1, <5>1 DEF Sound
        <5>3. Cached' \subseteq writer'[w].left
          BY <2>3, <3>1, <5>1 DEF Sound
        <5>4. QED
          BY <5>1, <5>2, <5>3 DEF Settled, Witness, Sound
      <4>3. QED
        BY <4>1, <4>2
    <3>2. CASE CacheSize <= CacheLimit
      <4>1. CacheSize' <= CacheLimit
        BY <2>4, <3>2
      <4>2. QED
        BY <4>1 DEF Settled
    <3>3. ASSUME NEW u \in Writer \ {w}, Witness(u) PROVE Settled'
      <4>1. /\ writer'[u].stage = writer[u].stage /\ writer'[u].total = writer[u].total
            /\ writer'[u].left = writer[u].left /\ writer[u].total \in Nat
        BY <2>2, WriterFields
      <4>2. CASE writer[u].stage \in {"routing", "measuring"}
        BY <4>1, <4>2 DEF Settled, Witness
      <4>3. CASE Sound(u)
        <5>1. CacheSize' <= writer'[u].total
          BY <2>4, <4>1, <4>3 DEF Sound
        <5>2. writer'[u].stage = "sweeping" /\ Cached' \subseteq writer'[u].left
          BY <2>3, <4>1, <4>3 DEF Sound
        <5>3. QED
          BY <5>1, <5>2 DEF Settled, Witness, Sound
      <4>4. QED
        BY <3>3, <4>2, <4>3 DEF Witness
    <3>4. Witness(w) => Sound(w)
      BY <1>1 DEF Witness
    <3>5. QED
      BY <3>1, <3>2, <3>3, <3>4 DEF Settled
  <2>6. faults' = faults \/ faults' = faults \ writer[w].makesUp
    BY <2>1
  <2>7. ~Settled => faults \ writer[w].makesUp # {}
    BY <1>1 DEF AnswersHold
  <2>8. Accounted'
    BY <2>5, <2>6, <2>7 DEF Accounted
  <2>9. ASSUME NEW u \in Writer, writer'[u].stage = "sweeping", ~Settled
        PROVE  faults' \ writer'[u].makesUp # {}
    <3>1. writer[u].stage = "sweeping" /\ writer'[u].makesUp = writer[u].makesUp
      BY <1>1, <2>1, <2>2, <2>9
    <3>2. faults \ writer[u].makesUp # {}
      BY <2>9, <3>1 DEF AnswersHold
    <3>3. \/ writer[w].makesUp \cap faults \subseteq writer[u].makesUp
          \/ writer[u].makesUp \cap faults \subseteq writer[w].makesUp
      BY <1>1, <3>1 DEF Chain
    <3>4. CASE writer[w].makesUp \cap faults \subseteq writer[u].makesUp
      BY <2>6, <3>1, <3>2, <3>4
    <3>5. CASE writer[u].makesUp \cap faults \subseteq writer[w].makesUp
      BY <2>6, <2>7, <2>9, <3>1, <3>2, <3>5
    <3>6. QED
      BY <3>3, <3>4, <3>5
  <2>10. AnswersHold'
    BY <2>5, <2>9 DEF AnswersHold
  <2>11. ASSUME NEW a \in Writer, NEW b \in Writer,
                writer'[a].stage = "sweeping", writer'[b].stage = "sweeping"
         PROVE  \/ writer'[a].makesUp \cap faults' \subseteq writer'[b].makesUp
                \/ writer'[b].makesUp \cap faults' \subseteq writer'[a].makesUp
    <3>1. /\ writer[a].stage = "sweeping" /\ writer'[a].makesUp = writer[a].makesUp
          /\ writer[b].stage = "sweeping" /\ writer'[b].makesUp = writer[b].makesUp
      BY <1>1, <2>1, <2>2, <2>11
    <3>2. \/ writer[a].makesUp \cap faults \subseteq writer[b].makesUp
          \/ writer[b].makesUp \cap faults \subseteq writer[a].makesUp
      BY <3>1 DEF Chain
    <3>3. faults' \subseteq faults
      BY <2>6
    <3>4. QED
      BY <3>1, <3>2, <3>3
  <2>12. Chain'
    BY <2>11 DEF Chain
  <2>13. ASSUME NEW v \in Writer, NEW k \in 1..MaxWrites,
                \/ <<v, k>> \in faults'
                \/ \E u \in Writer : <<v, k>> \in writer'[u].makesUp
         PROVE  k <= writer'[v].writes /\ (writer'[v].stage # "idle" => k < writer'[v].writes)
    <3>1. \A u \in Writer : writer'[u].makesUp \subseteq writer[u].makesUp
      BY <1>1, <2>2
    <3>2. \/ <<v, k>> \in faults
          \/ \E u \in Writer : <<v, k>> \in writer[u].makesUp
      BY <2>6, <2>13, <3>1
    <3>3. k <= writer[v].writes /\ (writer[v].stage # "idle" => k < writer[v].writes)
      BY <3>2 DEF Past, Earlier
    <3>4. writer'[v].writes = writer[v].writes
      BY <1>1, <2>2
    <3>5. writer'[v].stage # "idle" => writer[v].stage # "idle"
      BY <1>1, <2>2
    <3>6. QED
      BY <3>3, <3>4, <3>5
  <2>14. Past'
    BY <2>13 DEF Past, Earlier
  <2>15. QED
    BY <2>8, <2>10, <2>12, <2>14
<1>4. QED
  BY <1>2, <1>3

\* Pulls and the purge do not add to the cache.
LEMMA OthersBounded ==
    ASSUME CInv, Cached' \subseteq Cached, faults' = faults, writer' = writer
    PROVE  (Accounted /\ AnswersHold /\ Chain /\ Past)'
<1>1. writer' \in [Writer -> WriteState]
  BY DEF CInv, SInv, StoresTypeOK
<1>2. \A u \in Writer : writer'[u].stage # "idle" /\ writer[u].stage = "idle"
                           => writer'[u].writes = writer[u].writes + 1
  OBVIOUS
<1>3. QED
  BY <1>1, <1>2, Bystander

LEMMA RemoveBounded ==
    ASSUME CInv, RemoveDoomed
    PROVE  (Accounted /\ AnswersHold /\ Chain /\ Past)'
<1> USE DEF CInv, SInv
<1>1. PICK f \in TagFile : f = purge.doomed
  BY DEF RemoveDoomed, StoresTypeOK
<1>2. /\ Vanish(f) /\ writer' = Unlinked(f) /\ faults' = faults
  BY <1>1 DEF RemoveDoomed
<1>3. Cached' \subseteq Cached
  BY <1>2, VanishStep DEF Cached, File
<1>4. ASSUME NEW u \in Writer
      PROVE  /\ writer' \in [Writer -> WriteState]
             /\ writer'[u].stage = writer[u].stage /\ writer'[u].writes = writer[u].writes
             /\ writer'[u].total = writer[u].total /\ writer'[u].left = writer[u].left
             /\ writer'[u].makesUp = writer[u].makesUp
  <2>1. /\ Unlinked(f) \in [Writer -> WriteState]
        /\ Unlinked(f)[u].stage = writer[u].stage /\ Unlinked(f)[u].writes = writer[u].writes
        /\ Unlinked(f)[u].total = writer[u].total /\ Unlinked(f)[u].left = writer[u].left
        /\ Unlinked(f)[u].makesUp = writer[u].makesUp
    BY UnlinkedStep
  <2>2. QED
    BY <1>2, <2>1
<1>5. writer' \in [Writer -> WriteState]
  <2>1. CASE Writer = {}
    BY <1>2, <2>1 DEF Unlinked
  <2>2. QED
    BY <1>4, <2>1
<1>6. QED
  BY <1>2, <1>3, <1>4, <1>5, Bystander DEF Late

\* Every step keeps the account of the cache's size.
LEMMA StoresStepBounded == CInv /\ [StoresNext]_storeVars => CInv'
<1> SUFFICES ASSUME CInv, [StoresNext]_storeVars PROVE CInv'
  OBVIOUS
<1>0. SInv'
  BY StoresStepTypes DEF CInv
<1> DEFINE G == (Accounted /\ AnswersHold /\ Chain /\ Past)'
<1> SUFFICES G
  BY <1>0 DEF CInv
<1> HIDE DEF G
<1>1. ASSUME NEW w \in Writer, NEW f \in Block, BeginWrite(w, f, f) PROVE G
  BY <1>1, BeginWriteBounded DEF File, G
<1>2. ASSUME NEW w \in Writer, NEW f \in TagFile, NEW v \in Payload, BeginWrite(w, f, v) PROVE G
  BY <1>2, BeginWriteBounded DEF File, G
<1>3. ASSUME NEW w \in Writer, FinishWrite(w) \/ UpdateRoutes(w) \/ Measure(w) PROVE G
  BY <1>3, FinishWriteBounded, UpdateBounded, MeasureBounded DEF G
<1>4. ASSUME NEW w \in Writer, NEW f \in Block, Sweep(w, f) PROVE G
  BY <1>4, SweepBounded DEF G
<1>5. ASSUME RemoveDoomed PROVE G
  BY <1>5, RemoveBounded DEF G
<1>6. CASE \/ \E r \in Reader : \/ \E f \in File : BeginRead(r, f)
                                \/ FinishRead(r) \/ EndRead(r)
           \/ \E f \in TagFile : Age(f) \/ LookAt(f)
           \/ StartPurge \/ UNCHANGED storeVars
  <2>1. writer' = writer /\ faults' = faults /\ file' = file
    BY <1>6 DEF BeginRead, FinishRead, EndRead, Age, LookAt, StartPurge, storeVars
  <2>2. Cached' \subseteq Cached
    BY <2>1 DEF Cached
  <2>3. QED
    BY <2>1, <2>2, OthersBounded DEF G
<1>7. QED
  BY <1>1, <1>2, <1>3, <1>4, <1>5, <1>6 DEF StoresNext

\* Unless a push of a block is under way, or one failed and no sweep that began later is
\* complete, the cache is within its limit: whatever pushes and sweeps overlap
\* (push_artifact, enforce_lru_cache_limits).
THEOREM CacheStaysBounded == StoresSpec => []CacheBounded
<1>1. CInv => CacheBounded
  <2> SUFFICES ASSUME CInv, CacheSize > CacheLimit, faults = {}
               PROVE  \E w \in Writer : writer[w].stage # "idle" /\ writer[w].file \in Block
    BY DEF CacheBounded
  <2>1. ~(CacheSize <= CacheLimit)
    BY SizeType, StoresAssumption
  <2>2. PICK w \in Writer : Witness(w)
    BY <2>1 DEF CInv, Accounted, Settled
  <2>3. writer[w].stage \in {"routing", "measuring", "sweeping"}
    BY <2>2 DEF Witness, Sound
  <2>4. QED
    BY <2>3 DEF CInv, SInv, Stages
<1>2. QED
  BY <1>1, InitCInv, StoresStepBounded, PTL DEF StoresSpec
=============================================================================
