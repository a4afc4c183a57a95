------------------------ MODULE VectorMemory_proofs ------------------------
(* Theorems about VectorMemory for every number of agents, records, layers   *)
(* and writes, and for every size of tier 1.                                 *)
EXTENDS VectorMemory, FiniteSetTheorems, WellFoundedInduction, TLAPS

-----------------------------------------------------------------------------
(***************************************************************************)
(* The inductive invariant, in parts that are preserved one by one.        *)
(***************************************************************************)
\* What a layer has under an id: in its tiers, or in the hands of a worker of its.
Records(l, i) == {v \in Version : \/ layer[l].tier1[i] = v \/ v \in layer[l].tier2[i]
                                  \/ \E w \in Agent : worker[w].bound = l /\ worker[w].taken[i] = v}

\* A worker that compacts has nothing yet of what it did not visit.
Compacting == \A w \in Agent :
    /\ worker[w].bound <= layers
    /\ \A i \in Id : ~worker[w].busy \/ i \in worker[w].todo => worker[w].taken[i] = None
    /\ vfs[w].status = "unborn" => worker[w].queue = 0
    /\ ~worker[w].busy => worker[w].todo = {}
    /\ worker[w].busy => vfs[w].status # "unborn"

\* Who writes into a layer is the only one to read it.
Owned ==
    /\ \A a \in Agent :
          /\ ~Alive(a) => vfs[a].writing = {} /\ vfs[a].base = <<>>
          /\ Alive(a) => vfs[a].active.layer <= layers
          /\ Alive(a) => layer[vfs[a].active.layer].refs = 1
          /\ \A l \in Held(vfs[a].base) : l <= layers
    /\ \A a, b \in Agent : Alive(a) =>
          /\ vfs[a].active.layer \notin Held(vfs[b].base)
          /\ Alive(b) /\ a # b => vfs[a].active.layer # vfs[b].active.layer
    /\ \A l \in LayerId : l > layers => layer[l].refs = 1 /\ \A i \in Id : Records(l, i) = {}

\* Handles are counted.
Holders(l) == {a \in Agent : l \in Held(vfs[a].base)}

Counted == \A l \in LayerId :
    /\ IsFiniteSet(Holders(l))
    /\ Holders(l) # {} => /\ layer[l].refs = Cardinality(Holders(l))
                          /\ layer[l].file \in {"writing", "written"}

\* An agent reads layers of its lineage.
Inherited == \A a \in Agent, l \in LayerId, i \in Id : Alive(a) =>
    \A k \in 1..Len(Stack(a)) : Stack(a)[k].layer = l => Records(l, i) \subseteq lineage[a]

\* What was forgotten is hidden, what was remembered is not.
Hidden(a, i, k) == \E j \in 1..k : i \in Stack(a)[j].tombstones
Gone(a, i) == \A k \in 1..Len(Stack(a)), l \in LayerId :
    Stack(a)[k].layer = l /\ Records(l, i) # {} => Hidden(a, i, k)
There(a, i, v) == \E k \in 1..Len(Stack(a)), l \in LayerId :
    Stack(a)[k].layer = l /\ v \in Records(l, i) /\ ~Hidden(a, i, k)

Stacked == \A a \in Agent, i \in Id : Alive(a) =>
    /\ latest[a][i] = None => Gone(a, i)
    /\ \A v \in Version : latest[a][i] = v => There(a, i, v)
(***************************************************************************)
(* Types.                                                                  *)
(***************************************************************************)
LEMMA LayerParts ==
    ASSUME NEW r \in Layer
    PROVE  /\ r.tier1 \in [Id -> Version \cup {None}] /\ r.tier2 \in [Id -> SUBSET Version]
           /\ r.created \in BOOLEAN /\ r.compacting \in BOOLEAN /\ r.refs \in Nat
           /\ r.file \in {"none", "writing", "written", "removed"}
BY DEF Layer

LEMMA VfsParts ==
    ASSUME NEW r \in Vfs
    PROVE  /\ r.status \in {"unborn", "alive", "dropped"} /\ r.hollow \in BOOLEAN
           /\ r.active \in Handle /\ r.active.layer \in LayerId /\ r.active.tombstones \subseteq Id
           /\ r.base \in Seq(Handle) /\ r.writing \subseteq Id
BY DEF Vfs, Handle

LEMMA WorkerParts ==
    ASSUME NEW r \in Worker
    PROVE  /\ r.bound \in LayerId /\ r.queue \in Nat /\ r.busy \in BOOLEAN /\ r.todo \subseteq Id
           /\ r.taken \in [Id -> Version \cup {None}]
BY DEF Worker

LEMMA Numbers ==
    /\ MaxWrites \in Nat /\ MaxLayers \in Nat \ {0} /\ None \notin Version
    /\ LayerId \subseteq Nat /\ Version \subseteq Nat
    /\ \A n \in LayerId : n \in Nat /\ n > 0 /\ n <= MaxLayers
BY VectorMemoryAssumption DEF LayerId, Version, None

LEMMA FreshTypes ==
    /\ FreshLayer \in Layer
    /\ \A l \in LayerId : NewHandle(l) \in Handle /\ NewWorker(l) \in Worker
<1>1. [i \in Id |-> None] \in [Id -> Version \cup {None}]
  OBVIOUS
<1>2. [i \in Id |-> {}] \in [Id -> SUBSET Version]
  OBVIOUS
<1>3. FreshLayer \in Layer
  BY <1>1, <1>2 DEF FreshLayer, Layer
<1>4. ASSUME NEW l \in LayerId PROVE NewHandle(l) \in Handle /\ NewWorker(l) \in Worker
  BY <1>1 DEF NewHandle, Handle, NewWorker, Worker
<1>5. QED
  BY <1>3, <1>4

\* A stack: the active handle over the base, newest first.
StackOf(h, s) == <<h>> \o Reverse(s)

LEMMA StackElements ==
    ASSUME NEW h \in Handle, NEW s \in Seq(Handle)
    PROVE  /\ StackOf(h, s) \in Seq(Handle) /\ Len(StackOf(h, s)) = Len(s) + 1
           /\ StackOf(h, s)[1] = h
           /\ \A k \in 1..Len(s) + 1 : k # 1 => /\ Len(s) + 2 - k \in 1..Len(s)
                                                /\ StackOf(h, s)[k] = s[Len(s) + 2 - k]
<1> DEFINE r == [i \in 1..Len(s) |-> s[Len(s) - i + 1]]
<1>1. Reverse(s) = r
  BY DEF Reverse
<1>2. Len(s) \in Nat /\ \A i \in 1..Len(s) : Len(s) - i + 1 \in 1..Len(s) /\ s[Len(s) - i + 1] \in Handle
  OBVIOUS
<1>3. r \in Seq(Handle) /\ Len(r) = Len(s) /\ \A i \in 1..Len(s) : r[i] = s[Len(s) - i + 1]
  BY <1>2
<1> HIDE DEF r
<1>4. /\ <<h>> \o r \in Seq(Handle) /\ Len(<<h>> \o r) = Len(s) + 1 /\ (<<h>> \o r)[1] = h
      /\ \A i \in 1..Len(s) : (<<h>> \o r)[i + 1] = r[i]
  BY <1>2, <1>3
<1>5. ASSUME NEW k \in 1..Len(s) + 1, k # 1
      PROVE  /\ Len(s) + 2 - k \in 1..Len(s)
             /\ (<<h>> \o r)[k] = s[Len(s) + 2 - k]
  <2>1. PICK i \in 1..Len(s) : k = i + 1
    <3>1. k - 1 \in 1..Len(s) /\ k = (k - 1) + 1
      BY <1>2, <1>5
    <3>2. QED
      BY <3>1
  <2>2. (<<h>> \o r)[k] = s[Len(s) - i + 1] /\ Len(s) - i + 1 = Len(s) + 2 - k
    BY <1>2, <1>3, <1>4, <2>1
  <2>3. QED
    BY <1>2, <2>1, <2>2
<1>6. QED
  BY <1>1, <1>4, <1>5 DEF StackOf

LEMMA StackType ==
    ASSUME TypeOK, NEW a \in Agent
    PROVE  /\ Stack(a) = StackOf(vfs[a].active, vfs[a].base) /\ Stack(a) \in Seq(Handle)
           /\ vfs[a].active \in Handle /\ vfs[a].base \in Seq(Handle)
           /\ Len(Stack(a)) = Len(vfs[a].base) + 1 /\ Len(Stack(a)) \in Nat
           /\ Stack(a)[1] = vfs[a].active
           /\ \A k \in 1..Len(Stack(a)) :
                 /\ Stack(a)[k] \in Handle /\ Stack(a)[k].layer \in LayerId
                 /\ k # 1 => Stack(a)[k].layer \in Held(vfs[a].base)
<1>1. vfs[a].active \in Handle /\ vfs[a].base \in Seq(Handle)
  BY VfsParts DEF TypeOK
<1>2. Stack(a) = StackOf(vfs[a].active, vfs[a].base)
  BY DEF Stack, StackOf
<1>3. /\ Stack(a) \in Seq(Handle) /\ Len(Stack(a)) = Len(vfs[a].base) + 1
      /\ Stack(a)[1] = vfs[a].active
      /\ \A k \in 1..Len(vfs[a].base) + 1 : k # 1 =>
            /\ Len(vfs[a].base) + 2 - k \in 1..Len(vfs[a].base)
            /\ Stack(a)[k] = vfs[a].base[Len(vfs[a].base) + 2 - k]
  <2> DEFINE x == StackOf(vfs[a].active, vfs[a].base)
  <2>1. /\ x \in Seq(Handle) /\ Len(x) = Len(vfs[a].base) + 1
        /\ x[1] = vfs[a].active
        /\ \A k \in 1..Len(vfs[a].base) + 1 : k # 1 =>
              /\ Len(vfs[a].base) + 2 - k \in 1..Len(vfs[a].base)
              /\ x[k] = vfs[a].base[Len(vfs[a].base) + 2 - k]
    BY <1>1, StackElements
  <2> HIDE DEF x
  <2>2. Stack(a) = x
    BY <1>2 DEF x
  <2>3. QED
    BY <2>1, <2>2
<1>4. ASSUME NEW k \in 1..Len(Stack(a))
      PROVE  /\ Stack(a)[k] \in Handle /\ Stack(a)[k].layer \in LayerId
             /\ k # 1 => Stack(a)[k].layer \in Held(vfs[a].base)
  <2>1. Stack(a)[k] \in Handle
    BY <1>3
  <2>2. k # 1 => Stack(a)[k].layer \in Held(vfs[a].base)
    <3>1. DOMAIN vfs[a].base = 1..Len(vfs[a].base)
      BY <1>1
    <3>2. QED
      BY <1>3, <3>1 DEF Held
  <2>3. QED
    BY <2>1, <2>2 DEF Handle
<1>5. Len(Stack(a)) \in Nat
  BY <1>3
<1>6. QED
  BY <1>1, <1>2, <1>3, <1>4, <1>5

LEMMA HeldType ==
    ASSUME NEW s \in Seq(Handle) PROVE Held(s) \subseteq LayerId
<1>1. \A k \in DOMAIN s : s[k] \in Handle
  OBVIOUS
<1>2. QED
  BY <1>1 DEF Held, Handle

LEMMA HeldAppend ==
    ASSUME NEW s \in Seq(Handle), NEW h \in Handle
    PROVE  Held(Append(s, h)) = Held(s) \cup {h.layer}
<1>1. DOMAIN s = 1..Len(s) /\ Len(s) \in Nat
  OBVIOUS
<1>2. /\ DOMAIN Append(s, h) = 1..Len(s) + 1 /\ Append(s, h)[Len(s) + 1] = h
      /\ \A k \in 1..Len(s) : Append(s, h)[k] = s[k]
  BY <1>1
<1>3. \A k \in 1..Len(s) + 1 : k \in 1..Len(s) \/ k = Len(s) + 1
  BY <1>1
<1>4. Len(s) + 1 \in 1..Len(s) + 1 /\ 1..Len(s) \subseteq 1..Len(s) + 1
  BY <1>1
<1>5. QED
  BY <1>1, <1>2, <1>3, <1>4 DEF Held

(***************************************************************************)
(* What each action does, field by field.                                  *)
(***************************************************************************)
LayersAs(fields) == /\ layer' \in [LayerId -> Layer]
                    /\ \A l \in LayerId : \A x \in fields : layer'[l][x] = layer[l][x]
VfsAs(fields) == /\ vfs' \in [Agent -> Vfs]
                 /\ \A a \in Agent : \A x \in fields : vfs'[a][x] = vfs[a][x]
WorkersAs(fields) == /\ worker' \in [Agent -> Worker]
                     /\ \A w \in Agent : \A x \in fields : worker'[w][x] = worker[w][x]

LEMMA ReplaceLayer ==
    ASSUME TypeOK, NEW l \in LayerId, NEW r \in Layer, layer' = [layer EXCEPT ![l] = r]
    PROVE  /\ layer' \in [LayerId -> Layer] /\ layer'[l] = r
           /\ \A m \in LayerId \ {l} : layer'[m] = layer[m]
BY DEF TypeOK

LEMMA ReplaceVfs ==
    ASSUME TypeOK, NEW a \in Agent, NEW r \in Vfs, vfs' = [vfs EXCEPT ![a] = r]
    PROVE  /\ vfs' \in [Agent -> Vfs] /\ vfs'[a] = r
           /\ \A b \in Agent \ {a} : vfs'[b] = vfs[b]
BY DEF TypeOK

LEMMA ReplaceWorker ==
    ASSUME TypeOK, NEW a \in Agent, NEW r \in Worker, worker' = [worker EXCEPT ![a] = r]
    PROVE  /\ worker' \in [Agent -> Worker] /\ worker'[a] = r
           /\ \A b \in Agent \ {a} : worker'[b] = worker[b]
BY DEF TypeOK

LEMMA NothingChanges ==
    ASSUME TypeOK, NEW fields
    PROVE  /\ layer' = layer => LayersAs(fields)
           /\ vfs' = vfs => VfsAs(fields)
           /\ worker' = worker => WorkersAs(fields)
BY DEF TypeOK, LayersAs, VfsAs, WorkersAs

LEMMA AdmitEffect ==
    ASSUME TypeOK, NEW a \in Agent, NEW i \in Id, Admit(a, i)
    PROVE  /\ Alive(a) /\ LayersAs({"tier1", "tier2", "refs", "file"})
           /\ VfsAs({"status", "hollow", "active", "base"})
           /\ WorkersAs({"bound", "busy", "todo", "taken"})
           /\ \A b \in Agent \ {a} : vfs'[b] = vfs[b] /\ worker'[b] = worker[b]
           /\ UNCHANGED <<layers, writes, latest, lineage>>
<1> DEFINE l == vfs[a].active.layer
           request == Cardinality(Tier1(l)) >= Cap /\ ~layer[l].compacting
           c == layer[l].compacting \/ request
           q == IF request THEN worker[a].queue + 1 ELSE worker[a].queue
           x == [layer[l] EXCEPT !.created = TRUE, !.compacting = c]
           y == [vfs[a] EXCEPT !.writing = vfs[a].writing \cup {i}]
           z == [worker[a] EXCEPT !.queue = q]
<1>1. l \in LayerId /\ layer[l] \in Layer /\ vfs[a] \in Vfs /\ worker[a] \in Worker
  BY VfsParts DEF TypeOK
<1>2. /\ Alive(a) /\ layer' = [layer EXCEPT ![l] = x] /\ vfs' = [vfs EXCEPT ![a] = y]
      /\ worker' = [worker EXCEPT ![a] = z] /\ UNCHANGED <<layers, writes, latest, lineage>>
  BY <1>1 DEF Admit, TypeOK
<1>3. c \in BOOLEAN /\ q \in Nat
  BY <1>1, LayerParts, WorkerParts
<1> HIDE DEF l, c, q
<1>4. /\ x \in Layer /\ \A f \in {"tier1", "tier2", "refs", "file"} : x[f] = layer[l][f]
      /\ y \in Vfs /\ \A f \in {"status", "hollow", "active", "base"} : y[f] = vfs[a][f]
      /\ z \in Worker /\ \A f \in {"bound", "busy", "todo", "taken"} : z[f] = worker[a][f]
  BY <1>1, <1>3 DEF Layer, Vfs, Worker
<1> HIDE DEF x, y, z
<1>5. LayersAs({"tier1", "tier2", "refs", "file"})
  BY <1>1, <1>2, <1>4, ReplaceLayer DEF LayersAs
<1>6. VfsAs({"status", "hollow", "active", "base"}) /\ \A b \in Agent \ {a} : vfs'[b] = vfs[b]
  BY <1>1, <1>2, <1>4, ReplaceVfs DEF VfsAs
<1>7. WorkersAs({"bound", "busy", "todo", "taken"}) /\ \A b \in Agent \ {a} : worker'[b] = worker[b]
  BY <1>1, <1>2, <1>4, ReplaceWorker DEF WorkersAs
<1>8. QED
  BY <1>2, <1>5, <1>6, <1>7

LEMMA TakeRequestEffect ==
    ASSUME TypeOK, NEW a \in Agent, TakeRequest(a)
    PROVE  /\ WorkersAs({"bound", "taken"}) /\ worker[a].queue > 0 /\ ~worker[a].busy
           /\ ~worker'[a].busy => worker'[a].todo = {}
           /\ \A b \in Agent \ {a} : worker'[b] = worker[b]
           /\ UNCHANGED <<layer, layers, vfs, writes, latest, lineage>>
<1> DEFINE c == layer[worker[a].bound].created
           t == IF c THEN Id ELSE {}
           z == [worker[a] EXCEPT !.queue = worker[a].queue - 1, !.busy = c, !.todo = t]
<1>1. /\ worker[a].bound \in LayerId /\ layer[worker[a].bound] \in Layer /\ worker[a] \in Worker
      /\ worker[a].queue \in Nat
  BY WorkerParts DEF TypeOK
<1>2. /\ worker[a].queue > 0 /\ ~worker[a].busy /\ worker' = [worker EXCEPT ![a] = z]
      /\ UNCHANGED <<layer, layers, vfs, writes, latest, lineage>>
  BY DEF TakeRequest, TypeOK
<1>3. c \in BOOLEAN /\ t \subseteq Id /\ worker[a].queue - 1 \in Nat /\ (~c => t = {})
  BY <1>1, <1>2, LayerParts
<1> HIDE DEF c, t
<1>4. /\ z \in Worker /\ \A f \in {"bound", "taken"} : z[f] = worker[a][f]
      /\ z.busy = c /\ z.todo = t
  BY <1>1, <1>3 DEF Worker
<1> HIDE DEF z
<1>5. /\ WorkersAs({"bound", "taken"}) /\ worker'[a] = z
      /\ \A b \in Agent \ {a} : worker'[b] = worker[b]
  BY <1>2, <1>4, ReplaceWorker DEF WorkersAs
<1>6. QED
  BY <1>2, <1>3, <1>4, <1>5

LEMMA VisitEffect ==
    ASSUME TypeOK, NEW a \in Agent, NEW i \in Id, Visit(a, i)
    PROVE  /\ i \in worker[a].todo /\ WorkersAs({"bound", "queue", "busy"})
           /\ worker'[a].todo = worker[a].todo \ {i}
           /\ worker'[a].taken = [worker[a].taken EXCEPT ![i] = layer[worker[a].bound].tier1[i]]
           /\ \A b \in Agent \ {a} : worker'[b] = worker[b]
           /\ LayersAs({"tier2", "refs", "file"})
           /\ layer'[worker[a].bound].tier1 = [layer[worker[a].bound].tier1 EXCEPT ![i] = None]
           /\ \A m \in LayerId \ {worker[a].bound} : layer'[m] = layer[m]
           /\ UNCHANGED <<layers, vfs, writes, latest, lineage>>
<1> DEFINE l == worker[a].bound
           t == worker[a].todo \ {i}
           v == [worker[a].taken EXCEPT ![i] = layer[l].tier1[i]]
           u == [layer[l].tier1 EXCEPT ![i] = None]
           x == [layer[l] EXCEPT !.tier1 = u]
           z == [worker[a] EXCEPT !.todo = t, !.taken = v]
<1>1. l \in LayerId /\ layer[l] \in Layer /\ worker[a] \in Worker
  BY WorkerParts DEF TypeOK
<1>2. /\ i \in worker[a].todo /\ layer' = [layer EXCEPT ![l] = x]
      /\ worker' = [worker EXCEPT ![a] = z] /\ UNCHANGED <<layers, vfs, writes, latest, lineage>>
  <2>1. layer' = [layer EXCEPT ![l].tier1[i] = None]
    BY DEF Visit
  <2>2. worker' = [worker EXCEPT ![a].todo = @ \ {i}, ![a].taken[i] = layer[l].tier1[i]]
    BY DEF Visit
  <2>3. layer' = [layer EXCEPT ![l] = x]
    BY <1>1, <2>1 DEF TypeOK
  <2>4. worker' = [worker EXCEPT ![a] = z]
    BY <1>1, <2>2 DEF TypeOK
  <2>5. QED
    BY <2>3, <2>4 DEF Visit
<1>3. /\ t \subseteq Id /\ v \in [Id -> Version \cup {None}] /\ u \in [Id -> Version \cup {None}]
  BY <1>1, LayerParts, WorkerParts
<1> HIDE DEF t, v, u
<1>4. /\ x \in Layer /\ \A f \in {"tier2", "refs", "file"} : x[f] = layer[l][f]
      /\ z \in Worker /\ \A f \in {"bound", "queue", "busy"} : z[f] = worker[a][f]
      /\ x.tier1 = u /\ z.todo = t /\ z.taken = v
  BY <1>1, <1>3 DEF Layer, Worker
<1> HIDE DEF x, z
<1>5. /\ LayersAs({"tier2", "refs", "file"}) /\ layer'[l] = x
      /\ \A m \in LayerId \ {l} : layer'[m] = layer[m]
  BY <1>1, <1>2, <1>4, ReplaceLayer DEF LayersAs
<1>6. /\ WorkersAs({"bound", "queue", "busy"}) /\ worker'[a] = z
      /\ \A b \in Agent \ {a} : worker'[b] = worker[b]
  BY <1>2, <1>4, ReplaceWorker DEF WorkersAs
<1>7. QED
  BY <1>2, <1>4, <1>5, <1>6 DEF t, v, u

LEMMA SwapEffect ==
    ASSUME TypeOK, NEW a \in Agent, Swap(a)
    PROVE  /\ worker[a].busy /\ worker[a].todo = {} /\ WorkersAs({"bound", "queue", "todo"})
           /\ ~worker'[a].busy /\ worker'[a].taken = [i \in Id |-> None]
           /\ \A b \in Agent \ {a} : worker'[b] = worker[b]
           /\ LayersAs({"tier1", "refs", "file"})
           /\ layer'[worker[a].bound].tier2 =
                 [i \in Id |-> layer[worker[a].bound].tier2[i] \cup ({worker[a].taken[i]} \ {None})]
           /\ \A m \in LayerId \ {worker[a].bound} : layer'[m] = layer[m]
           /\ UNCHANGED <<layers, vfs, writes, latest, lineage>>
<1> DEFINE l == worker[a].bound
           v == [i \in Id |-> None]
           u == [i \in Id |-> layer[l].tier2[i] \cup ({worker[a].taken[i]} \ {None})]
           x == [layer[l] EXCEPT !.tier2 = u, !.compacting = FALSE]
           z == [worker[a] EXCEPT !.busy = FALSE, !.taken = v]
<1>1. l \in LayerId /\ layer[l] \in Layer /\ worker[a] \in Worker
  BY WorkerParts DEF TypeOK
<1>2. /\ worker[a].busy /\ worker[a].todo = {} /\ layer' = [layer EXCEPT ![l] = x]
      /\ worker' = [worker EXCEPT ![a] = z] /\ UNCHANGED <<layers, vfs, writes, latest, lineage>>
  BY <1>1 DEF Swap, TypeOK
<1>3. v \in [Id -> Version \cup {None}] /\ u \in [Id -> SUBSET Version]
  <2>1. \A i \in Id : layer[l].tier2[i] \subseteq Version /\ worker[a].taken[i] \in Version \cup {None}
    BY <1>1, LayerParts, WorkerParts
  <2>2. QED
    BY <2>1
<1> HIDE DEF v, u
<1>4. /\ x \in Layer /\ \A f \in {"tier1", "refs", "file"} : x[f] = layer[l][f]
      /\ z \in Worker /\ \A f \in {"bound", "queue", "todo"} : z[f] = worker[a][f]
      /\ x.tier2 = u /\ z.busy = FALSE /\ z.taken = v
  BY <1>1, <1>3 DEF Layer, Worker
<1> HIDE DEF x, z
<1>5. /\ LayersAs({"tier1", "refs", "file"}) /\ layer'[l] = x
      /\ \A m \in LayerId \ {l} : layer'[m] = layer[m]
  BY <1>1, <1>2, <1>4, ReplaceLayer DEF LayersAs
<1>6. /\ WorkersAs({"bound", "queue", "todo"}) /\ worker'[a] = z
      /\ \A b \in Agent \ {a} : worker'[b] = worker[b]
  BY <1>2, <1>4, ReplaceWorker DEF WorkersAs
<1>7. QED
  BY <1>2, <1>4, <1>5, <1>6 DEF v, u

LEMMA InsertEffect ==
    ASSUME TypeOK, NEW a \in Agent, NEW i \in Id, Insert(a, i)
    PROVE  /\ i \in vfs[a].writing /\ writes + 1 \in Version /\ writes' = writes + 1
           /\ VfsAs({"status", "hollow", "base"}) /\ vfs'[a].writing = vfs[a].writing \ {i}
           /\ vfs'[a].active.layer = vfs[a].active.layer
           /\ vfs'[a].active.tombstones = vfs[a].active.tombstones \ {i}
           /\ \A b \in Agent \ {a} : vfs'[b] = vfs[b]
           /\ LayersAs({"tier2", "refs", "file"})
           /\ layer'[vfs[a].active.layer].tier1 =
                 [layer[vfs[a].active.layer].tier1 EXCEPT ![i] = writes + 1]
           /\ \A m \in LayerId \ {vfs[a].active.layer} : layer'[m] = layer[m]
           /\ latest' = [latest EXCEPT ![a][i] = writes + 1]
           /\ lineage' = [lineage EXCEPT ![a] = @ \cup {writes + 1}]
           /\ UNCHANGED <<layers, worker>>
<1> DEFINE l == vfs[a].active.layer
           n == writes + 1
           u == [layer[l].tier1 EXCEPT ![i] = n]
           h == [vfs[a].active EXCEPT !.tombstones = vfs[a].active.tombstones \ {i}]
           r == vfs[a].writing \ {i}
           x == [layer[l] EXCEPT !.tier1 = u]
           y == [vfs[a] EXCEPT !.writing = r, !.active = h]
<1>1. l \in LayerId /\ layer[l] \in Layer /\ vfs[a] \in Vfs /\ vfs[a].active \in Handle
  BY VfsParts DEF TypeOK
<1>2. /\ i \in vfs[a].writing /\ writes < MaxWrites /\ writes' = writes + 1
      /\ latest' = [latest EXCEPT ![a][i] = writes + 1]
      /\ lineage' = [lineage EXCEPT ![a] = @ \cup {writes + 1}] /\ UNCHANGED <<layers, worker>>
  BY DEF Insert
<1>3. layer' = [layer EXCEPT ![l] = x] /\ vfs' = [vfs EXCEPT ![a] = y]
  <2>1. layer' = [layer EXCEPT ![l].tier1[i] = n]
    BY DEF Insert
  <2>2. vfs' = [vfs EXCEPT ![a].writing = @ \ {i}, ![a].active.tombstones = @ \ {i}]
    BY DEF Insert
  <2>3. layer' = [layer EXCEPT ![l] = x]
    BY <1>1, <2>1 DEF TypeOK
  <2>4. vfs' = [vfs EXCEPT ![a] = y]
    BY <1>1, <2>2 DEF TypeOK
  <2>5. QED
    BY <2>3, <2>4
<1>4. n \in Version
  BY <1>2, Numbers DEF TypeOK, Version
<1>5. u \in [Id -> Version \cup {None}] /\ r \subseteq Id
  BY <1>1, <1>4, LayerParts, VfsParts
<1>6. h \in Handle /\ h.layer = l /\ h.tombstones = vfs[a].active.tombstones \ {i}
  BY <1>1 DEF Handle
<1> HIDE DEF l, n, u, h, r
<1>7. /\ x \in Layer /\ \A f \in {"tier2", "refs", "file"} : x[f] = layer[l][f]
      /\ x.tier1 = u
  BY <1>1, <1>5 DEF Layer
<1>8. /\ y \in Vfs /\ \A f \in {"status", "hollow", "base"} : y[f] = vfs[a][f]
      /\ y.writing = r /\ y.active = h
  BY <1>1, <1>5, <1>6 DEF Vfs
<1> HIDE DEF x, y
<1>9. /\ LayersAs({"tier2", "refs", "file"}) /\ layer'[l] = x
      /\ \A m \in LayerId \ {l} : layer'[m] = layer[m]
  BY <1>1, <1>3, <1>7, ReplaceLayer DEF LayersAs
<1>10. /\ VfsAs({"status", "hollow", "base"}) /\ vfs'[a] = y
       /\ \A b \in Agent \ {a} : vfs'[b] = vfs[b]
  BY <1>3, <1>8, ReplaceVfs DEF VfsAs
<1>11. QED
  BY <1>2, <1>4, <1>6, <1>7, <1>8, <1>9, <1>10 DEF l, n, u, r

LEMMA ForgetEffect ==
    ASSUME TypeOK, NEW a \in Agent, NEW i \in Id, Forget(a, i)
    PROVE  /\ Alive(a) /\ VfsAs({"status", "hollow", "base", "writing"})
           /\ vfs'[a].active.layer = vfs[a].active.layer
           /\ vfs'[a].active.tombstones = vfs[a].active.tombstones \cup {i}
           /\ \A b \in Agent \ {a} : vfs'[b] = vfs[b]
           /\ latest' = [latest EXCEPT ![a][i] = None]
           /\ UNCHANGED <<layer, layers, worker, writes, lineage>>
<1> DEFINE h == [vfs[a].active EXCEPT !.tombstones = vfs[a].active.tombstones \cup {i}]
           y == [vfs[a] EXCEPT !.active = h]
<1>1. vfs[a] \in Vfs /\ vfs[a].active \in Handle
  BY VfsParts DEF TypeOK
<1>2. vfs' = [vfs EXCEPT ![a] = y]
  <2>1. vfs' = [vfs EXCEPT ![a].active.tombstones = @ \cup {i}]
    BY DEF Forget
  <2>2. QED
    BY <1>1, <2>1 DEF TypeOK
<1>3. /\ h \in Handle /\ h.layer = vfs[a].active.layer
      /\ h.tombstones = vfs[a].active.tombstones \cup {i}
  BY <1>1 DEF Handle
<1> HIDE DEF h
<1>4. /\ y \in Vfs /\ \A f \in {"status", "hollow", "base", "writing"} : y[f] = vfs[a][f]
      /\ y.active = h
  BY <1>1, <1>3 DEF Vfs
<1> HIDE DEF y
<1>5. /\ VfsAs({"status", "hollow", "base", "writing"}) /\ vfs'[a] = y
      /\ \A b \in Agent \ {a} : vfs'[b] = vfs[b]
  BY <1>2, <1>4, ReplaceVfs DEF VfsAs
<1>6. QED
  BY <1>3, <1>4, <1>5 DEF Forget

LEMMA FlushEffect ==
    ASSUME TypeOK, NEW l \in LayerId, Flush(l)
    PROVE  /\ LayersAs({"tier1", "tier2", "refs"})
           /\ layer[l].file = "writing" /\ layer'[l].file = "written"
           /\ \A m \in LayerId \ {l} : layer'[m] = layer[m]
           /\ UNCHANGED <<layers, vfs, worker, writes, latest, lineage>>
<1> DEFINE x == [layer[l] EXCEPT !.file = "written"]
<1>1. layer[l] \in Layer
  BY DEF TypeOK
<1>2. layer' = [layer EXCEPT ![l] = x]
  BY DEF TypeOK, Flush
<1>3. /\ x \in Layer /\ \A f \in {"tier1", "tier2", "refs"} : x[f] = layer[l][f]
      /\ x.file = "written"
  BY <1>1 DEF Layer
<1> HIDE DEF x
<1>4. /\ LayersAs({"tier1", "tier2", "refs"}) /\ layer'[l] = x
      /\ \A m \in LayerId \ {l} : layer'[m] = layer[m]
  BY <1>2, <1>3, ReplaceLayer DEF LayersAs
<1>5. QED
  BY <1>3, <1>4 DEF Flush

LEMMA ResumeEffect ==
    ASSUME TypeOK, NEW a \in Agent, Resume(a)
    PROVE  /\ VfsAs({"status", "active", "base", "writing"})
           /\ UNCHANGED <<layer, layers, worker, writes, latest, lineage>>
<1> DEFINE y == [vfs[a] EXCEPT !.hollow = TRUE]
<1>1. vfs[a] \in Vfs /\ vfs' = [vfs EXCEPT ![a] = y]
  BY DEF TypeOK, Resume
<1>2. y \in Vfs /\ \A f \in {"status", "active", "base", "writing"} : y[f] = vfs[a][f]
  BY <1>1 DEF Vfs
<1> HIDE DEF y
<1>3. VfsAs({"status", "active", "base", "writing"})
  BY <1>1, <1>2, ReplaceVfs DEF VfsAs
<1>4. QED
  BY <1>3 DEF Resume

LEMMA SpawnEffect ==
    ASSUME TypeOK, NEW p \in Agent, NEW c \in Agent, Spawn(p, c),
           NEW s, s = Append(vfs[p].base, vfs[p].active)
    PROVE  /\ p # c /\ Alive(p) /\ ~vfs[p].hollow /\ vfs[p].writing = {} /\ vfs[c].status = "unborn"
           /\ layers + 1 \in LayerId /\ layers + 2 \in LayerId /\ layers' = layers + 2
           /\ vfs' \in [Agent -> Vfs] /\ vfs'[p].status = "alive" /\ vfs'[c].status = "alive"
           /\ vfs'[p].writing = vfs[p].writing /\ vfs'[c].writing = vfs[c].writing
           /\ vfs'[p].base = s /\ vfs'[c].base = s
           /\ vfs'[p].active = NewHandle(layers + 1) /\ vfs'[c].active = NewHandle(layers + 2)
           /\ \A b \in Agent \ {p, c} : vfs'[b] = vfs[b]
           /\ worker' \in [Agent -> Worker] /\ worker'[c] = NewWorker(layers + 2)
           /\ \A b \in Agent \ {c} : worker'[b] = worker[b]
           /\ LayersAs({"tier1", "tier2"})
           /\ \A l \in LayerId :
                 /\ l \in Held(s) => layer'[l].refs = layer[l].refs + 1
                 /\ l \notin Held(s) => layer'[l].refs = layer[l].refs
                 /\ l = vfs[p].active.layer => layer'[l].file = "writing"
                 /\ l # vfs[p].active.layer => layer'[l].file = layer[l].file
           /\ latest' = [latest EXCEPT ![c] = latest[p]]
           /\ lineage' = [lineage EXCEPT ![c] = lineage[p]]
           /\ UNCHANGED writes
<1> DEFINE mine == layers + 1
           childs == layers + 2
           y == [vfs[p] EXCEPT !.base = s, !.active = NewHandle(mine)]
           z == [vfs[c] EXCEPT !.base = s, !.active = NewHandle(childs), !.status = "alive"]
           refs(l) == IF l \in Held(s) THEN layer[l].refs + 1 ELSE layer[l].refs
           file(l) == IF l = vfs[p].active.layer THEN "writing" ELSE layer[l].file
           x(l) == [layer[l] EXCEPT !.refs = refs(l), !.file = file(l)]
<1>1. /\ vfs[p] \in Vfs /\ vfs[c] \in Vfs /\ s \in Seq(Handle)
  <2>1. vfs[p].base \in Seq(Handle) /\ vfs[p].active \in Handle
    BY VfsParts DEF TypeOK
  <2>2. QED
    BY <2>1 DEF TypeOK
<1>2. /\ p # c /\ Alive(p) /\ ~vfs[p].hollow /\ vfs[p].writing = {} /\ vfs[c].status = "unborn"
      /\ layers + 2 <= MaxLayers /\ layers' = layers + 2
      /\ latest' = [latest EXCEPT ![c] = latest[p]]
      /\ lineage' = [lineage EXCEPT ![c] = lineage[p]] /\ UNCHANGED writes
      /\ worker' = [worker EXCEPT ![c] = NewWorker(childs)]
  BY DEF Spawn, Alive
<1>3. mine \in LayerId /\ childs \in LayerId
  BY <1>2, Numbers DEF TypeOK, LayerId
<1>4. vfs' = [vfs EXCEPT ![p] = y, ![c] = z]
  <2>1. vfs' = [vfs EXCEPT
              ![p].base = s, ![p].active = NewHandle(mine),
              ![c].base = s, ![c].active = NewHandle(childs), ![c].status = "alive"]
    BY DEF Spawn
  <2>2. QED
    BY <1>2, <2>1 DEF TypeOK
<1>5. layer' = [l \in LayerId |-> x(l)]
  BY DEF Spawn
<1>6. /\ y \in Vfs /\ y.base = s /\ y.active = NewHandle(mine) /\ y.status = vfs[p].status
      /\ y.writing = vfs[p].writing
  BY <1>1, <1>3, FreshTypes DEF Vfs
<1>7. /\ z \in Vfs /\ z.base = s /\ z.active = NewHandle(childs) /\ z.status = "alive"
      /\ z.writing = vfs[c].writing
  BY <1>1, <1>3, FreshTypes DEF Vfs
<1> HIDE DEF y, z
<1>8. /\ vfs' \in [Agent -> Vfs] /\ vfs'[p] = y /\ vfs'[c] = z
      /\ \A b \in Agent \ {p, c} : vfs'[b] = vfs[b]
  BY <1>2, <1>4, <1>6, <1>7 DEF TypeOK
<1>9. ASSUME NEW l \in LayerId
      PROVE  /\ x(l) \in Layer /\ x(l).tier1 = layer[l].tier1 /\ x(l).tier2 = layer[l].tier2
             /\ x(l).refs = refs(l) /\ x(l).file = file(l)
  <2>1. layer[l] \in Layer
    BY DEF TypeOK
  <2>2. refs(l) \in Nat /\ file(l) \in {"none", "writing", "written", "removed"}
    BY <2>1, LayerParts
  <2> HIDE DEF refs, file
  <2>3. QED
    BY <2>1, <2>2 DEF Layer
<1> HIDE DEF x, refs, file
<1>10. /\ layer' \in [LayerId -> Layer]
       /\ \A l \in LayerId : /\ layer'[l].tier1 = layer[l].tier1 /\ layer'[l].tier2 = layer[l].tier2
                             /\ layer'[l].refs = refs(l) /\ layer'[l].file = file(l)
  BY <1>5, <1>9
<1>11. LayersAs({"tier1", "tier2"})
  BY <1>10 DEF LayersAs
<1>12. /\ worker' \in [Agent -> Worker] /\ worker'[c] = NewWorker(childs)
       /\ \A b \in Agent \ {c} : worker'[b] = worker[b]
  BY <1>2, <1>3, FreshTypes DEF TypeOK
<1>13. /\ vfs'[p].status = "alive" /\ vfs'[c].status = "alive"
       /\ vfs'[p].writing = vfs[p].writing /\ vfs'[c].writing = vfs[c].writing
       /\ vfs'[p].base = s /\ vfs'[c].base = s
       /\ vfs'[p].active = NewHandle(layers + 1) /\ vfs'[c].active = NewHandle(layers + 2)
  BY <1>2, <1>6, <1>7, <1>8 DEF Alive
<1>14. QED
  BY <1>2, <1>3, <1>8, <1>10, <1>11, <1>12, <1>13 DEF refs, file

LEMMA SpawnLayer ==
    ASSUME TypeOK, NEW p \in Agent, NEW c \in Agent, Spawn(p, c), NEW l \in LayerId,
           NEW s, s = Append(vfs[p].base, vfs[p].active), NEW m, m = vfs[p].active.layer
    PROVE  /\ l \in Held(s) => layer'[l].refs = layer[l].refs + 1
           /\ l \notin Held(s) => layer'[l].refs = layer[l].refs
           /\ l = m => layer'[l].file = "writing"
           /\ l # m => layer'[l].file = layer[l].file
<1> DEFINE refs == IF l \in Held(s) THEN layer[l].refs + 1 ELSE layer[l].refs
           file == IF l = m THEN "writing" ELSE layer[l].file
<1>1. layer'[l] = [layer[l] EXCEPT !.refs = refs, !.file = file] /\ layer[l] \in Layer
  BY DEF Spawn, TypeOK
<1>2. /\ l \in Held(s) => refs = layer[l].refs + 1
      /\ l \notin Held(s) => refs = layer[l].refs
      /\ l = m => file = "writing"
      /\ l # m => file = layer[l].file
  OBVIOUS
<1> HIDE DEF refs, file
<1>3. layer'[l].refs = refs /\ layer'[l].file = file
  BY <1>1 DEF Layer
<1>4. QED
  BY <1>2, <1>3

LEMMA DropEffect ==
    ASSUME TypeOK, NEW a \in Agent, Drop(a),
           \A l \in Held(vfs[a].base) : layer[l].refs > 0
    PROVE  /\ Alive(a) /\ vfs[a].writing = {} /\ vfs' \in [Agent -> Vfs]
           /\ vfs'[a].status = "dropped" /\ vfs'[a].base = <<>> /\ vfs'[a].writing = {}
           /\ \A b \in Agent \ {a} : vfs'[b] = vfs[b]
           /\ LayersAs({"tier1", "tier2"})
           /\ \A l \in LayerId \ Held(vfs[a].base) : layer'[l] = layer[l]
           /\ \A l \in Held(vfs[a].base) :
                 /\ layer'[l].refs = layer[l].refs - 1
                 /\ layer[l].refs # 1 => layer'[l].file = layer[l].file
           /\ UNCHANGED <<layers, worker, writes, latest, lineage>>
<1> DEFINE s == vfs[a].base
           y == [vfs[a] EXCEPT !.status = "dropped", !.base = <<>>]
           file(l) == IF layer[l].refs = 1 /\ layer[l].file = "written" THEN "removed" ELSE layer[l].file
           x(l) == [layer[l] EXCEPT !.refs = layer[l].refs - 1, !.file = file(l)]
<1>1. vfs[a] \in Vfs /\ Held(s) \subseteq LayerId
  <2>1. s \in Seq(Handle)
    BY VfsParts DEF TypeOK
  <2>2. QED
    BY <2>1, HeldType DEF TypeOK
<1>2. /\ Alive(a) /\ vfs[a].writing = {} /\ vfs' = [vfs EXCEPT ![a] = y]
      /\ UNCHANGED <<layers, worker, writes, latest, lineage>>
  BY <1>1 DEF Drop, TypeOK
<1>3. y \in Vfs /\ y.status = "dropped" /\ y.base = <<>> /\ y.writing = vfs[a].writing
  <2>1. <<>> \in Seq(Handle)
    OBVIOUS
  <2>2. QED
    BY <1>1, <2>1 DEF Vfs
<1> HIDE DEF y
<1>4. /\ vfs' \in [Agent -> Vfs] /\ vfs'[a] = y /\ \A b \in Agent \ {a} : vfs'[b] = vfs[b]
  BY <1>2, <1>3, ReplaceVfs
<1>5. layer' = [l \in LayerId |-> IF l \notin Held(s) THEN layer[l] ELSE x(l)]
  BY DEF Drop
<1>6. ASSUME NEW l \in LayerId, l \in Held(s)
      PROVE  /\ x(l) \in Layer /\ x(l).tier1 = layer[l].tier1 /\ x(l).tier2 = layer[l].tier2
             /\ x(l).refs = layer[l].refs - 1 /\ (layer[l].refs # 1 => x(l).file = layer[l].file)
  <2>1. layer[l] \in Layer /\ layer[l].refs \in Nat /\ layer[l].refs > 0
    BY <1>6, LayerParts DEF TypeOK
  <2>2. layer[l].refs - 1 \in Nat /\ file(l) \in {"none", "writing", "written", "removed"}
        /\ (layer[l].refs # 1 => file(l) = layer[l].file)
    BY <2>1, LayerParts
  <2> HIDE DEF file
  <2>3. QED
    BY <2>1, <2>2 DEF Layer
<1> HIDE DEF x, s
<1>7. /\ \A l \in LayerId \ Held(s) : layer'[l] = layer[l]
      /\ \A l \in Held(s) : /\ layer'[l].refs = layer[l].refs - 1
                            /\ layer[l].refs # 1 => layer'[l].file = layer[l].file
                            /\ layer'[l].tier1 = layer[l].tier1 /\ layer'[l].tier2 = layer[l].tier2
      /\ layer' \in [LayerId -> Layer]
  BY <1>1, <1>5, <1>6 DEF TypeOK
<1>8. LayersAs({"tier1", "tier2"})
  BY <1>7 DEF LayersAs
<1>9. QED
  BY <1>2, <1>3, <1>4, <1>7, <1>8 DEF s

(***************************************************************************)
(* The records of a layer.                                                 *)
(***************************************************************************)
LEMMA RecordsStay ==
    ASSUME TypeOK, LayersAs({"tier1", "tier2"}), WorkersAs({"bound", "taken"})
    PROVE  \A l \in LayerId, i \in Id : Records(l, i)' = Records(l, i)
<1>1. /\ \A l \in LayerId : layer'[l].tier1 = layer[l].tier1 /\ layer'[l].tier2 = layer[l].tier2
      /\ \A w \in Agent : worker'[w].bound = worker[w].bound /\ worker'[w].taken = worker[w].taken
  BY DEF LayersAs, WorkersAs
<1>2. QED
  BY <1>1 DEF Records

\* retain moves a record from tier 1 into the hands of the worker.
LEMMA RecordsVisited ==
    ASSUME TypeOK, Compacting, NEW a \in Agent, NEW i \in Id, Visit(a, i)
    PROVE  \A l \in LayerId, j \in Id : Records(l, j)' = Records(l, j)
<1>0. PICK m : m = worker[a].bound
  OBVIOUS
<1>1. /\ i \in worker[a].todo
      /\ worker'[a].taken = [worker[a].taken EXCEPT ![i] = layer[m].tier1[i]]
      /\ \A w \in Agent \ {a} : worker'[w] = worker[w]
      /\ \A w \in Agent : worker'[w].bound = worker[w].bound
      /\ \A l \in LayerId : layer'[l].tier2 = layer[l].tier2
      /\ layer'[m].tier1 = [layer[m].tier1 EXCEPT ![i] = None]
      /\ \A l \in LayerId \ {m} : layer'[l] = layer[l]
  BY <1>0, VisitEffect DEF LayersAs, WorkersAs
<1>2. worker[a].taken[i] = None /\ None \notin Version
  BY <1>1, Numbers DEF Compacting
<1>3. m \in LayerId /\ worker[a].taken \in [Id -> Version \cup {None}]
      /\ layer[m].tier1 \in [Id -> Version \cup {None}]
  BY <1>0, WorkerParts, LayerParts DEF TypeOK
<1>4. /\ worker'[a].taken[i] = layer[m].tier1[i] /\ layer'[m].tier1[i] = None
      /\ \A j \in Id \ {i} : /\ worker'[a].taken[j] = worker[a].taken[j]
                             /\ layer'[m].tier1[j] = layer[m].tier1[j]
  BY <1>1, <1>3
<1>5. ASSUME NEW l \in LayerId, NEW j \in Id PROVE Records(l, j)' = Records(l, j)
  <2>1. CASE l # m \/ j # i
    <3>1. /\ layer'[l].tier1[j] = layer[l].tier1[j] /\ layer'[l].tier2[j] = layer[l].tier2[j]
          /\ \A w \in Agent : worker'[w].bound = l <=> worker[w].bound = l
      BY <1>1, <1>4, <2>1
    <3>2. \A w \in Agent : worker[w].bound = l => worker'[w].taken[j] = worker[w].taken[j]
      BY <1>0, <1>1, <1>4, <2>1
    <3>3. QED
      BY <3>1, <3>2 DEF Records
  <2>2. CASE l = m /\ j = i
    <3>1. /\ \A v \in Version : layer'[m].tier1[i] # v /\ worker[a].taken[i] # v
          /\ layer'[m].tier2[i] = layer[m].tier2[i]
          /\ worker'[a].bound = m /\ worker[a].bound = m
      BY <1>0, <1>1, <1>2, <1>4, <1>3
    <3>2. ASSUME NEW v \in Version
          PROVE  v \in Records(m, i)' <=> v \in Records(m, i)
      <4>1. v \in Records(m, i) <=> \/ layer[m].tier1[i] = v \/ v \in layer[m].tier2[i]
                                    \/ \E w \in Agent \ {a} : worker[w].bound = m /\ worker[w].taken[i] = v
        BY <3>1 DEF Records
      <4>2. v \in Records(m, i)' <=> \/ worker'[a].taken[i] = v \/ v \in layer'[m].tier2[i]
                                     \/ \E w \in Agent \ {a} : worker'[w].bound = m /\ worker'[w].taken[i] = v
        BY <3>1 DEF Records
      <4>3. QED
        BY <1>1, <1>4, <3>1, <4>1, <4>2
    <3>3. Records(m, i)' \subseteq Version /\ Records(m, i) \subseteq Version
      BY DEF Records
    <3>4. QED
      BY <2>2, <3>2, <3>3
  <2>3. QED
    BY <2>1, <2>2
<1>6. QED
  BY <1>5

\* A compaction ends by putting what it took into tier 2.
LEMMA RecordsSwapped ==
    ASSUME TypeOK, NEW a \in Agent, Swap(a)
    PROVE  \A l \in LayerId, j \in Id : Records(l, j)' = Records(l, j)
<1>0. PICK m : m = worker[a].bound
  OBVIOUS
<1>1. /\ worker'[a].taken = [i \in Id |-> None]
      /\ \A w \in Agent \ {a} : worker'[w] = worker[w]
      /\ \A w \in Agent : worker'[w].bound = worker[w].bound
      /\ \A l \in LayerId : layer'[l].tier1 = layer[l].tier1
      /\ layer'[m].tier2 = [i \in Id |-> layer[m].tier2[i] \cup ({worker[a].taken[i]} \ {None})]
      /\ \A l \in LayerId \ {m} : layer'[l] = layer[l]
  BY <1>0, SwapEffect DEF LayersAs, WorkersAs
<1>2. None \notin Version
  BY Numbers
<1>3. ASSUME NEW l \in LayerId, NEW j \in Id PROVE Records(l, j)' = Records(l, j)
  <2>0. /\ worker'[a].taken[j] = None
        /\ layer'[m].tier2[j] = layer[m].tier2[j] \cup ({worker[a].taken[j]} \ {None})
    BY <1>1
  <2>1. CASE l # m
    <3>1. /\ layer'[l] = layer[l]
          /\ \A w \in Agent : worker'[w].bound = l <=> worker[w].bound = l
          /\ \A w \in Agent : worker[w].bound = l => worker'[w].taken[j] = worker[w].taken[j]
      BY <1>0, <1>1, <2>1
    <3>2. QED
      BY <3>1 DEF Records
  <2>2. CASE l = m
    <3>1. /\ worker'[a].bound = m /\ worker[a].bound = m
          /\ layer'[m].tier1[j] = layer[m].tier1[j]
      BY <1>0, <1>1, <2>2
    <3>2. ASSUME NEW v \in Version
          PROVE  v \in Records(m, j)' <=> v \in Records(m, j)
      <4>1. v \in Records(m, j) <=> \/ layer[m].tier1[j] = v \/ v \in layer[m].tier2[j]
                                    \/ worker[a].taken[j] = v
                                    \/ \E w \in Agent \ {a} : worker[w].bound = m /\ worker[w].taken[j] = v
        BY <3>1 DEF Records
      <4>2. v \in Records(m, j)' <=> \/ layer[m].tier1[j] = v \/ v \in layer'[m].tier2[j]
                                     \/ \E w \in Agent \ {a} : worker'[w].bound = m /\ worker'[w].taken[j] = v
        BY <1>2, <2>0, <3>1 DEF Records
      <4>3. v \in layer'[m].tier2[j] <=> v \in layer[m].tier2[j] \/ worker[a].taken[j] = v
        BY <1>2, <2>0
      <4>4. QED
        BY <1>1, <4>1, <4>2, <4>3
    <3>3. Records(m, j)' \subseteq Version /\ Records(m, j) \subseteq Version
      BY DEF Records
    <3>4. QED
      BY <2>2, <3>2, <3>3
  <2>3. QED
    BY <2>1, <2>2
<1>4. QED
  BY <1>3

\* A record that is written is the one tier 1 has under its id.
LEMMA RecordsInserted ==
    ASSUME TypeOK, NEW a \in Agent, NEW i \in Id, Insert(a, i),
           NEW m, m = vfs[a].active.layer
    PROVE  /\ \A l \in LayerId, j \in Id : l # m \/ j # i => Records(l, j)' = Records(l, j)
           /\ writes + 1 \in Records(m, i)' /\ Records(m, i)' \subseteq Records(m, i) \cup {writes + 1}
<1>1. /\ writes + 1 \in Version
      /\ \A l \in LayerId : layer'[l].tier2 = layer[l].tier2
      /\ layer'[m].tier1 = [layer[m].tier1 EXCEPT ![i] = writes + 1]
      /\ \A l \in LayerId \ {m} : layer'[l] = layer[l]
      /\ worker' = worker
  BY InsertEffect DEF LayersAs
<1>2. m \in LayerId /\ layer[m].tier1 \in [Id -> Version \cup {None}]
  BY VfsParts, LayerParts DEF TypeOK
<1>3. layer'[m].tier1[i] = writes + 1 /\ \A j \in Id \ {i} : layer'[m].tier1[j] = layer[m].tier1[j]
  BY <1>1, <1>2
<1>4. ASSUME NEW l \in LayerId, NEW j \in Id, l # m \/ j # i PROVE Records(l, j)' = Records(l, j)
  <2>1. layer'[l].tier1[j] = layer[l].tier1[j] /\ layer'[l].tier2[j] = layer[l].tier2[j]
    BY <1>1, <1>3, <1>4
  <2>2. QED
    BY <1>1, <2>1 DEF Records
<1>5. writes + 1 \in Records(m, i)'
  BY <1>1, <1>3 DEF Records
<1>6. Records(m, i)' \subseteq Records(m, i) \cup {writes + 1}
  BY <1>1, <1>2, <1>3 DEF Records
<1>7. QED
  BY <1>4, <1>5, <1>6

\* A spawn moves no record: the child's worker has nothing in its hands.
LEMMA RecordsSpawned ==
    ASSUME TypeOK, Compacting, NEW p \in Agent, NEW c \in Agent, Spawn(p, c)
    PROVE  \A l \in LayerId, i \in Id : Records(l, i)' = Records(l, i)
<1>1. PICK s : s = Append(vfs[p].base, vfs[p].active)
  OBVIOUS
<1>2. /\ vfs[c].status = "unborn" /\ LayersAs({"tier1", "tier2"})
      /\ worker'[c] = NewWorker(layers + 2)
      /\ \A b \in Agent \ {c} : worker'[b] = worker[b]
  BY <1>1, SpawnEffect
<1>3. \A i \in Id : worker[c].taken[i] = None /\ worker'[c].taken[i] = None /\ None \notin Version
  BY <1>2, Numbers DEF Compacting, NewWorker
<1>4. \A l \in LayerId : layer'[l].tier1 = layer[l].tier1 /\ layer'[l].tier2 = layer[l].tier2
  BY <1>2 DEF LayersAs
<1>5. ASSUME NEW l \in LayerId, NEW i \in Id, NEW v \in Version
      PROVE  v \in Records(l, i)' <=> v \in Records(l, i)
  <2>1. v \in Records(l, i) <=> \/ layer[l].tier1[i] = v \/ v \in layer[l].tier2[i]
                                \/ \E w \in Agent \ {c} : worker[w].bound = l /\ worker[w].taken[i] = v
    BY <1>3 DEF Records
  <2>2. v \in Records(l, i)' <=> \/ layer[l].tier1[i] = v \/ v \in layer[l].tier2[i]
                                 \/ \E w \in Agent \ {c} : worker'[w].bound = l /\ worker'[w].taken[i] = v
    BY <1>3, <1>4 DEF Records
  <2>3. QED
    BY <1>2, <2>1, <2>2
<1>6. \A l \in LayerId, i \in Id : Records(l, i)' \subseteq Version /\ Records(l, i) \subseteq Version
  BY DEF Records
<1>7. QED
  BY <1>5, <1>6

(***************************************************************************)
(* Types and compaction.                                                   *)
(***************************************************************************)
LEMMA HeldCounted ==
    ASSUME TypeOK, Counted, NEW a \in Agent, NEW l \in Held(vfs[a].base)
    PROVE  /\ l \in LayerId /\ a \in Holders(l) /\ IsFiniteSet(Holders(l))
           /\ layer[l].refs = Cardinality(Holders(l)) /\ layer[l].refs > 0
           /\ layer[l].file \in {"writing", "written"}
<1>1. vfs[a].base \in Seq(Handle)
  BY VfsParts DEF TypeOK
<1>2. l \in LayerId /\ a \in Holders(l)
  BY <1>1, HeldType DEF Holders
<1>3. /\ IsFiniteSet(Holders(l)) /\ layer[l].refs = Cardinality(Holders(l))
      /\ layer[l].file \in {"writing", "written"}
  BY <1>2 DEF Counted
<1>4. Cardinality(Holders(l)) \in Nat /\ Cardinality(Holders(l)) # 0
  BY <1>2, <1>3, FS_CardinalityType, FS_EmptySet
<1>5. QED
  BY <1>2, <1>3, <1>4

LEMMA DropSteps ==
    ASSUME TypeOK, Counted, NEW a \in Agent, Drop(a)
    PROVE  \A l \in Held(vfs[a].base) : layer[l].refs > 0
BY HeldCounted

LEMMA TypeInit == Init => TypeOK
<1> SUFFICES ASSUME Init PROVE TypeOK
  OBVIOUS
<1>1. 1 \in LayerId /\ None \in Version \cup {None} /\ 0 \in 0..MaxWrites
  BY Numbers DEF LayerId
<1>2. layer \in [LayerId -> Layer] /\ worker \in [Agent -> Worker] /\ layers \in LayerId
  BY <1>1, FreshTypes DEF Init
<1>3. vfs \in [Agent -> Vfs]
  <2>1. PICK first \in Agent :
          vfs = [a \in Agent |->
                   [status |-> IF a = first THEN "alive" ELSE "unborn", hollow |-> FALSE,
                    active |-> NewHandle(1), base |-> <<>>, writing |-> {}]]
    BY DEF Init
  <2>2. NewHandle(1) \in Handle /\ <<>> \in Seq(Handle)
    BY <1>1, FreshTypes
  <2>3. \A a \in Agent : [status |-> IF a = first THEN "alive" ELSE "unborn", hollow |-> FALSE,
                          active |-> NewHandle(1), base |-> <<>>, writing |-> {}] \in Vfs
    BY <2>2 DEF Vfs
  <2>4. QED
    BY <2>1, <2>3
<1>4. /\ latest \in [Agent -> [Id -> Version \cup {None}]]
      /\ lineage \in [Agent -> SUBSET Version] /\ writes \in 0..MaxWrites
  <2>1. [i \in Id |-> None] \in [Id -> Version \cup {None}]
    OBVIOUS
  <2>2. QED
    BY <1>1, <2>1 DEF Init
<1>5. QED
  BY <1>2, <1>3, <1>4 DEF TypeOK

LEMMA TypeNext ==
    ASSUME TypeOK, Counted, [Next]_vars
    PROVE  TypeOK'
<1>1. ASSUME NEW a \in Agent, NEW i \in Id, Admit(a, i) PROVE TypeOK'
  BY <1>1, AdmitEffect DEF TypeOK, LayersAs, VfsAs, WorkersAs
<1>2. ASSUME NEW a \in Agent, NEW i \in Id, Insert(a, i) PROVE TypeOK'
  <2>1. /\ writes + 1 \in Version /\ writes' = writes + 1 /\ layer' \in [LayerId -> Layer]
        /\ vfs' \in [Agent -> Vfs] /\ UNCHANGED <<layers, worker>>
        /\ latest' = [latest EXCEPT ![a][i] = writes + 1]
        /\ lineage' = [lineage EXCEPT ![a] = @ \cup {writes + 1}]
    BY <1>2, InsertEffect DEF LayersAs, VfsAs
  <2>2. writes' \in 0..MaxWrites
    BY <2>1, Numbers DEF Version
  <2>3. latest' \in [Agent -> [Id -> Version \cup {None}]] /\ lineage' \in [Agent -> SUBSET Version]
    BY <2>1 DEF TypeOK
  <2>4. QED
    BY <2>1, <2>2, <2>3 DEF TypeOK
<1>3. ASSUME NEW a \in Agent, NEW i \in Id, Forget(a, i) PROVE TypeOK'
  <2>1. /\ vfs' \in [Agent -> Vfs] /\ UNCHANGED <<layer, layers, worker, writes, lineage>>
        /\ latest' = [latest EXCEPT ![a][i] = None]
    BY <1>3, ForgetEffect DEF VfsAs
  <2>2. latest' \in [Agent -> [Id -> Version \cup {None}]]
    BY <2>1 DEF TypeOK
  <2>3. QED
    BY <2>1, <2>2 DEF TypeOK
<1>4. ASSUME NEW a \in Agent, NEW i \in Id, Visit(a, i) PROVE TypeOK'
  BY <1>4, VisitEffect DEF TypeOK, LayersAs, WorkersAs
<1>5. ASSUME NEW a \in Agent, TakeRequest(a) PROVE TypeOK'
  BY <1>5, TakeRequestEffect DEF TypeOK, WorkersAs
<1>6. ASSUME NEW a \in Agent, Swap(a) PROVE TypeOK'
  BY <1>6, SwapEffect DEF TypeOK, LayersAs, WorkersAs
<1>7. ASSUME NEW a \in Agent, Drop(a) PROVE TypeOK'
  BY <1>7, DropSteps, DropEffect DEF TypeOK, LayersAs
<1>8. ASSUME NEW a \in Agent, Resume(a) PROVE TypeOK'
  BY <1>8, ResumeEffect DEF TypeOK, VfsAs
<1>9. ASSUME NEW p \in Agent, NEW c \in Agent, Spawn(p, c) PROVE TypeOK'
  <2>1. PICK s : s = Append(vfs[p].base, vfs[p].active)
    OBVIOUS
  <2>2. /\ layers + 2 \in LayerId /\ layers' = layers + 2 /\ vfs' \in [Agent -> Vfs]
        /\ worker' \in [Agent -> Worker] /\ layer' \in [LayerId -> Layer]
        /\ latest' = [latest EXCEPT ![c] = latest[p]]
        /\ lineage' = [lineage EXCEPT ![c] = lineage[p]] /\ UNCHANGED writes
    BY <1>9, <2>1, SpawnEffect DEF LayersAs
  <2>3. latest' \in [Agent -> [Id -> Version \cup {None}]] /\ lineage' \in [Agent -> SUBSET Version]
    BY <2>2 DEF TypeOK
  <2>4. QED
    BY <2>2, <2>3 DEF TypeOK
<1>10. ASSUME NEW l \in LayerId, Flush(l) PROVE TypeOK'
  BY <1>10, FlushEffect DEF TypeOK, LayersAs
<1>11. CASE UNCHANGED vars
  BY <1>11 DEF vars, TypeOK
<1>12. QED
  BY <1>1, <1>2, <1>3, <1>4, <1>5, <1>6, <1>7, <1>8, <1>9, <1>10, <1>11 DEF Next

\* Of what a worker is about, a step that spawns nobody changes nothing.
LEMMA CompactingSame ==
    ASSUME TypeOK, Compacting, worker' = worker, layers' = layers,
           \A w \in Agent : vfs'[w].status = "unborn" <=> vfs[w].status = "unborn"
    PROVE  Compacting'
BY DEF Compacting

LEMMA CompactingNext ==
    ASSUME TypeOK, Counted, Compacting, [Next]_vars
    PROVE  Compacting'
<1>1. ASSUME NEW a \in Agent, NEW i \in Id, Admit(a, i) PROVE Compacting'
  <2>1. /\ \A w \in Agent : vfs'[w].status = vfs[w].status
        /\ \A w \in Agent : /\ worker'[w].bound = worker[w].bound /\ worker'[w].busy = worker[w].busy
                            /\ worker'[w].todo = worker[w].todo /\ worker'[w].taken = worker[w].taken
        /\ \A w \in Agent \ {a} : worker'[w] = worker[w]
        /\ layers' = layers /\ vfs[a].status # "unborn"
    BY <1>1, AdmitEffect DEF VfsAs, WorkersAs, Alive
  <2>2. \A w \in Agent : vfs[w].status = "unborn" => worker'[w].queue = worker[w].queue
    BY <2>1
  <2>3. QED
    BY <2>1, <2>2 DEF Compacting
<1>2. ASSUME NEW a \in Agent, NEW i \in Id, Insert(a, i) PROVE Compacting'
  BY <1>2, InsertEffect, CompactingSame DEF VfsAs
<1>3. ASSUME NEW a \in Agent, NEW i \in Id, Forget(a, i) PROVE Compacting'
  BY <1>3, ForgetEffect, CompactingSame DEF VfsAs
<1>4. ASSUME NEW a \in Agent, NEW i \in Id, Visit(a, i) PROVE Compacting'
  <2>1. /\ i \in worker[a].todo
        /\ \A w \in Agent : /\ worker'[w].bound = worker[w].bound /\ worker'[w].busy = worker[w].busy
                            /\ worker'[w].queue = worker[w].queue
        /\ \A w \in Agent \ {a} : worker'[w] = worker[w]
        /\ worker'[a].todo = worker[a].todo \ {i}
        /\ worker'[a].taken = [worker[a].taken EXCEPT ![i] = layer[worker[a].bound].tier1[i]]
        /\ UNCHANGED <<layers, vfs>>
    BY <1>4, VisitEffect DEF WorkersAs
  <2>2. worker[a].taken \in [Id -> Version \cup {None}]
    BY WorkerParts DEF TypeOK
  <2>3. /\ worker[a].busy
        /\ \A j \in Id : j \in worker'[a].todo => worker'[a].taken[j] = worker[a].taken[j]
    BY <2>1, <2>2 DEF Compacting
  <2>4. \A j \in Id : ~worker'[a].busy \/ j \in worker'[a].todo => worker'[a].taken[j] = None
    BY <2>1, <2>3 DEF Compacting
  <2>5. worker'[a].busy /\ worker[a].busy
    BY <2>1, <2>3
  <2>6. ASSUME NEW w \in Agent
        PROVE  /\ worker'[w].bound <= layers
               /\ \A j \in Id : ~worker'[w].busy \/ j \in worker'[w].todo => worker'[w].taken[j] = None
               /\ vfs[w].status = "unborn" => worker'[w].queue = 0
               /\ ~worker'[w].busy => worker'[w].todo = {}
               /\ worker'[w].busy => vfs[w].status # "unborn"
    <3>1. CASE w = a
      BY <2>1, <2>4, <2>5, <3>1 DEF Compacting
    <3>2. CASE w # a
      <4>1. worker'[w] = worker[w]
        BY <2>1, <3>2
      <4>2. QED
        BY <4>1 DEF Compacting
    <3>3. QED
      BY <3>1, <3>2
  <2>7. QED
    BY <2>1, <2>6 DEF Compacting
<1>5. ASSUME NEW a \in Agent, TakeRequest(a) PROVE Compacting'
  <2>1. /\ worker[a].queue > 0 /\ ~worker[a].busy /\ (~worker'[a].busy => worker'[a].todo = {})
        /\ \A w \in Agent : /\ worker'[w].bound = worker[w].bound
                            /\ worker'[w].taken = worker[w].taken
        /\ \A w \in Agent \ {a} : worker'[w] = worker[w]
        /\ UNCHANGED <<layers, vfs>>
    BY <1>5, TakeRequestEffect DEF WorkersAs
  <2>2. vfs[a].status # "unborn" /\ \A i \in Id : worker[a].taken[i] = None
    BY <2>1 DEF Compacting
  <2>3. QED
    BY <2>1, <2>2 DEF Compacting
<1>6. ASSUME NEW a \in Agent, Swap(a) PROVE Compacting'
  <2>1. /\ worker[a].busy /\ worker[a].todo = {} /\ ~worker'[a].busy
        /\ worker'[a].taken = [i \in Id |-> None]
        /\ \A w \in Agent : /\ worker'[w].bound = worker[w].bound /\ worker'[w].todo = worker[w].todo
                            /\ worker'[w].queue = worker[w].queue
        /\ \A w \in Agent \ {a} : worker'[w] = worker[w]
        /\ UNCHANGED <<layers, vfs>>
    BY <1>6, SwapEffect DEF WorkersAs
  <2>2. QED
    BY <2>1 DEF Compacting
<1>7. ASSUME NEW a \in Agent, Drop(a) PROVE Compacting'
  <2>1. /\ vfs[a].status = "alive" /\ vfs'[a].status = "dropped" /\ UNCHANGED <<layers, worker>>
        /\ \A w \in Agent \ {a} : vfs'[w] = vfs[w]
    BY <1>7, DropSteps, DropEffect DEF Alive
  <2>2. QED
    BY <2>1, CompactingSame
<1>8. ASSUME NEW a \in Agent, Resume(a) PROVE Compacting'
  BY <1>8, ResumeEffect, CompactingSame DEF VfsAs
<1>9. ASSUME NEW p \in Agent, NEW c \in Agent, Spawn(p, c) PROVE Compacting'
  <2>1. PICK s : s = Append(vfs[p].base, vfs[p].active)
    OBVIOUS
  <2>2. /\ Alive(p) /\ layers + 2 \in LayerId /\ layers' = layers + 2
        /\ vfs'[p].status = "alive" /\ vfs'[c].status = "alive"
        /\ \A b \in Agent \ {p, c} : vfs'[b] = vfs[b]
        /\ worker'[c] = NewWorker(layers + 2)
        /\ \A b \in Agent \ {c} : worker'[b] = worker[b]
    BY <1>9, <2>1, SpawnEffect
  <2>3. /\ worker'[c].bound = layers + 2 /\ worker'[c].queue = 0 /\ ~worker'[c].busy
        /\ worker'[c].todo = {} /\ \A i \in Id : worker'[c].taken[i] = None
    BY <2>2 DEF NewWorker
  <2>4. layers \in Nat /\ \A w \in Agent : worker[w].bound \in Nat
    BY WorkerParts, Numbers DEF TypeOK
  <2>5. \A w \in Agent : worker'[w].bound <= layers'
    BY <2>2, <2>3, <2>4 DEF Compacting
  <2>6. \A w \in Agent \ {c} : vfs'[w].status = "unborn" <=> vfs[w].status = "unborn"
    BY <2>2 DEF Alive
  <2>7. QED
    BY <2>2, <2>3, <2>5, <2>6 DEF Compacting
<1>10. ASSUME NEW l \in LayerId, Flush(l) PROVE Compacting'
  BY <1>10, FlushEffect, CompactingSame
<1>11. CASE UNCHANGED vars
  BY <1>11 DEF vars, Compacting
<1>12. QED
  BY <1>1, <1>2, <1>3, <1>4, <1>5, <1>6, <1>7, <1>8, <1>9, <1>10, <1>11 DEF Next

(***************************************************************************)
(* Stacks of handles.                                                      *)
(***************************************************************************)
LEMMA StackTypePrimed ==
    ASSUME TypeOK', NEW a \in Agent
    PROVE  /\ Stack(a)' = StackOf(vfs'[a].active, vfs'[a].base)
           /\ vfs'[a].active \in Handle /\ vfs'[a].base \in Seq(Handle)
           /\ StackOf(vfs'[a].active, vfs'[a].base) \in Seq(Handle)
           /\ Len(StackOf(vfs'[a].active, vfs'[a].base)) = Len(vfs'[a].base) + 1
           /\ StackOf(vfs'[a].active, vfs'[a].base)[1] = vfs'[a].active
<1>1. vfs'[a].active \in Handle /\ vfs'[a].base \in Seq(Handle)
  BY VfsParts DEF TypeOK
<1>2. Stack(a)' = StackOf(vfs'[a].active, vfs'[a].base)
  BY DEF Stack, StackOf
<1>3. QED
  BY <1>1, <1>2, StackElements

LEMMA StackStays ==
    ASSUME TypeOK, NEW a \in Agent, vfs'[a].active = vfs[a].active, vfs'[a].base = vfs[a].base
    PROVE  Stack(a)' = Stack(a) /\ Held(vfs'[a].base) = Held(vfs[a].base)
<1>1. Stack(a)' = StackOf(vfs'[a].active, vfs'[a].base)
  BY DEF Stack, StackOf
<1>2. Stack(a) = StackOf(vfs[a].active, vfs[a].base)
  BY DEF Stack, StackOf
<1>3. QED
  BY <1>1, <1>2

\* A step that only changes the active handle.
LEMMA StackTop ==
    ASSUME TypeOK, TypeOK', NEW a \in Agent, vfs'[a].base = vfs[a].base
    PROVE  /\ Len(Stack(a)') = Len(Stack(a)) /\ Stack(a)'[1] = vfs'[a].active
           /\ \A k \in 1..Len(Stack(a)) : k # 1 => Stack(a)'[k] = Stack(a)[k]
<1>1. PICK s \in Seq(Handle), g \in Handle, h \in Handle :
         s = vfs[a].base /\ g = vfs[a].active /\ h = vfs'[a].active
  BY StackType, StackTypePrimed
<1>2. Stack(a) = StackOf(g, s)
  BY <1>1, StackType
<1>3. Stack(a)' = StackOf(h, s)
  BY <1>1, StackTypePrimed
<1>4. /\ Len(StackOf(h, s)) = Len(s) + 1 /\ StackOf(h, s)[1] = h
      /\ Len(StackOf(g, s)) = Len(s) + 1
      /\ \A k \in 1..Len(s) + 1 : k # 1 => StackOf(h, s)[k] = StackOf(g, s)[k]
  BY StackElements
<1>5. QED
  BY <1>1, <1>2, <1>3, <1>4

\* A new handle on top of a stack.
Extension(t, s, h) == /\ t \in Seq(Handle) /\ Len(t) = Len(s) + 1 /\ t[Len(s) + 1] = h
                      /\ \A k \in 1..Len(s) : t[k] = s[k]

LEMMA StackPushed ==
    ASSUME NEW h \in Handle, NEW n \in Handle, NEW s \in Seq(Handle), NEW t, Extension(t, s, h)
    PROVE  /\ Len(StackOf(n, t)) = Len(StackOf(h, s)) + 1 /\ StackOf(n, t)[1] = n
           /\ Len(StackOf(h, s)) \in Nat
           /\ \A k \in 1..Len(StackOf(h, s)), m \in Nat :
                 m = k + 1 => StackOf(n, t)[m] = StackOf(h, s)[k]
<1>1. /\ Len(t) = Len(s) + 1 /\ t[Len(s) + 1] = h /\ Len(s) \in Nat
      /\ \A k \in 1..Len(s) : t[k] = s[k]
      /\ t \in Seq(Handle)
  BY DEF Extension
<1>2. /\ Len(StackOf(n, t)) = Len(t) + 1 /\ StackOf(n, t)[1] = n
      /\ \A k \in 1..Len(t) + 1 : k # 1 => StackOf(n, t)[k] = t[Len(t) + 2 - k]
  <2>1. Len(t) \in Nat /\ Len(StackOf(n, t)) = Len(t) + 1 /\ StackOf(n, t)[1] = n
    BY <1>1, StackElements
  <2>2. ASSUME NEW k \in 1..Len(t) + 1, k # 1 PROVE StackOf(n, t)[k] = t[Len(t) + 2 - k]
    BY <1>1, <2>1, <2>2, StackElements
  <2>3. QED
    BY <2>1, <2>2
<1>3. /\ Len(StackOf(h, s)) = Len(s) + 1 /\ StackOf(h, s)[1] = h
      /\ \A k \in 1..Len(s) + 1 : k # 1 => /\ Len(s) + 2 - k \in 1..Len(s)
                                           /\ StackOf(h, s)[k] = s[Len(s) + 2 - k]
  BY StackElements
<1>4. ASSUME NEW k \in 1..Len(s) + 1, NEW m \in Nat, m = k + 1
      PROVE  StackOf(n, t)[m] = StackOf(h, s)[k]
  <2>1. StackOf(n, t)[m] = t[Len(s) + 2 - k]
    <3>1. m \in 1..Len(t) + 1 /\ m # 1 /\ Len(t) + 2 - m = Len(s) + 2 - k
      BY <1>1, <1>4
    <3>2. StackOf(n, t)[m] = t[Len(t) + 2 - m]
      BY <1>2, <3>1
    <3>3. QED
      BY <3>1, <3>2
  <2>2. CASE k = 1
    BY <1>1, <1>3, <2>1, <2>2
  <2>3. CASE k # 1
    BY <1>1, <1>3, <2>1, <2>3
  <2>4. QED
    BY <2>2, <2>3
<1>5. QED
  BY <1>1, <1>2, <1>3, <1>4

\* Only its owner has the active layer in a stack, and only on top.
LEMMA Exclusive ==
    ASSUME TypeOK, Owned, NEW a \in Agent, Alive(a), NEW b \in Agent, Alive(b),
           NEW k \in 1..Len(Stack(b)), Stack(b)[k].layer = vfs[a].active.layer
    PROVE  a = b /\ k = 1
<1>1. k # 1 => Stack(b)[k].layer \in Held(vfs[b].base)
  BY StackType
<1>2. k = 1
  BY <1>1 DEF Owned
<1>3. Stack(b)[1] = vfs[b].active
  BY StackType
<1>4. QED
  BY <1>2, <1>3 DEF Owned

(***************************************************************************)
(* Steps that move records and counts at most.                             *)
(***************************************************************************)
LEMMA QuietStep ==
    ASSUME TypeOK, VfsAs({"status", "active", "base"}), LayersAs({"refs"}),
           UNCHANGED <<layers, latest, lineage>>,
           \A l \in LayerId, i \in Id : Records(l, i)' = Records(l, i),
           \A a \in Agent : ~Alive(a) => vfs'[a].writing = vfs[a].writing,
           \A l \in LayerId : layer[l].file \in {"writing", "written"}
                                 => layer'[l].file \in {"writing", "written"}
    PROVE  /\ Owned => Owned'
           /\ Counted => Counted'
           /\ Inherited => Inherited'
           /\ Stacked => Stacked'
<1>1. \A a \in Agent : /\ vfs'[a].status = vfs[a].status /\ vfs'[a].active = vfs[a].active
                       /\ vfs'[a].base = vfs[a].base
  BY DEF VfsAs
<1>2. \A a \in Agent : /\ Stack(a)' = Stack(a) /\ Held(vfs'[a].base) = Held(vfs[a].base)
                       /\ Alive(a)' <=> Alive(a)
  BY <1>1, StackStays DEF Alive
<1>3. \A l \in LayerId : layer'[l].refs = layer[l].refs
  BY DEF LayersAs
<1>4. \A a \in Agent : vfs[a].active.layer \in LayerId
  BY VfsParts DEF TypeOK
<1>5. Owned => Owned'
  BY <1>1, <1>2, <1>3, <1>4 DEF Owned
<1>6. \A l \in LayerId : Holders(l)' = Holders(l)
  BY <1>1, <1>2 DEF Holders
<1>7. Counted => Counted'
  BY <1>3, <1>6 DEF Counted
<1>8. Inherited => Inherited'
  BY <1>2 DEF Inherited
<1>9. \A a \in Agent, i \in Id, k \in Nat : Hidden(a, i, k)' <=> Hidden(a, i, k)
  BY <1>2 DEF Hidden
<1>10. ASSUME Stacked PROVE Stacked'
  <2>1. \A a \in Agent : Len(Stack(a)) \in Nat
    BY StackType
  <2>2. \A a \in Agent, i \in Id : Gone(a, i) => Gone(a, i)'
    BY <1>2, <1>9, <2>1 DEF Gone
  <2>3. \A a \in Agent, i \in Id, v \in Version : There(a, i, v) => There(a, i, v)'
    BY <1>2, <1>9, <2>1 DEF There
  <2>4. QED
    BY <1>2, <1>10, <2>2, <2>3 DEF Stacked
<1>11. QED
  BY <1>5, <1>7, <1>8, <1>10

(***************************************************************************)
(* Who writes, forgets, spawns and goes away.                              *)
(***************************************************************************)
LEMMA InsertOwned ==
    ASSUME TypeOK, Owned, NEW a \in Agent, NEW i \in Id, Insert(a, i)
    PROVE  Alive(a) /\ Owned' /\ (Counted => Counted')
<1>0. PICK m : m = vfs[a].active.layer
  OBVIOUS
<1>1. /\ i \in vfs[a].writing
      /\ \A b \in Agent : /\ vfs'[b].status = vfs[b].status /\ vfs'[b].base = vfs[b].base
                          /\ vfs'[b].active.layer = vfs[b].active.layer
                          /\ vfs'[b].writing \subseteq vfs[b].writing
      /\ \A l \in LayerId : layer'[l].refs = layer[l].refs /\ layer'[l].file = layer[l].file
      /\ layers' = layers
  BY InsertEffect DEF VfsAs, LayersAs
<1>2. Alive(a) /\ m \in LayerId /\ m <= layers
  BY <1>0, <1>1, VfsParts DEF Owned, TypeOK
<1>3. \A b \in Agent : Held(vfs'[b].base) = Held(vfs[b].base) /\ (Alive(b)' <=> Alive(b))
  BY <1>1 DEF Alive
<1>4. \A l \in LayerId, j \in Id : l # m \/ j # i => Records(l, j)' = Records(l, j)
  BY <1>0, RecordsInserted
<1>5. \A b \in Agent : vfs[b].active.layer \in LayerId /\ layers \in Nat
  BY VfsParts, Numbers DEF TypeOK
<1>6. \A l \in LayerId, j \in Id : l > layers => Records(l, j)' = Records(l, j)
  BY <1>2, <1>4, <1>5, Numbers
<1>7. Owned'
  BY <1>1, <1>3, <1>5, <1>6 DEF Owned
<1>8. \A l \in LayerId : Holders(l)' = Holders(l)
  BY <1>1, <1>3 DEF Holders
<1>9. Counted => Counted'
  BY <1>1, <1>8 DEF Counted
<1>10. QED
  BY <1>2, <1>7, <1>9

LEMMA InsertStacked ==
    ASSUME TypeOK, TypeOK', Owned, NEW a \in Agent, NEW i \in Id, Insert(a, i)
    PROVE  (Inherited => Inherited') /\ (Stacked => Stacked')
<1>0. PICK m, n : m = vfs[a].active.layer /\ n = writes + 1
  OBVIOUS
<1>1. Alive(a)
  BY InsertOwned
<1>2. /\ n \in Version /\ vfs'[a].active.layer = m
      /\ vfs'[a].active.tombstones = vfs[a].active.tombstones \ {i}
      /\ \A b \in Agent : vfs'[b].status = vfs[b].status /\ vfs'[b].base = vfs[b].base
      /\ \A b \in Agent \ {a} : vfs'[b] = vfs[b]
      /\ latest' = [latest EXCEPT ![a][i] = n]
      /\ lineage' = [lineage EXCEPT ![a] = @ \cup {n}]
  BY <1>0, InsertEffect DEF VfsAs
<1>3. /\ \A l \in LayerId, j \in Id : l # m \/ j # i => Records(l, j)' = Records(l, j)
      /\ n \in Records(m, i)' /\ Records(m, i)' \subseteq Records(m, i) \cup {n}
  BY <1>0, RecordsInserted
<1>4. /\ m \in LayerId /\ \A b \in Agent : Len(Stack(b)) \in Nat /\ Len(Stack(b)) >= 1
      /\ Stack(a)[1] = vfs[a].active
  <2>1. \A b \in Agent : Len(vfs[b].base) \in Nat
    BY StackType
  <2>2. QED
    BY <1>0, <2>1, StackType, VfsParts DEF TypeOK
\* Stacks keep their layers; the tombstone of i goes from the active handle.
<1>5. /\ \A b \in Agent \ {a} : Stack(b)' = Stack(b)
      /\ \A b \in Agent : Alive(b)' <=> Alive(b)
  BY <1>2, StackStays DEF Alive
<1>6. /\ Len(Stack(a)') = Len(Stack(a)) /\ Stack(a)'[1] = vfs'[a].active
      /\ \A k \in 1..Len(Stack(a)) : k # 1 => Stack(a)'[k] = Stack(a)[k]
  BY <1>2, StackTop
<1>7. \A k \in 1..Len(Stack(a)) :
         /\ Stack(a)'[k].layer = Stack(a)[k].layer
         /\ \A j \in Id \ {i} : j \in Stack(a)'[k].tombstones <=> j \in Stack(a)[k].tombstones
  BY <1>0, <1>2, <1>4, <1>6
<1>8. i \notin Stack(a)'[1].tombstones /\ Stack(a)'[1].layer = m
  BY <1>2, <1>6
<1>9. \A b \in Agent : \A k \in 1..Len(Stack(b)) :
         Alive(b) /\ Stack(b)[k].layer = m => b = a /\ k = 1
  BY <1>0, <1>1, Exclusive
<1>10. /\ \A b \in Agent, j \in Id : latest'[b][j] = IF b = a /\ j = i THEN n ELSE latest[b][j]
       /\ \A b \in Agent : lineage'[b] = IF b = a THEN lineage[b] \cup {n} ELSE lineage[b]
  BY <1>2 DEF TypeOK
<1>11. ASSUME Inherited PROVE Inherited'
  <2>1. SUFFICES ASSUME NEW b \in Agent, NEW l \in LayerId, NEW j \in Id, Alive(b),
                        NEW k \in 1..Len(Stack(b)), Stack(b)'[k].layer = l
                 PROVE  Records(l, j)' \subseteq lineage'[b]
    BY <1>5, <1>6 DEF Inherited
  <2>2. Stack(b)[k].layer = l
    BY <1>5, <1>7, <2>1
  <2>3. Records(l, j) \subseteq lineage[b]
    BY <1>11, <2>1, <2>2 DEF Inherited
  <2>4. CASE l # m \/ j # i
    BY <1>3, <1>10, <2>3, <2>4
  <2>5. CASE l = m /\ j = i
    <3>1. b = a
      BY <1>9, <2>1, <2>2, <2>5
    <3>2. Records(m, i) \subseteq lineage[a]
      BY <2>3, <2>5, <3>1
    <3>3. Records(m, i)' \subseteq lineage'[a]
      BY <1>3, <1>10, <3>2
    <3>4. QED
      BY <2>5, <3>1, <3>3
  <2>6. QED
    BY <2>4, <2>5
<1>12. \A b \in Agent, j \in Id, k \in Nat : b # a \/ (j # i /\ k <= Len(Stack(a)))
           => (Hidden(b, j, k)' <=> Hidden(b, j, k))
  <2>1. SUFFICES ASSUME NEW b \in Agent, NEW j \in Id, NEW k \in Nat,
                        b # a \/ (j # i /\ k <= Len(Stack(a)))
                 PROVE  Hidden(b, j, k)' <=> Hidden(b, j, k)
    OBVIOUS
  <2>2. CASE b # a
    BY <1>5, <2>2 DEF Hidden
  <2>3. CASE b = a /\ j # i /\ k <= Len(Stack(a))
    <3>1. \A o \in 1..k : o \in 1..Len(Stack(a))
      BY <1>4, <2>3
    <3>2. \A o \in 1..k : j \in Stack(a)'[o].tombstones <=> j \in Stack(a)[o].tombstones
      BY <1>7, <2>3, <3>1
    <3>3. Hidden(a, j, k)' <=> Hidden(a, j, k)
      BY <3>2 DEF Hidden
    <3>4. QED
      BY <2>3, <3>3
  <2>4. QED
    BY <2>1, <2>2, <2>3
<1>13. ASSUME Stacked PROVE Stacked'
  <2>1. There(a, i, n)'
    <3>1. 1 \in 1..Len(Stack(a)')
      BY <1>4, <1>6
    <3>2. ~Hidden(a, i, 1)'
      BY <1>8 DEF Hidden
    <3>3. QED
      BY <1>3, <1>4, <1>8, <3>1, <3>2 DEF There
  <2>2. ASSUME NEW b \in Agent, NEW j \in Id, Alive(b), b # a \/ j # i
        PROVE  /\ Gone(b, j) => Gone(b, j)'
               /\ \A v \in Version : There(b, j, v) => There(b, j, v)'
    <3>1. Len(Stack(b)') = Len(Stack(b))
          /\ \A k \in 1..Len(Stack(b)) : Stack(b)'[k].layer = Stack(b)[k].layer
      BY <1>5, <1>6, <1>7
    <3>2. \A k \in 1..Len(Stack(b)), l \in LayerId : Stack(b)[k].layer = l => Records(l, j)' = Records(l, j)
      BY <1>3, <1>9, <2>2
    <3>3. \A k \in 1..Len(Stack(b)) : Hidden(b, j, k)' <=> Hidden(b, j, k)
      BY <1>4, <1>12, <2>2
    <3>4. QED
      BY <3>1, <3>2, <3>3 DEF Gone, There
  <2>3. None \notin Version
    BY Numbers
  <2>4. ASSUME NEW b \in Agent, NEW j \in Id, Alive(b)'
        PROVE  /\ latest'[b][j] = None => Gone(b, j)'
               /\ \A v \in Version : latest'[b][j] = v => There(b, j, v)'
    <3>1. CASE b = a /\ j = i
      BY <1>2, <1>10, <2>1, <2>3, <3>1
    <3>2. CASE b # a \/ j # i
      <4>1. latest'[b][j] = latest[b][j] /\ Alive(b)
        BY <1>5, <1>10, <2>4, <3>2
      <4>2. QED
        BY <1>13, <2>2, <3>2, <4>1 DEF Stacked
    <3>3. QED
      BY <3>1, <3>2
  <2>5. QED
    BY <2>4 DEF Stacked
<1>14. QED
  BY <1>11, <1>13

LEMMA ForgetOwned ==
    ASSUME TypeOK, Owned, NEW a \in Agent, NEW i \in Id, Forget(a, i)
    PROVE  Alive(a) /\ Owned' /\ (Counted => Counted')
<1>1. /\ Alive(a)
      /\ \A b \in Agent : /\ vfs'[b].status = vfs[b].status /\ vfs'[b].base = vfs[b].base
                          /\ vfs'[b].active.layer = vfs[b].active.layer
                          /\ vfs'[b].writing = vfs[b].writing
      /\ UNCHANGED <<layer, layers, worker>>
  BY ForgetEffect DEF VfsAs
<1>2. \A b \in Agent : Held(vfs'[b].base) = Held(vfs[b].base) /\ (Alive(b)' <=> Alive(b))
  BY <1>1 DEF Alive
<1>3. \A l \in LayerId, j \in Id : Records(l, j)' = Records(l, j)
  BY <1>1 DEF Records
<1>4. Owned'
  BY <1>1, <1>2, <1>3 DEF Owned
<1>5. \A l \in LayerId : Holders(l)' = Holders(l)
  BY <1>1, <1>2 DEF Holders
<1>6. Counted => Counted'
  BY <1>1, <1>5 DEF Counted
<1>7. QED
  BY <1>1, <1>4, <1>6

LEMMA ForgetStacked ==
    ASSUME TypeOK, TypeOK', NEW a \in Agent, NEW i \in Id, Forget(a, i)
    PROVE  (Inherited => Inherited') /\ (Stacked => Stacked')
<1>1. /\ vfs'[a].active.layer = vfs[a].active.layer
      /\ vfs'[a].active.tombstones = vfs[a].active.tombstones \cup {i}
      /\ \A b \in Agent : vfs'[b].status = vfs[b].status /\ vfs'[b].base = vfs[b].base
      /\ \A b \in Agent \ {a} : vfs'[b] = vfs[b]
      /\ latest' = [latest EXCEPT ![a][i] = None]
      /\ UNCHANGED <<layer, worker, lineage>>
  BY ForgetEffect DEF VfsAs
<1>2. \A b \in Agent : /\ Len(Stack(b)) \in Nat /\ Len(Stack(b)) >= 1
                       /\ Stack(b)[1] = vfs[b].active
  <2>1. \A b \in Agent : Len(vfs[b].base) \in Nat
    BY StackType
  <2>2. QED
    BY <2>1, StackType
<1>3. /\ \A b \in Agent \ {a} : Stack(b)' = Stack(b)
      /\ \A b \in Agent : Alive(b)' <=> Alive(b)
  BY <1>1, StackStays DEF Alive
<1>4. /\ Len(Stack(a)') = Len(Stack(a)) /\ Stack(a)'[1] = vfs'[a].active
      /\ \A k \in 1..Len(Stack(a)) : k # 1 => Stack(a)'[k] = Stack(a)[k]
  BY <1>1, StackTop
<1>5. \A k \in 1..Len(Stack(a)) :
         /\ Stack(a)'[k].layer = Stack(a)[k].layer
         /\ \A j \in Id \ {i} : j \in Stack(a)'[k].tombstones <=> j \in Stack(a)[k].tombstones
  BY <1>1, <1>2, <1>4
<1>6. \A b \in Agent : /\ Len(Stack(b)') = Len(Stack(b))
                       /\ \A k \in 1..Len(Stack(b)) : Stack(b)'[k].layer = Stack(b)[k].layer
  BY <1>3, <1>4, <1>5
<1>7. \A l \in LayerId, j \in Id : Records(l, j)' = Records(l, j)
  BY <1>1 DEF Records
<1>8. Inherited => Inherited'
  BY <1>1, <1>3, <1>6, <1>7 DEF Inherited
<1>9. ASSUME Stacked PROVE Stacked'
  <2>1. Gone(a, i)'
    <3>1. \A k \in 1..Len(Stack(a)') : Hidden(a, i, k)'
      <4>1. i \in Stack(a)'[1].tombstones
        BY <1>1, <1>4
      <4>2. \A k \in 1..Len(Stack(a)') : 1 \in 1..k
        BY <1>2, <1>4
      <4>3. QED
        BY <4>1, <4>2 DEF Hidden
    <3>2. QED
      BY <3>1 DEF Gone
  <2>2. ASSUME NEW b \in Agent, NEW j \in Id, b # a \/ j # i
        PROVE  /\ Gone(b, j) => Gone(b, j)'
               /\ \A v \in Version : There(b, j, v) => There(b, j, v)'
    <3>1. \A k \in 1..Len(Stack(b)) : j \in Stack(b)'[k].tombstones <=> j \in Stack(b)[k].tombstones
      BY <1>3, <1>5, <2>2
    <3>2. \A k \in 1..Len(Stack(b)) : \A o \in 1..k : o \in 1..Len(Stack(b))
      BY <1>2
    <3>3. \A k \in 1..Len(Stack(b)) : Hidden(b, j, k)' <=> Hidden(b, j, k)
      BY <3>1, <3>2 DEF Hidden
    <3>4. QED
      BY <1>6, <1>7, <3>3 DEF Gone, There
  <2>3. /\ latest'[a][i] = None /\ None \notin Version
        /\ \A b \in Agent, j \in Id : b # a \/ j # i => latest'[b][j] = latest[b][j]
    BY <1>1, Numbers DEF TypeOK
  <2>4. ASSUME NEW b \in Agent, NEW j \in Id, Alive(b)'
        PROVE  /\ latest'[b][j] = None => Gone(b, j)'
               /\ \A v \in Version : latest'[b][j] = v => There(b, j, v)'
    <3>1. CASE b = a /\ j = i
      BY <2>1, <2>3, <3>1
    <3>2. CASE b # a \/ j # i
      <4>1. latest'[b][j] = latest[b][j] /\ Alive(b)
        BY <1>3, <2>3, <2>4, <3>2
      <4>2. QED
        BY <1>9, <2>2, <3>2, <4>1 DEF Stacked
    <3>3. QED
      BY <3>1, <3>2
  <2>5. QED
    BY <2>4 DEF Stacked
<1>10. QED
  BY <1>8, <1>9

LEMMA DropKeeps ==
    ASSUME TypeOK, TypeOK', Owned, Counted, NEW a \in Agent, Drop(a)
    PROVE  /\ Owned' /\ Counted'
           /\ Inherited => Inherited'
           /\ Stacked => Stacked'
<1>1. /\ Alive(a) /\ vfs'[a].status = "dropped" /\ vfs'[a].base = <<>> /\ vfs'[a].writing = {}
      /\ \A b \in Agent \ {a} : vfs'[b] = vfs[b]
      /\ \A l \in LayerId \ Held(vfs[a].base) : layer'[l] = layer[l]
      /\ \A l \in Held(vfs[a].base) :
            /\ layer'[l].refs = layer[l].refs - 1
            /\ layer[l].refs # 1 => layer'[l].file = layer[l].file
      /\ UNCHANGED <<layers, worker, latest, lineage>>
  BY DropSteps, DropEffect
<1>2. \A l \in LayerId, i \in Id : Records(l, i)' = Records(l, i)
  <2>1. LayersAs({"tier1", "tier2"}) /\ WorkersAs({"bound", "taken"})
    BY DropSteps, DropEffect, NothingChanges
  <2>2. QED
    BY <2>1, RecordsStay
<1>3. /\ Held(vfs'[a].base) = {} /\ ~Alive(a)'
      /\ \A b \in Agent \ {a} : /\ Stack(b)' = Stack(b) /\ Held(vfs'[b].base) = Held(vfs[b].base)
                                /\ Alive(b)' <=> Alive(b)
  <2>1. Held(<<>>) = {}
    BY DEF Held
  <2>2. QED
    BY <1>1, <2>1, StackStays DEF Alive
<1>4. /\ \A b \in Agent : vfs[b].active.layer \in LayerId
      /\ \A l \in Held(vfs[a].base) : l \in LayerId /\ l <= layers /\ ~(l > layers)
  <2>1. Held(vfs[a].base) \subseteq LayerId
    BY HeldType, VfsParts DEF TypeOK
  <2>2. QED
    BY <2>1, VfsParts, Numbers DEF TypeOK, Owned
<1>5. Owned'
  <2>1. \A b \in Agent : /\ ~Alive(b)' => vfs'[b].writing = {} /\ vfs'[b].base = <<>>
                         /\ Alive(b)' => vfs'[b].active.layer <= layers'
                         /\ \A l \in Held(vfs'[b].base) : l <= layers'
    BY <1>1, <1>3 DEF Owned
  <2>2. \A b \in Agent : Alive(b)' => layer'[vfs'[b].active.layer].refs = 1
    BY <1>1, <1>3, <1>4 DEF Owned
  <2>3. \A b, c \in Agent : Alive(b)' =>
          /\ vfs'[b].active.layer \notin Held(vfs'[c].base)
          /\ Alive(c)' /\ b # c => vfs'[b].active.layer # vfs'[c].active.layer
    BY <1>1, <1>3 DEF Owned
  <2>4. \A l \in LayerId : l > layers' => layer'[l].refs = 1 /\ \A i \in Id : Records(l, i)' = {}
    BY <1>1, <1>2, <1>4 DEF Owned
  <2>5. QED
    BY <2>1, <2>2, <2>3, <2>4 DEF Owned
<1>6. Counted'
  <2>1. ASSUME NEW l \in LayerId
        PROVE  /\ IsFiniteSet(Holders(l)')
               /\ Holders(l)' # {} => /\ layer'[l].refs = Cardinality(Holders(l)')
                                      /\ layer'[l].file \in {"writing", "written"}
    <3>0. Holders(l)' = Holders(l) \ {a}
      BY <1>1, <1>3 DEF Holders
    <3>1. CASE l \notin Held(vfs[a].base)
      <4>1. Holders(l)' = Holders(l) /\ layer'[l] = layer[l]
        BY <1>1, <3>0, <3>1 DEF Holders
      <4>2. QED
        BY <4>1 DEF Counted
    <3>2. CASE l \in Held(vfs[a].base)
      <4>1. /\ a \in Holders(l) /\ IsFiniteSet(Holders(l))
            /\ layer[l].refs = Cardinality(Holders(l)) /\ layer[l].refs > 0
            /\ layer[l].file \in {"writing", "written"}
        BY <3>2, HeldCounted
      <4>2. PICK S : S = Holders(l)
        OBVIOUS
      <4>3. IsFiniteSet(S \ {a}) /\ Cardinality(S \ {a}) = Cardinality(S) - 1
        BY <4>1, <4>2, FS_RemoveElement
      <4>4. Cardinality(S \ {a}) = 0 <=> S \ {a} = {}
        BY <4>3, FS_EmptySet
      <4>5. Cardinality(S) \in Nat /\ Holders(l)' = S \ {a}
        BY <3>0, <4>1, <4>2, FS_CardinalityType
      <4>6. layer'[l].refs = Cardinality(S \ {a}) /\ IsFiniteSet(Holders(l)')
        BY <1>1, <3>2, <4>1, <4>2, <4>3, <4>5
      <4>7. Holders(l)' # {} => layer[l].refs # 1
        BY <4>1, <4>2, <4>3, <4>4, <4>5
      <4>8. QED
        BY <1>1, <3>2, <4>1, <4>5, <4>6, <4>7
    <3>3. QED
      BY <3>1, <3>2
  <2>2. QED
    BY <2>1 DEF Counted
<1>7. Inherited => Inherited'
  BY <1>1, <1>2, <1>3 DEF Inherited
<1>8. ASSUME Stacked PROVE Stacked'
  <2>1. ASSUME NEW b \in Agent \ {a}, NEW i \in Id
        PROVE  /\ Gone(b, i) => Gone(b, i)'
               /\ \A v \in Version : There(b, i, v) => There(b, i, v)'
    <3>1. \A k \in Nat : Hidden(b, i, k)' <=> Hidden(b, i, k)
      BY <1>3 DEF Hidden
    <3>2. Len(Stack(b)) \in Nat
      BY StackType
    <3>3. \A k \in 1..Len(Stack(b)) : Hidden(b, i, k)' <=> Hidden(b, i, k)
      BY <3>1, <3>2
    <3>4. Stack(b)' = Stack(b)
      BY <1>3
    <3>5. Gone(b, i) => Gone(b, i)'
      BY <1>2, <3>3, <3>4 DEF Gone
    <3>6. \A v \in Version : There(b, i, v) => There(b, i, v)'
      BY <1>2, <3>3, <3>4 DEF There
    <3>7. QED
      BY <3>5, <3>6
  <2>2. QED
    BY <1>1, <1>3, <1>8, <2>1 DEF Stacked
<1>9. QED
  BY <1>5, <1>6, <1>7, <1>8

LEMMA SpawnOwned ==
    ASSUME TypeOK, Compacting, Owned, Counted, NEW p \in Agent, NEW c \in Agent, Spawn(p, c)
    PROVE  Owned' /\ Counted'
<1>0. PICK s, m : s = Append(vfs[p].base, vfs[p].active) /\ m = vfs[p].active.layer
  OBVIOUS
<1>1. /\ p # c /\ Alive(p) /\ vfs[p].writing = {} /\ vfs[c].status = "unborn"
      /\ layers + 1 \in LayerId /\ layers + 2 \in LayerId /\ layers' = layers + 2
      /\ vfs'[p].status = "alive" /\ vfs'[c].status = "alive"
      /\ vfs'[p].writing = vfs[p].writing /\ vfs'[c].writing = vfs[c].writing
      /\ vfs'[p].base = s /\ vfs'[c].base = s
      /\ vfs'[p].active = NewHandle(layers + 1) /\ vfs'[c].active = NewHandle(layers + 2)
      /\ \A b \in Agent \ {p, c} : vfs'[b] = vfs[b]
      /\ \A l \in LayerId :
            /\ l \in Held(s) => layer'[l].refs = layer[l].refs + 1
            /\ l \notin Held(s) => layer'[l].refs = layer[l].refs
            /\ l = m => layer'[l].file = "writing"
            /\ l # m => layer'[l].file = layer[l].file
  <2>1. s = Append(vfs[p].base, vfs[p].active)
    BY <1>0
  <2>2. /\ p # c /\ Alive(p) /\ vfs[p].writing = {} /\ vfs[c].status = "unborn"
        /\ layers + 1 \in LayerId /\ layers + 2 \in LayerId /\ layers' = layers + 2
        /\ vfs'[p].status = "alive" /\ vfs'[c].status = "alive"
        /\ vfs'[p].writing = vfs[p].writing /\ vfs'[c].writing = vfs[c].writing
        /\ vfs'[p].base = s /\ vfs'[c].base = s
        /\ vfs'[p].active = NewHandle(layers + 1) /\ vfs'[c].active = NewHandle(layers + 2)
        /\ \A b \in Agent \ {p, c} : vfs'[b] = vfs[b]
    BY <2>1, SpawnEffect
  <2>3. m = vfs[p].active.layer
    BY <1>0
  <2>4. ASSUME NEW l \in LayerId
        PROVE  /\ l \in Held(s) => layer'[l].refs = layer[l].refs + 1
               /\ l \notin Held(s) => layer'[l].refs = layer[l].refs
               /\ l = m => layer'[l].file = "writing"
               /\ l # m => layer'[l].file = layer[l].file
    <3>1. layer[l].refs \in Nat
      BY LayerParts DEF TypeOK
    <3>2. /\ l = m => layer'[l].file = "writing"
          /\ l # m => layer'[l].file = layer[l].file
      BY <2>1, <2>3, SpawnLayer
    <3>3. l \notin Held(s) => layer'[l].refs = layer[l].refs
      BY <2>1, <2>3, SpawnLayer
    <3>4. l \in Held(s) => layer'[l].refs = layer[l].refs + 1
      BY <2>1, <2>3, <3>1, SpawnLayer
    <3>5. QED
      BY <3>2, <3>3, <3>4
  <2>5. QED
    BY <2>2, <2>4
<1>2. \A l \in LayerId, i \in Id : Records(l, i)' = Records(l, i)
  BY RecordsSpawned
<1>3. /\ Held(s) = Held(vfs[p].base) \cup {m} /\ Held(vfs[p].base) \subseteq LayerId
      /\ m \in LayerId /\ layers \in Nat
  BY <1>0, HeldAppend, HeldType, VfsParts, Numbers DEF TypeOK
<1>4. /\ ~Alive(c) /\ vfs[c].base = <<>> /\ Held(vfs[c].base) = {} /\ vfs[c].writing = {}
  BY <1>1 DEF Owned, Alive, Held
<1>5. /\ m <= layers /\ layer[m].refs = 1 /\ \A b \in Agent : m \notin Held(vfs[b].base)
      /\ \A b \in Agent : Alive(b) /\ b # p => vfs[b].active.layer # m
      /\ \A l \in Held(s) : l <= layers
  BY <1>0, <1>1, <1>3 DEF Owned
<1>6. /\ Alive(p)' /\ Alive(c)' /\ \A b \in Agent \ {p, c} : Alive(b)' <=> Alive(b)
      /\ vfs'[p].active.layer = layers + 1 /\ vfs'[c].active.layer = layers + 2
      /\ Held(vfs'[p].base) = Held(s) /\ Held(vfs'[c].base) = Held(s)
      /\ \A b \in Agent \ {p, c} : Held(vfs'[b].base) = Held(vfs[b].base)
  BY <1>1 DEF Alive, NewHandle
\* The layers that are new are nobody's yet.
<1>7. /\ \A n \in {layers + 1, layers + 2} : n \notin Held(s) /\ n > layers
      /\ \A n \in {layers + 1, layers + 2}, b \in Agent : n \notin Held(vfs[b].base)
      /\ \A n \in {layers + 1, layers + 2}, b \in Agent : Alive(b) => vfs[b].active.layer # n
  <2>1. ASSUME NEW n \in {layers + 1, layers + 2}
        PROVE  /\ n > layers /\ ~(n <= layers)
    BY <1>3, <2>1
  <2>2. QED
    BY <1>5, <2>1 DEF Owned
<1>8. Owned'
  <2>1. ASSUME NEW b \in Agent
        PROVE  /\ ~Alive(b)' => vfs'[b].writing = {} /\ vfs'[b].base = <<>>
               /\ Alive(b)' => vfs'[b].active.layer <= layers'
               /\ \A l \in Held(vfs'[b].base) : l <= layers'
    <3>1. CASE b \in {p, c}
      <4>1. ASSUME NEW l \in Held(s) PROVE l <= layers + 2
        <5>1. l \in LayerId /\ l <= layers
          BY <1>3, <1>5
        <5>2. l \in Nat
          BY <5>1, Numbers
        <5>3. QED
          BY <1>3, <5>1, <5>2
      <4>2. QED
        BY <1>1, <1>3, <1>6, <3>1, <4>1
    <3>2. CASE b \notin {p, c}
      <4>1. /\ vfs'[b] = vfs[b] /\ (Alive(b)' <=> Alive(b))
            /\ Held(vfs'[b].base) = Held(vfs[b].base)
        BY <1>1, <1>6, <3>2
      <4>2. Held(vfs[b].base) \subseteq LayerId /\ vfs[b].active.layer \in LayerId
        BY HeldType, VfsParts DEF TypeOK
      <4>3. \A l \in LayerId : l <= layers => l <= layers + 2
        BY <1>3, Numbers
      <4>4. QED
        BY <1>1, <4>1, <4>2, <4>3 DEF Owned
    <3>3. QED
      BY <3>1, <3>2
  <2>2. ASSUME NEW b \in Agent, Alive(b)' PROVE layer'[vfs'[b].active.layer].refs = 1
    <3>1. CASE b \in {p, c}
      <4>1. PICK n \in {layers + 1, layers + 2} : n = vfs'[b].active.layer
        BY <1>6, <3>1
      <4>2. n \in LayerId /\ layer[n].refs = 1 /\ n \notin Held(s)
        BY <1>1, <1>7 DEF Owned
      <4>3. layer'[n].refs = 1
        BY <1>1, <4>2
      <4>4. QED
        BY <4>1, <4>3
    <3>2. CASE b \notin {p, c}
      <4>1. PICK n : n = vfs[b].active.layer
        OBVIOUS
      <4>2. n \in LayerId /\ layer[n].refs = 1 /\ n \notin Held(s) /\ vfs'[b].active.layer = n
        <5>1. Alive(b) /\ vfs'[b] = vfs[b] /\ n \in LayerId
          BY <1>1, <1>6, <2>2, <3>2, <4>1, VfsParts DEF TypeOK
        <5>2. n \notin Held(vfs[p].base) /\ layer[n].refs = 1
          BY <4>1, <5>1 DEF Owned
        <5>3. QED
          BY <1>3, <1>5, <3>2, <4>1, <5>1, <5>2
      <4>3. layer'[n].refs = 1
        BY <1>1, <4>2
      <4>4. QED
        BY <4>2, <4>3
    <3>3. QED
      BY <3>1, <3>2
  <2>3. ASSUME NEW b \in Agent, NEW d \in Agent, Alive(b)'
        PROVE  /\ vfs'[b].active.layer \notin Held(vfs'[d].base)
               /\ Alive(d)' /\ b # d => vfs'[b].active.layer # vfs'[d].active.layer
    <3>1. CASE b \in {p, c}
      <4>1. PICK n \in {layers + 1, layers + 2} : n = vfs'[b].active.layer
        BY <1>6, <3>1
      <4>2. n \notin Held(s) /\ n \notin Held(vfs[d].base) /\ (Alive(d) => vfs[d].active.layer # n)
        BY <1>7
      <4>3. CASE d \in {p, c}
        BY <1>3, <1>6, <3>1, <4>1, <4>2, <4>3
      <4>4. CASE d \notin {p, c}
        BY <1>1, <1>6, <4>1, <4>2, <4>4
      <4>5. QED
        BY <4>3, <4>4
    <3>2. CASE b \notin {p, c}
      <4>1. Alive(b) /\ vfs'[b] = vfs[b] /\ vfs[b].active.layer \notin {layers + 1, layers + 2}
        BY <1>1, <1>6, <1>7, <2>3, <3>2
      <4>2. vfs[b].active.layer \notin Held(s)
        BY <1>3, <1>5, <3>2, <4>1 DEF Owned
      <4>3. CASE d \in {p, c}
        BY <1>6, <4>1, <4>2, <4>3
      <4>4. CASE d \notin {p, c}
        <5>1. vfs'[d] = vfs[d] /\ (Alive(d)' <=> Alive(d)) /\ Held(vfs'[d].base) = Held(vfs[d].base)
          BY <1>1, <1>6, <4>4
        <5>2. QED
          BY <4>1, <5>1 DEF Owned
      <4>5. QED
        BY <4>3, <4>4
    <3>3. QED
      BY <3>1, <3>2
  <2>4. ASSUME NEW l \in LayerId, l > layers'
        PROVE  layer'[l].refs = 1 /\ \A i \in Id : Records(l, i)' = {}
    <3>1. l > layers /\ ~(l <= layers)
      BY <1>1, <1>3, <2>4, Numbers
    <3>2. l \notin Held(s) /\ layer[l].refs = 1 /\ \A i \in Id : Records(l, i) = {}
      BY <1>5, <3>1 DEF Owned
    <3>3. QED
      BY <1>1, <1>2, <3>2
  <2>5. QED
    BY <2>1, <2>2, <2>3, <2>4 DEF Owned
<1>9. Counted'
  <2>1. ASSUME NEW l \in LayerId
        PROVE  /\ IsFiniteSet(Holders(l)')
               /\ Holders(l)' # {} => /\ layer'[l].refs = Cardinality(Holders(l)')
                                      /\ layer'[l].file \in {"writing", "written"}
    <3>0. /\ l \in Held(s) => Holders(l)' = Holders(l) \cup {p} \cup {c}
          /\ l \notin Held(s) => Holders(l)' = Holders(l)
      <4>1. c \notin Holders(l) /\ (l \notin Held(s) => p \notin Holders(l))
        BY <1>3, <1>4 DEF Holders
      <4>2. \A b \in Agent \ {p, c} : b \in Holders(l)' <=> b \in Holders(l)
        BY <1>6 DEF Holders
      <4>3. \A b \in {p, c} : b \in Holders(l)' <=> l \in Held(s)
        BY <1>6 DEF Holders
      <4>4. Holders(l)' \subseteq Agent /\ Holders(l) \subseteq Agent
        BY DEF Holders
      <4>5. QED
        BY <4>1, <4>2, <4>3, <4>4
    <3>1. CASE l \notin Held(s)
      <4>1. /\ Holders(l)' = Holders(l) /\ layer'[l].refs = layer[l].refs
            /\ layer'[l].file = layer[l].file
        BY <1>1, <1>3, <3>0, <3>1
      <4>2. QED
        BY <4>1 DEF Counted
    <3>2. CASE l = m
      <4>1. Holders(l) = {} /\ Holders(l)' = {p} \cup {c}
        <5>1. Holders(l) = {}
          BY <1>5, <3>2 DEF Holders
        <5>2. QED
          BY <1>3, <3>0, <3>2, <5>1
      <4>2. IsFiniteSet({p}) /\ Cardinality({p}) = 1
        BY FS_Singleton
      <4>3. PICK S : S = {p}
        OBVIOUS
      <4>4. IsFiniteSet(S \cup {c}) /\ Cardinality(S \cup {c}) = Cardinality(S) + 1
        BY <1>1, <4>2, <4>3, FS_AddElement
      <4>5. IsFiniteSet(Holders(l)') /\ Cardinality(Holders(l)') = 2
        BY <4>1, <4>2, <4>3, <4>4
      <4>6. layer'[l].refs = 2 /\ layer'[l].file = "writing"
        BY <1>1, <1>3, <1>5, <3>2
      <4>7. QED
        BY <4>5, <4>6
    <3>3. CASE l \in Held(vfs[p].base)
      <4>1. /\ p \in Holders(l) /\ IsFiniteSet(Holders(l))
            /\ layer[l].refs = Cardinality(Holders(l))
            /\ layer[l].file \in {"writing", "written"}
        BY <3>3, HeldCounted
      <4>2. c \notin Holders(l) /\ l # m
        BY <1>4, <1>5, <3>3 DEF Holders
      <4>3. PICK S : S = Holders(l)
        OBVIOUS
      <4>4. IsFiniteSet(S \cup {c}) /\ Cardinality(S \cup {c}) = Cardinality(S) + 1
        BY <4>1, <4>2, <4>3, FS_AddElement
      <4>5. Holders(l)' = S \cup {c}
        BY <1>3, <3>0, <3>3, <4>1, <4>3
      <4>6. layer'[l].refs = layer[l].refs + 1 /\ layer'[l].file = layer[l].file
        BY <1>1, <1>3, <3>3, <4>2
      <4>7. QED
        BY <4>1, <4>3, <4>4, <4>5, <4>6
    <3>4. QED
      BY <1>3, <3>1, <3>2, <3>3
  <2>2. QED
    BY <2>1 DEF Counted
<1>10. QED
  BY <1>8, <1>9

LEMMA SpawnStacked ==
    ASSUME TypeOK, TypeOK', Compacting, Owned, NEW p \in Agent, NEW c \in Agent, Spawn(p, c)
    PROVE  (Inherited => Inherited') /\ (Stacked => Stacked')
<1>a. PICK h \in Handle : h = vfs[p].active
  BY StackType
<1>b. PICK b \in Seq(Handle) : b = vfs[p].base
  BY StackType
<1>c. PICK s : s = Append(b, h)
  OBVIOUS
<1>d. PICK g : g = layers
  OBVIOUS
<1>0. s = Append(vfs[p].base, vfs[p].active)
  BY <1>a, <1>b, <1>c
<1>1. /\ p # c /\ Alive(p) /\ g + 1 \in LayerId /\ g + 2 \in LayerId
      /\ vfs'[p].status = "alive" /\ vfs'[c].status = "alive"
      /\ vfs'[p].base = s /\ vfs'[c].base = s
      /\ vfs'[p].active = NewHandle(g + 1) /\ vfs'[c].active = NewHandle(g + 2)
      /\ \A a \in Agent \ {p, c} : vfs'[a] = vfs[a]
      /\ latest' = [latest EXCEPT ![c] = latest[p]]
      /\ lineage' = [lineage EXCEPT ![c] = lineage[p]]
  BY <1>0, <1>d, SpawnEffect
<1>2. \A l \in LayerId, i \in Id : Records(l, i)' = Records(l, i)
  BY RecordsSpawned
<1>3. \A n \in {g + 1, g + 2} : n \in LayerId /\ \A i \in Id : Records(n, i) = {}
  <2>1. g \in Nat
    BY <1>d, Numbers DEF TypeOK
  <2>2. \A n \in {g + 1, g + 2} : n \in LayerId /\ n > layers
    BY <1>d, <1>1, <2>1
  <2>3. QED
    BY <2>2 DEF Owned
<1>4. /\ Alive(p)' /\ Alive(c)'
      /\ \A a \in Agent \ {p, c} : Stack(a)' = Stack(a) /\ (Alive(a)' <=> Alive(a))
      /\ \A x \in {p, c} : lineage'[x] = lineage[p] /\ latest'[x] = latest[p]
      /\ \A a \in Agent \ {p, c} : lineage'[a] = lineage[a] /\ latest'[a] = latest[a]
  BY <1>1, StackStays DEF Alive, TypeOK
\* The stacks of parent and child: a fresh handle on what the parent had.
<1>5. ASSUME NEW x \in {p, c}
      PROVE  /\ Len(Stack(x)') = Len(Stack(p)) + 1 /\ Len(Stack(p)) \in Nat
             /\ Stack(x)'[1].tombstones = {}
             /\ \A l \in LayerId, i \in Id : Stack(x)'[1].layer = l => Records(l, i) = {}
             /\ \A k \in 1..Len(Stack(p)), m \in Nat : m = k + 1 => Stack(x)'[m] = Stack(p)[k]
  <2>1. PICK n \in {g + 1, g + 2} : vfs'[x].active = NewHandle(n) /\ vfs'[x].base = s
    BY <1>1
  <2>2. PICK u \in Handle : u = NewHandle(n)
    BY <1>3, FreshTypes
  <2>3. Stack(x)' = StackOf(u, s) /\ Stack(p) = StackOf(h, b)
    BY <1>a, <1>b, <2>1, <2>2, StackType, StackTypePrimed
  <2>4. /\ Len(StackOf(u, s)) = Len(StackOf(h, b)) + 1 /\ StackOf(u, s)[1] = u
        /\ Len(StackOf(h, b)) \in Nat
        /\ \A k \in 1..Len(StackOf(h, b)), m \in Nat :
              m = k + 1 => StackOf(u, s)[m] = StackOf(h, b)[k]
    <3>1. Extension(s, b, h)
      BY <1>c DEF Extension
    <3>2. QED
      BY <3>1, StackPushed
  <2>5. u.tombstones = {} /\ u.layer = n
    BY <2>2 DEF NewHandle
  <2>6. QED
    BY <1>3, <2>3, <2>4, <2>5
<1>6. ASSUME NEW x \in {p, c}, NEW k \in 1..Len(Stack(x)')
      PROVE  k = 1 \/ \E o \in 1..Len(Stack(p)) : k = o + 1
  <2>1. CASE k # 1
    <3>1. k - 1 \in 1..Len(Stack(p)) /\ k = (k - 1) + 1
      BY <1>5, <1>6, <2>1
    <3>2. QED
      BY <3>1
  <2>2. QED
    BY <2>1
<1>7. ASSUME Inherited PROVE Inherited'
  <2>1. SUFFICES ASSUME NEW a \in Agent, NEW l \in LayerId, NEW i \in Id, Alive(a)',
                        NEW k \in 1..Len(Stack(a)'), Stack(a)'[k].layer = l
                 PROVE  Records(l, i) \subseteq lineage'[a]
    BY <1>2 DEF Inherited
  <2>2. CASE a \in {p, c}
    <3>1. CASE k = 1
      BY <1>5, <2>1, <2>2, <3>1
    <3>2. CASE k # 1
      <4>1. PICK o \in 1..Len(Stack(p)) : k = o + 1
        BY <1>6, <2>2, <3>2
      <4>2. Stack(p)[o].layer = l
        BY <1>5, <2>1, <2>2, <4>1
      <4>3. Records(l, i) \subseteq lineage[p]
        BY <1>1, <1>7, <4>2 DEF Inherited
      <4>4. QED
        BY <1>4, <2>2, <4>3
    <3>3. QED
      BY <3>1, <3>2
  <2>3. CASE a \notin {p, c}
    BY <1>4, <1>7, <2>1, <2>3 DEF Inherited
  <2>4. QED
    BY <2>2, <2>3
\* A fresh handle hides nothing.
<1>8. ASSUME NEW x \in {p, c}, NEW i \in Id
      PROVE  /\ ~Hidden(x, i, 1)'
             /\ \A k \in 1..Len(Stack(p)), m \in Nat :
                   m = k + 1 => (Hidden(x, i, m)' <=> Hidden(p, i, k))
  <2>1. ~Hidden(x, i, 1)'
    BY <1>5 DEF Hidden
  <2>2. ASSUME NEW k \in 1..Len(Stack(p)), NEW m \in Nat, m = k + 1
        PROVE  Hidden(x, i, m)' <=> Hidden(p, i, k)
    <3>1. /\ Stack(x)'[1].tombstones = {}
          /\ \A o \in 1..k : o \in 1..Len(Stack(p)) /\ Stack(x)'[o + 1] = Stack(p)[o] /\ o + 1 \in 1..m
      BY <1>5, <2>2
    <3>2. \A j \in 1..m : j = 1 \/ (\E o \in 1..k : j = o + 1)
      <4>1. ASSUME NEW j \in 1..m, j # 1 PROVE \E o \in 1..k : j = o + 1
        <5>1. j - 1 \in 1..k /\ j = (j - 1) + 1
          BY <2>2, <4>1
        <5>2. QED
          BY <5>1
      <4>2. QED
        BY <4>1
    <3>3. Hidden(p, i, k) => Hidden(x, i, m)'
      BY <3>1 DEF Hidden
    <3>4. ASSUME Hidden(x, i, m)' PROVE Hidden(p, i, k)
      <4>1. PICK j \in 1..m : i \in Stack(x)'[j].tombstones
        BY <3>4 DEF Hidden
      <4>2. PICK o \in 1..k : j = o + 1
        BY <3>1, <3>2, <4>1
      <4>3. i \in Stack(p)[o].tombstones
        BY <3>1, <4>1, <4>2
      <4>4. QED
        BY <4>3 DEF Hidden
    <3>5. QED
      BY <3>3, <3>4
  <2>3. QED
    BY <2>1, <2>2
<1>9. ASSUME NEW x \in {p, c}, NEW i \in Id
      PROVE  /\ Gone(p, i) => Gone(x, i)'
             /\ \A v \in Version : There(p, i, v) => There(x, i, v)'
  <2>1. ASSUME Gone(p, i), NEW k \in 1..Len(Stack(x)'), NEW l \in LayerId,
               Stack(x)'[k].layer = l, Records(l, i)' # {}
        PROVE  Hidden(x, i, k)'
    <3>1. k # 1
      BY <1>2, <1>5, <2>1
    <3>2. PICK o \in 1..Len(Stack(p)) : k = o + 1
      BY <1>6, <3>1
    <3>3. Stack(p)[o].layer = l /\ k \in Nat
      BY <1>5, <2>1, <3>2
    <3>4. Hidden(p, i, o)
      BY <1>2, <2>1, <3>3 DEF Gone
    <3>5. QED
      BY <1>8, <3>2, <3>3, <3>4
  <2>2. ASSUME NEW v \in Version, There(p, i, v)
        PROVE  There(x, i, v)'
    <3>1. PICK o \in 1..Len(Stack(p)), l \in LayerId :
             Stack(p)[o].layer = l /\ v \in Records(l, i) /\ ~Hidden(p, i, o)
      BY <2>2 DEF There
    <3>2. PICK m \in 1..Len(Stack(x)') : m = o + 1 /\ m \in Nat
      BY <1>5
    <3>3. Stack(x)'[m].layer = l /\ v \in Records(l, i)'
      BY <1>2, <1>5, <3>1, <3>2
    <3>4. ~Hidden(x, i, m)'
      BY <1>8, <3>1, <3>2
    <3>5. QED
      BY <3>1, <3>3, <3>4 DEF There
  <2>3. QED
    BY <2>1, <2>2 DEF Gone
<1>10. ASSUME Stacked PROVE Stacked'
  <2>1. ASSUME NEW a \in Agent, NEW i \in Id, Alive(a)'
        PROVE  /\ latest'[a][i] = None => Gone(a, i)'
               /\ \A v \in Version : latest'[a][i] = v => There(a, i, v)'
    <3>1. CASE a \in {p, c}
      BY <1>1, <1>4, <1>9, <1>10, <3>1 DEF Stacked
    <3>2. CASE a \notin {p, c}
      <4>1. \A k \in 1..Len(Stack(a)) : Hidden(a, i, k)' <=> Hidden(a, i, k)
        BY <1>4, <3>2 DEF Hidden
      <4>a. Stack(a)' = Stack(a)
        BY <1>4, <3>2
      <4>2. Gone(a, i) => Gone(a, i)'
        BY <1>2, <4>a, <4>1 DEF Gone
      <4>3. \A v \in Version : There(a, i, v) => There(a, i, v)'
        BY <1>2, <4>a, <4>1 DEF There
      <4>4. QED
        BY <1>4, <1>10, <2>1, <3>2, <4>2, <4>3 DEF Stacked
    <3>3. QED
      BY <3>1, <3>2
  <2>2. QED
    BY <2>1 DEF Stacked
<1>11. QED
  BY <1>7, <1>10

(***************************************************************************)
(* The invariant holds at the start and is preserved.                      *)
(***************************************************************************)
IInv == TypeOK /\ Compacting /\ Owned /\ Counted /\ Inherited /\ Stacked

LEMMA InvInit == Init => IInv
<1> SUFFICES ASSUME Init PROVE IInv
  OBVIOUS
<1>1. TypeOK
  BY TypeInit
<1>2. PICK first \in Agent :
        vfs = [a \in Agent |->
                 [status |-> IF a = first THEN "alive" ELSE "unborn", hollow |-> FALSE,
                  active |-> NewHandle(1), base |-> <<>>, writing |-> {}]]
  BY DEF Init
<1>3. /\ \A a \in Agent : /\ vfs[a].base = <<>> /\ vfs[a].writing = {} /\ vfs[a].active.layer = 1
                          /\ Alive(a) => a = first
      /\ layers = 1 /\ 1 \in LayerId
  BY <1>2, Numbers DEF Alive, NewHandle, Init, LayerId
<1>4. \A a \in Agent : Held(vfs[a].base) = {}
  <2>1. Held(<<>>) = {}
    BY DEF Held
  <2>2. QED
    BY <1>3, <2>1
<1>5. /\ \A l \in LayerId : /\ layer[l].refs = 1
                            /\ \A i \in Id : layer[l].tier1[i] = None /\ layer[l].tier2[i] = {}
      /\ \A w \in Agent : /\ worker[w].bound = 1 /\ worker[w].queue = 0 /\ ~worker[w].busy
                          /\ worker[w].todo = {} /\ \A i \in Id : worker[w].taken[i] = None
      /\ \A a \in Agent, i \in Id : latest[a][i] = None
      /\ None \notin Version
  BY Numbers DEF Init, FreshLayer, NewWorker
<1>6. \A l \in LayerId, i \in Id : Records(l, i) = {}
  BY <1>5 DEF Records
<1>7. Compacting
  BY <1>3, <1>5 DEF Compacting
<1>8. Owned
  <2>1. \A a \in Agent : /\ vfs[a].active.layer <= layers /\ layer[vfs[a].active.layer].refs = 1
                        /\ \A b \in Agent : Alive(a) /\ Alive(b) => a = b
    BY <1>3, <1>5
  <2>2. QED
    BY <1>3, <1>4, <1>5, <1>6, <2>1 DEF Owned
<1>9. Counted
  <2>1. \A l \in LayerId : Holders(l) = {}
    BY <1>4 DEF Holders
  <2>2. QED
    BY <2>1, FS_EmptySet DEF Counted
<1>10. Inherited
  BY <1>6 DEF Inherited
<1>11. Stacked
  BY <1>5, <1>6 DEF Stacked, Gone
<1>12. QED
  BY <1>1, <1>7, <1>8, <1>9, <1>10, <1>11 DEF IInv

LEMMA InvNext == IInv /\ [Next]_vars => IInv'
<1> SUFFICES ASSUME IInv, [Next]_vars PROVE IInv'
  OBVIOUS
<1>0. TypeOK /\ Compacting /\ Owned /\ Counted /\ Inherited /\ Stacked
  BY DEF IInv
<1>a. TypeOK' /\ Compacting'
  BY <1>0, TypeNext, CompactingNext
<1> DEFINE Rest == Owned' /\ Counted' /\ Inherited' /\ Stacked'
<1>1. ASSUME NEW a \in Agent, NEW i \in Id, Admit(a, i) PROVE Rest
  <2>1. /\ Alive(a) /\ LayersAs({"tier1", "tier2", "refs", "file"})
        /\ VfsAs({"status", "hollow", "active", "base"})
        /\ WorkersAs({"bound", "busy", "todo", "taken"})
        /\ \A b \in Agent \ {a} : vfs'[b] = vfs[b]
        /\ UNCHANGED <<layers, latest, lineage>>
    BY <1>0, <1>1, AdmitEffect
  <2>2. /\ LayersAs({"tier1", "tier2"}) /\ LayersAs({"refs"}) /\ VfsAs({"status", "active", "base"})
        /\ WorkersAs({"bound", "taken"})
        /\ \A l \in LayerId : layer'[l].file = layer[l].file
    BY <2>1 DEF LayersAs, VfsAs, WorkersAs
  <2>3. \A l \in LayerId, j \in Id : Records(l, j)' = Records(l, j)
    BY <1>0, <2>2, RecordsStay
  <2>4. QED
    BY <1>0, <2>1, <2>2, <2>3, QuietStep
<1>2. ASSUME NEW a \in Agent, NEW i \in Id, Insert(a, i) PROVE Rest
  BY <1>0, <1>a, <1>2, InsertOwned, InsertStacked
<1>3. ASSUME NEW a \in Agent, NEW i \in Id, Forget(a, i) PROVE Rest
  BY <1>0, <1>a, <1>3, ForgetOwned, ForgetStacked
<1>4. ASSUME NEW a \in Agent, NEW i \in Id, Visit(a, i) PROVE Rest
  <2>1. LayersAs({"tier2", "refs", "file"}) /\ UNCHANGED <<layers, vfs, latest, lineage>>
    BY <1>0, <1>4, VisitEffect
  <2>2. /\ LayersAs({"refs"}) /\ \A l \in LayerId : layer'[l].file = layer[l].file
    BY <2>1 DEF LayersAs
  <2>3. VfsAs({"status", "active", "base"})
    BY <1>0, <2>1, NothingChanges
  <2>4. \A l \in LayerId, j \in Id : Records(l, j)' = Records(l, j)
    BY <1>0, <1>4, RecordsVisited
  <2>5. QED
    BY <1>0, <2>1, <2>2, <2>3, <2>4, QuietStep
<1>5. ASSUME NEW a \in Agent, TakeRequest(a) PROVE Rest
  <2>1. WorkersAs({"bound", "taken"}) /\ UNCHANGED <<layer, layers, vfs, latest, lineage>>
    BY <1>0, <1>5, TakeRequestEffect
  <2>2. /\ LayersAs({"refs"}) /\ LayersAs({"tier1", "tier2"}) /\ VfsAs({"status", "active", "base"})
    BY <1>0, <2>1, NothingChanges
  <2>3. \A l \in LayerId, j \in Id : Records(l, j)' = Records(l, j)
    BY <1>0, <2>1, <2>2, RecordsStay
  <2>4. QED
    BY <1>0, <2>1, <2>2, <2>3, QuietStep
<1>6. ASSUME NEW a \in Agent, Swap(a) PROVE Rest
  <2>1. LayersAs({"tier1", "refs", "file"}) /\ UNCHANGED <<layers, vfs, latest, lineage>>
    BY <1>0, <1>6, SwapEffect
  <2>2. /\ LayersAs({"refs"}) /\ \A l \in LayerId : layer'[l].file = layer[l].file
    BY <2>1 DEF LayersAs
  <2>3. VfsAs({"status", "active", "base"})
    BY <1>0, <2>1, NothingChanges
  <2>4. \A l \in LayerId, j \in Id : Records(l, j)' = Records(l, j)
    BY <1>0, <1>6, RecordsSwapped
  <2>5. QED
    BY <1>0, <2>1, <2>2, <2>3, <2>4, QuietStep
<1>7. ASSUME NEW a \in Agent, Drop(a) PROVE Rest
  BY <1>0, <1>a, <1>7, DropKeeps
<1>8. ASSUME NEW a \in Agent, Resume(a) PROVE Rest
  <2>1. VfsAs({"status", "active", "base", "writing"}) /\ UNCHANGED <<layer, layers, worker, latest, lineage>>
    BY <1>0, <1>8, ResumeEffect
  <2>2. /\ LayersAs({"refs"}) /\ LayersAs({"tier1", "tier2"}) /\ WorkersAs({"bound", "taken"})
    BY <1>0, <2>1, NothingChanges
  <2>3. VfsAs({"status", "active", "base"}) /\ \A b \in Agent : vfs'[b].writing = vfs[b].writing
    BY <2>1 DEF VfsAs
  <2>4. \A l \in LayerId, j \in Id : Records(l, j)' = Records(l, j)
    BY <1>0, <2>2, RecordsStay
  <2>5. QED
    BY <1>0, <2>1, <2>2, <2>3, <2>4, QuietStep
<1>9. ASSUME NEW p \in Agent, NEW c \in Agent, Spawn(p, c) PROVE Rest
  BY <1>0, <1>a, <1>9, SpawnOwned, SpawnStacked
<1>10. ASSUME NEW l \in LayerId, Flush(l) PROVE Rest
  <2>1. /\ LayersAs({"tier1", "tier2", "refs"}) /\ layer'[l].file = "written"
        /\ \A m \in LayerId \ {l} : layer'[m] = layer[m]
        /\ UNCHANGED <<layers, vfs, worker, latest, lineage>>
    BY <1>0, <1>10, FlushEffect
  <2>2. LayersAs({"tier1", "tier2"}) /\ LayersAs({"refs"})
    BY <2>1 DEF LayersAs
  <2>3. VfsAs({"status", "active", "base"}) /\ WorkersAs({"bound", "taken"})
    BY <1>0, <2>1, NothingChanges
  <2>4. \A m \in LayerId, j \in Id : Records(m, j)' = Records(m, j)
    BY <1>0, <2>2, <2>3, RecordsStay
  <2>5. QED
    BY <1>0, <2>1, <2>2, <2>3, <2>4, QuietStep
<1>11. ASSUME UNCHANGED vars PROVE Rest
  <2>1. UNCHANGED <<layer, layers, vfs, worker, latest, lineage>>
    BY <1>11 DEF vars
  <2>2. /\ LayersAs({"tier1", "tier2"}) /\ LayersAs({"refs"}) /\ VfsAs({"status", "active", "base"})
        /\ WorkersAs({"bound", "taken"})
    BY <1>0, <2>1, NothingChanges
  <2>3. \A m \in LayerId, j \in Id : Records(m, j)' = Records(m, j)
    BY <1>0, <2>2, RecordsStay
  <2>4. /\ \A l \in LayerId : layer'[l].file = layer[l].file
        /\ \A a \in Agent : vfs'[a].writing = vfs[a].writing
        /\ UNCHANGED <<layers, latest, lineage>>
    BY <2>1
  <2>5. QED
    BY <1>0, <2>2, <2>3, <2>4, QuietStep
<1>12. Rest
  BY <1>1, <1>2, <1>3, <1>4, <1>5, <1>6, <1>7, <1>8, <1>9, <1>10, <1>11 DEF Next
<1>13. QED
  BY <1>a, <1>12 DEF IInv

LEMMA InvAlways == Spec => []IInv
BY InvInit, InvNext, PTL DEF Spec

(***************************************************************************)
(* Recall.                                                                 *)
(***************************************************************************)
LEMMA LeastIsMin ==
    ASSUME NEW S \in SUBSET Nat, S # {}
    PROVE  Min(S) \in S /\ \A k \in S : Min(S) <= k
<1> DEFINE R == {ss \in Nat \X Nat : ss[1] < ss[2]}
<1>1. IsWellFoundedOn(R, Nat)
  BY NatLessThanWellFounded DEF OpToRel
<1>2. \A k, m \in Nat : k < m => <<k, m>> \in R
  OBVIOUS
<1> HIDE DEF R
<1>3. PICK m \in S : \A k \in S : ~(<<k, m>> \in R)
  BY <1>1, WFMin
<1>4. \A k \in S : ~(k < m)
  BY <1>2, <1>3
<1>5. \A k \in S : m <= k
  BY <1>4
<1>6. QED
  BY <1>5 DEF Min

Hits(a, i, query) == {k \in 1..Len(Stack(a)) : Found(Stack(a)[k].layer, i, query) # {}}

LEMMA FirstHit ==
    ASSUME TypeOK, NEW a \in Agent, NEW i \in Id, NEW query
    PROVE  /\ Hits(a, i, query) = {} => Recall(a, i, query) = {}
           /\ Hits(a, i, query) # {} =>
                \E n \in Hits(a, i, query) :
                   /\ \A k \in Hits(a, i, query) : n <= k
                   /\ vfs[a].hollow \/ Hidden(a, i, n) => Recall(a, i, query) = {}
                   /\ ~vfs[a].hollow /\ ~Hidden(a, i, n) =>
                        Recall(a, i, query) = Found(Stack(a)[n].layer, i, query)
<1>1. Recall(a, i, query) =
        IF \/ vfs[a].hollow \/ Hits(a, i, query) = {}
           \/ \E k \in 1..Min(Hits(a, i, query)) : i \in Stack(a)[k].tombstones
        THEN {}
        ELSE Found(Stack(a)[Min(Hits(a, i, query))].layer, i, query)
  BY DEF Recall, Hits
<1>2. Hits(a, i, query) = {} => Recall(a, i, query) = {}
  BY <1>1
<1>3. ASSUME Hits(a, i, query) # {}
      PROVE  \E n \in Hits(a, i, query) :
               /\ \A k \in Hits(a, i, query) : n <= k
               /\ vfs[a].hollow \/ Hidden(a, i, n) => Recall(a, i, query) = {}
               /\ ~vfs[a].hollow /\ ~Hidden(a, i, n) =>
                    Recall(a, i, query) = Found(Stack(a)[n].layer, i, query)
  <2>1. PICK S : S = Hits(a, i, query)
    OBVIOUS
  <2>2. S \subseteq Nat /\ S # {}
    BY <1>3, <2>1 DEF Hits
  <2>3. PICK n \in S : n = Min(S) /\ \A k \in S : n <= k
    BY <2>2, LeastIsMin
  <2>4. Recall(a, i, query) = IF \/ vfs[a].hollow \/ Hidden(a, i, n) THEN {}
                              ELSE Found(Stack(a)[n].layer, i, query)
    BY <1>1, <1>3, <2>1, <2>3 DEF Hidden
  <2>5. QED
    BY <2>1, <2>3, <2>4
<1>4. QED
  BY <1>2, <1>3

\* What a layer yields is of its records, and it yields what matches.
LEMMA FoundRecords ==
    ASSUME TypeOK, NEW l \in LayerId, NEW i \in Id, NEW query, query \subseteq Version
    PROVE  /\ Found(l, i, query) \subseteq Records(l, i)
           /\ \A v \in query : layer[l].tier1[i] = v \/ v \in layer[l].tier2[i]
                                  => Found(l, i, query) # {}
<1>1. layer[l].tier2[i] \subseteq Version /\ Version \subseteq Nat
  BY LayerParts, Numbers DEF TypeOK
<1>2. CASE layer[l].tier1[i] \in query
  BY <1>2 DEF Found, Records
<1>3. CASE layer[l].tier1[i] \notin query /\ layer[l].tier2[i] \cap query # {}
  <2>1. PICK S : S = layer[l].tier2[i]
    OBVIOUS
  <2>2. S \subseteq Nat /\ S # {}
    BY <1>1, <1>3, <2>1
  <2>3. Min(S) \in S
    BY <2>2, LeastIsMin
  <2>4. Found(l, i, query) = {Min(S)}
    BY <1>3, <2>1 DEF Found
  <2>5. QED
    BY <1>1, <2>1, <2>3, <2>4 DEF Records
<1>4. CASE layer[l].tier1[i] \notin query /\ layer[l].tier2[i] \cap query = {}
  BY <1>4 DEF Found
<1>5. QED
  BY <1>2, <1>3, <1>4

(***************************************************************************)
(* What the runs check, for every value of the constants.                  *)
(***************************************************************************)
\* Every state of the memory has its type.
THEOREM TypeCorrect == Spec => []TypeOK
<1>1. IInv => TypeOK
  BY DEF IInv
<1>2. QED
  BY <1>1, InvAlways, PTL

\* An agent that was not resumed recalls what it, or an ancestor before the
\* spawn, last remembered, unless a compaction has it in its hands: a layer of the
\* stack has the record and nothing above it hides the id.
THEOREM RecallFindsRemembered == Spec => []RecallsRemembered
<1>1. IInv => RecallsRemembered
  <2>1. SUFFICES ASSUME IInv, NEW a \in Agent, Alive(a), ~vfs[a].hollow, NEW i \in Id,
                        latest[a][i] # None
                 PROVE  Recall(a, i, {latest[a][i]}) # {} \/ Carried(i, latest[a][i])
    BY DEF RecallsRemembered, Recalled
  <2>2. TypeOK /\ Stacked
    BY <2>1 DEF IInv
  <2>3. PICK v \in Version : v = latest[a][i]
    BY <2>1, <2>2 DEF TypeOK
  <2>4. PICK k \in 1..Len(Stack(a)), l \in LayerId :
          Stack(a)[k].layer = l /\ v \in Records(l, i) /\ ~Hidden(a, i, k)
    BY <2>1, <2>2, <2>3 DEF Stacked, There
  <2>5. CASE \E w \in Agent : worker[w].taken[i] = v
    BY <2>3, <2>5 DEF Carried
  <2>6. CASE ~\E w \in Agent : worker[w].taken[i] = v
    <3>1. layer[l].tier1[i] = v \/ v \in layer[l].tier2[i]
      BY <2>4, <2>6 DEF Records
    <3>2. PICK q : q = {v}
      OBVIOUS
    <3>3. Found(l, i, q) # {}
      BY <2>2, <3>1, <3>2, FoundRecords
    <3>4. k \in Hits(a, i, q)
      BY <2>4, <3>3 DEF Hits
    <3>5. PICK n \in Hits(a, i, q) :
            /\ \A o \in Hits(a, i, q) : n <= o
            /\ ~vfs[a].hollow /\ ~Hidden(a, i, n) =>
                 Recall(a, i, q) = Found(Stack(a)[n].layer, i, q)
      BY <2>2, <3>4, FirstHit
    <3>6. ~Hidden(a, i, n)
      <4>1. n <= k /\ n \in Nat /\ k \in Nat
        BY <3>4, <3>5 DEF Hits
      <4>2. \A j \in 1..n : j \in 1..k
        BY <4>1
      <4>3. QED
        BY <2>4, <4>2 DEF Hidden
    <3>7. Recall(a, i, q) # {}
      BY <2>1, <3>5, <3>6 DEF Hits
    <3>8. QED
      BY <2>3, <3>2, <3>7
  <2>7. QED
    BY <2>5, <2>6
<1>2. QED
  BY <1>1, InvAlways, PTL

\* A forgotten id is not found: every layer of the stack that has a record under
\* it is below a tombstone.
THEOREM ForgettingLasts == Spec => []ForgottenStaysForgotten
<1>1. IInv => ForgottenStaysForgotten
  <2>1. SUFFICES ASSUME IInv, NEW a \in Agent, NEW i \in Id, Alive(a), latest[a][i] = None
                 PROVE  Recall(a, i, Version) = {}
    BY DEF ForgottenStaysForgotten
  <2>2. TypeOK /\ Gone(a, i)
    BY <2>1 DEF IInv, Stacked
  <2>3. CASE Hits(a, i, Version) = {}
    BY <2>2, <2>3, FirstHit
  <2>4. CASE Hits(a, i, Version) # {}
    <3>1. PICK n \in Hits(a, i, Version) :
             vfs[a].hollow \/ Hidden(a, i, n) => Recall(a, i, Version) = {}
      BY <2>2, <2>4, FirstHit
    <3>2. PICK l \in LayerId : Stack(a)[n].layer = l /\ n \in 1..Len(Stack(a)) /\ Found(l, i, Version) # {}
      BY <2>2, StackType DEF Hits
    <3>3. Records(l, i) # {}
      BY <2>2, <3>2, FoundRecords
    <3>4. Hidden(a, i, n)
      BY <2>2, <3>2, <3>3 DEF Gone
    <3>5. QED
      BY <3>1, <3>4
  <2>5. QED
    BY <2>3, <2>4
<1>2. QED
  BY <1>1, InvAlways, PTL

\* An agent reads only what it wrote or inherited at its spawn: nobody else
\* writes into a layer of its stack.
THEOREM KnowledgeStaysApart == Spec => []KnowledgeDiverges
<1>1. IInv => KnowledgeDiverges
  <2>1. SUFFICES ASSUME IInv, NEW a \in Agent, NEW i \in Id, Alive(a)
                 PROVE  Recall(a, i, Version) \subseteq lineage[a]
    BY DEF KnowledgeDiverges
  <2>2. TypeOK /\ Inherited
    BY <2>1 DEF IInv
  <2>3. CASE Hits(a, i, Version) = {}
    BY <2>2, <2>3, FirstHit
  <2>4. CASE Hits(a, i, Version) # {}
    <3>1. PICK n \in Hits(a, i, Version) :
             \/ Recall(a, i, Version) = {}
             \/ Recall(a, i, Version) = Found(Stack(a)[n].layer, i, Version)
      BY <2>2, <2>4, FirstHit
    <3>2. PICK l \in LayerId : Stack(a)[n].layer = l /\ n \in 1..Len(Stack(a))
      BY <2>2, StackType DEF Hits
    <3>3. Found(l, i, Version) \subseteq Records(l, i) /\ Records(l, i) \subseteq lineage[a]
      BY <2>1, <2>2, <3>2, FoundRecords DEF Inherited
    <3>4. QED
      BY <3>1, <3>2, <3>3
  <2>5. QED
    BY <2>3, <2>4
<1>2. QED
  BY <1>1, InvAlways, PTL

\* The file of a frozen layer is deleted by the last handle only, however spawns,
\* flushes and drops interleave: ref_count is the number of agents that hold it.
THEOREM HeldLayersSurvive == Spec => []HeldLayersStayOnDisk
<1>1. IInv => HeldLayersStayOnDisk
  BY HeldCounted DEF IInv, HeldLayersStayOnDisk
<1>2. QED
  BY <1>1, InvAlways, PTL
=============================================================================
