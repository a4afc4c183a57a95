--------------------------- MODULE MeshNode_proofs ---------------------------
(* Theorems about MeshNode for every number of clients, aliases, requests    *)
(* and units of fuel.                                                        *)
EXTENDS MeshNode, TLAPS

(***************************************************************************)
(* Building blocks: the records the actions store have their types.        *)
(***************************************************************************)
LEMMA NewFrameType ==
    ASSUME NEW a \in Alias \cup {NoAlias}, NEW p \in Nat, NEW f \in Nat, NEW d \in Nat
    PROVE  /\ NewFrame(a, p, f, d) \in Frame
           /\ NewFrame(a, p, f, d).stage = "boot"
           /\ NewFrame(a, p, f, d).alias = a
           /\ NewFrame(a, p, f, d).parent = p
           /\ NewFrame(a, p, f, d).tet = NoTet
BY DEF NewFrame, IdleFrame, Frame, Stages, NoTet

LEMMA AskingType ==
    ASSUME NEW a \in Alias, NEW f \in Nat
    PROVE  /\ Asking(a, f) \in Frame
           /\ Asking(a, f).stage = "asking" /\ Asking(a, f).tet = NoTet
           /\ Asking(a, f).parent = NoTet
           /\ Asking(a, f).limit = f /\ Asking(a, f).fuel = 0
           /\ Asking(a, f).work = 0 /\ Asking(a, f).owed = 0
BY DEF Asking, IdleFrame, Frame, Stages, NoTet

(* The record updates the actions make stay within Frame.                  *)
LEMMA FrameWith ==
    ASSUME NEW r \in Frame, NEW st \in Stages, NEW te \in Nat, NEW fu \in Nat,
           NEW ow \in Nat, NEW wo \in Nat
    PROVE  /\ [r EXCEPT !.stage = st] \in Frame
           /\ [r EXCEPT !.stage = st, !.tet = te, !.fuel = fu] \in Frame
           /\ [r EXCEPT !.fuel = fu, !.work = wo] \in Frame
           /\ [r EXCEPT !.stage = st, !.fuel = fu, !.work = wo] \in Frame
           /\ [r EXCEPT !.stage = st, !.fuel = fu, !.owed = ow, !.work = wo] \in Frame
           /\ [r EXCEPT !.stage = st, !.owed = ow, !.work = wo] \in Frame
BY DEF Frame

(* A step that only moves a task to another stage.                          *)
LEMMA StageType ==
    ASSUME TypeOK, NEW t \in Task, NEW st \in Stages,
           frame' = [frame EXCEPT ![t].stage = st]
    PROVE  frame' \in [Task -> Frame]
<1>1. frame[t] \in Frame
  BY DEF TypeOK
<1>2. [frame[t] EXCEPT !.stage = st] \in Frame
  BY <1>1, FrameWith
<1>3. QED
  BY <1>2 DEF TypeOK

LEMMA ConstantTypes ==
    /\ IdleFrame \in Frame /\ IdleFrame.tet = NoTet /\ IdleFrame.stage = "idle"
    /\ IdleFrame.parent = NoTet
    /\ NoReply \in Reply
    /\ NoMessage \in Message
BY DEF IdleFrame, Frame, Stages, NoTet, NoReply, Reply, NoMessage, Message, Kinds, Task

LEMMA AnswerType ==
    ASSUME NEW u \in Nat, NEW w \in Nat
    PROVE  Answer(u, w) \in Reply
BY DEF Answer, Reply

LEMMA MonusType ==
    ASSUME NEW m \in Nat, NEW n \in Nat
    PROVE  Monus(m, n) \in Nat
BY DEF Monus

LEMMA SendType ==
    ASSUME TypeOK, NEW t \in Task, NEW k \in Kinds, NEW a \in Alias \cup {NoAlias},
           NEW f \in Nat, NEW d \in Nat, Send(t, k, a, f, d)
    PROVE  outbox' \in [Task -> Message]
BY DEF TypeOK, Send, Message

LEMMA ConcludeType ==
    ASSUME TypeOK, NEW t \in Task, NEW r \in Reply, Conclude(t, r)
    PROVE  /\ frame' \in [Task -> Frame]
           /\ reply' \in [Task -> Reply]
           /\ serving' \in Message
<1>1. QED
  BY ConstantTypes DEF TypeOK, Conclude, Delivered

\* Another name for the sender keeps a message one.
LEMMA UnheardType ==
    ASSUME NEW m \in Message, NEW c \in Task
    PROVE  /\ Unheard(m, c) \in Message
           /\ Unheard(m, c).kind = m.kind /\ Unheard(m, c).alias = m.alias
           /\ Unheard(m, c).fuel = m.fuel
           /\ Unheard(m, c).from = IF m.from = c THEN NoTask ELSE m.from
BY DEF Unheard, Message

\* A second copy of a memory.
LEMMA CopyType ==
    ASSUME TypeOK, NEW v \in memories, Copy(v)
    PROVE  /\ DOMAIN snapshots' \subseteq Id /\ \A s \in DOMAIN snapshots' : snapshots'[s] \in Id
           /\ nextId' \in Id
<1>1. v \in Id /\ nextId \in Id
  BY DEF TypeOK
<1>2. QED
  BY <1>1 DEF TypeOK, Copy, Id, NoTet

LEMMA WithEntryType ==
    ASSUME NEW S \in SUBSET Entry, NEW e \in Entry
    PROVE  WithEntry(S, e) \in SUBSET Entry
BY DEF WithEntry

-----------------------------------------------------------------------------
(***************************************************************************)
(* Type correctness is inductive together with the shape of the frames: a  *)
(* guest that runs, or whose execution is being stored, has a tet_id; an   *)
(* API task without a guest only sends calls; a frame that restored memory *)
(* restored a stored snapshot; fuel is never more than what was allocated. *)
(***************************************************************************)
HasTet == {"run", "ran", "registered", "stored", "snapped", "pruned"}

Shape ==
    \A t \in Task :
        /\ frame[t].stage \in HasTet => frame[t].tet # NoTet
        /\ frame[t].stage = "send" /\ frame[t].tet = NoTet => outbox[t].kind = "call"
        /\ frame[t].parent # NoTet => frame[t].parent \in DOMAIN snapshots
        /\ frame[t].fuel <= frame[t].limit

LEMMA TypeInit == Init => TypeOK /\ Shape
<1> SUFFICES ASSUME Init PROVE TypeOK /\ Shape
  OBVIOUS
<1>1. \A t \in Task : frame[t] = IdleFrame /\ outbox[t] \in Message
  BY ConstantTypes DEF Init
<1>2. IdleFrame.fuel <= IdleFrame.limit
  BY DEF IdleFrame
<1>3. Shape
  BY <1>1, <1>2, ConstantTypes DEF Shape, HasTet
<1>4. /\ registry \in [Alias -> SUBSET Entry]
      /\ DOMAIN snapshots = {}
      /\ memories \subseteq Id
      /\ superseded \subseteq Alias \X Id
      /\ dropped \subseteq Id
  BY DEF Init
<1>5. channel \in Seq(Message) /\ Len(channel) <= Capacity
  BY MeshAssumption DEF Init
<1>6. nextId \in Id /\ requests \in Nat
  BY DEF Init, Id, NoTet
<1>7. /\ outbox \in [Task -> Message]
      /\ frame \in [Task -> Frame]
      /\ reply \in [Task -> Reply]
      /\ serving \in Message
  BY ConstantTypes DEF Init
<1>8. QED
  BY <1>3, <1>4, <1>5, <1>6, <1>7 DEF TypeOK

\* Every call names an alias; only economy packets and forks may have none.
Named(m) == m.kind = "call" => m.alias \in Alias
CallsNamed == /\ \A t \in Task : Named(outbox[t])
              /\ channel \in Seq({m \in Message : Named(m)})

LEMMA TypeNext == TypeOK /\ Shape /\ CallsNamed /\ [Next]_vars => TypeOK'
<1> SUFFICES ASSUME TypeOK, Shape, CallsNamed, [Next]_vars PROVE TypeOK'
  OBVIOUS
<1> USE MeshAssumption
<1>a. /\ \A t \in Task : frame[t] \in Frame /\ outbox[t] \in Message /\ reply[t] \in Reply
      /\ Worker \in Task /\ Client \subseteq Task /\ Forked \subseteq Task
  BY DEF TypeOK, Task
<1>n. "run" \in Stages /\ "send" \in Stages /\ "ran" \in Stages
  BY DEF Stages
<1>1. ASSUME NEW c \in Client, ExecuteRequest(c) PROVE TypeOK'
  <2>1. PICK a \in Alias \cup {NoAlias}, p \in {NoTet} \cup Copies, f \in 0..MaxFuel, d \in InputDepth :
           frame' = [frame EXCEPT ![c] = NewFrame(a, p, f, d)]
    BY <1>1 DEF ExecuteRequest
  <2>2. p \in Nat
    BY DEF Copies, TypeOK, Id, NoTet
  <2>3. NewFrame(a, p, f, d) \in Frame
    BY <2>2, NewFrameType
  <2>4. requests' \in Nat
    BY <1>1 DEF ExecuteRequest, Accept, TypeOK
  <2>5. QED
    BY <1>1, <1>a, <2>1, <2>3, <2>4 DEF ExecuteRequest, TypeOK
\* What handle_snapshot and handle_topup have in common.
<1>2. ASSUME NEW c \in Client, requests' = requests + 1,
             \/ \E v \in memories : Copy(v)
             \/ UNCHANGED <<snapshots, nextId>>,
             \/ UNCHANGED frame
             \/ \E a \in Alias : frame' = [frame EXCEPT ![c] = Asking(a, 0)]
             \/ \E a \in Alias, f \in 0..MaxFuel :
                   frame' = [frame EXCEPT ![c] = NewFrame(a, nextId, f, 0)],
             UNCHANGED <<registry, memories, channel, outbox, serving, reply,
                         superseded, dropped>>
      PROVE  TypeOK'
  <2>1. requests' \in Nat /\ nextId \in Nat
    BY <1>2 DEF TypeOK, Id
  <2>2. /\ DOMAIN snapshots' \subseteq Id /\ \A s \in DOMAIN snapshots' : snapshots'[s] \in Id
        /\ nextId' \in Id
    BY <1>2, CopyType DEF TypeOK
  <2>3. frame' \in [Task -> Frame]
    <3>1. CASE \E a \in Alias : frame' = [frame EXCEPT ![c] = Asking(a, 0)]
      BY <1>a, <3>1, AskingType DEF TypeOK
    <3>2. ASSUME NEW a \in Alias, NEW f \in 0..MaxFuel,
                 frame' = [frame EXCEPT ![c] = NewFrame(a, nextId, f, 0)]
          PROVE  frame' \in [Task -> Frame]
      <4>1. NewFrame(a, nextId, f, 0) \in Frame
        BY <2>1, NewFrameType
      <4>2. QED
        BY <1>a, <3>2, <4>1 DEF TypeOK
    <3>3. QED
      BY <1>2, <3>1, <3>2 DEF TypeOK
  <2>4. QED
    BY <1>2, <2>1, <2>2, <2>3 DEF TypeOK
<1>3. ASSUME NEW c \in Client, SnapshotRequest(c) PROVE TypeOK'
  BY <1>2, <1>3 DEF SnapshotRequest, Accept
<1>4. ASSUME NEW c \in Client, TopUpRequest(c) PROVE TypeOK'
  <2>1. /\ requests' = requests + 1
        /\ UNCHANGED <<registry, memories, channel, outbox, serving, reply, superseded, dropped>>
    BY <1>4 DEF TopUpRequest, Accept
  <2>2. /\ \/ \E v \in memories : Copy(v)
           \/ UNCHANGED <<snapshots, nextId>>
        /\ \/ UNCHANGED frame
           \/ \E a \in Alias : frame' = [frame EXCEPT ![c] = Asking(a, 0)]
           \/ \E a \in Alias, f \in 0..MaxFuel :
                 frame' = [frame EXCEPT ![c] = NewFrame(a, nextId, f, 0)]
    BY <1>4 DEF TopUpRequest
  <2>3. QED
    BY <1>2, <2>1, <2>2
<1>5. ASSUME NEW t \in Task, PeersAnswer(t) PROVE TypeOK'
  BY <1>5, ConcludeType, AnswerType DEF PeersAnswer, TypeOK
<1>6. ASSUME NEW c \in Client, Disconnect(c) PROVE TypeOK'
  <2>1. /\ frame' \in [Task -> Frame] /\ outbox' \in [Task -> Message]
        /\ reply' \in [Task -> Reply]
    BY <1>6, <1>a, ConstantTypes DEF Disconnect, TypeOK
  <2>2. serving' \in Message
    BY <1>6, <1>a, UnheardType DEF Disconnect, TypeOK
  <2>3. channel' \in Seq(Message) /\ Len(channel') <= Capacity
    <3>1. PICK n \in Nat : n = Len(channel) /\ DOMAIN channel = 1..n
      BY DEF TypeOK
    <3>2. \A i \in 1..n : channel[i] \in Message
      BY <3>1 DEF TypeOK
    <3>3. channel' = [i \in 1..n |-> Unheard(channel[i], c)]
      BY <1>6, <3>1 DEF Disconnect
    <3>4. \A i \in 1..n : Unheard(channel[i], c) \in Message
      BY <1>a, <3>2, UnheardType
    <3>5. channel' \in [1..n -> Message]
      BY <3>3, <3>4
    <3>6. channel' \in Seq(Message) /\ Len(channel') = n
      BY <3>5
    <3>7. QED
      BY <3>1, <3>6 DEF TypeOK
  <2>4. dropped' \subseteq Id
    <3>1. frame[c].stage \in InStoring => frame[c].tet \in Id
      BY <1>a DEF Shape, HasTet, InStoring, Frame, Id, NoTet
    <3>2. QED
      BY <1>6, <3>1 DEF Disconnect, TypeOK
  <2>5. QED
    BY <1>6, <2>1, <2>2, <2>3, <2>4 DEF Disconnect, TypeOK
<1>7. ASSUME NEW c \in Client, CallRequest(c) PROVE TypeOK'
  <2>1. PICK a \in Alias, f \in 0..MaxFuel : Send(c, "call", a, f, 0)
    BY <1>7 DEF CallRequest
  <2>2. outbox' \in [Task -> Message]
    BY <2>1, <1>a, SendType DEF Kinds
  <2>3. frame' \in [Task -> Frame]
    <3>1. c \in Task
      BY <1>a
    <3>2. frame' = [frame EXCEPT ![c].stage = "send"]
      BY <1>7 DEF CallRequest
    <3>3. [frame[c] EXCEPT !.stage = "send"] \in Frame
      BY <3>1, <1>a, FrameWith, <1>n
    <3>4. QED
      BY <3>1, <3>2, <3>3 DEF TypeOK
  <2>4. QED
    BY <1>7, <2>2, <2>3 DEF CallRequest, Accept, TypeOK
<1>8. ASSUME NEW t \in Task, Boot(t) PROVE TypeOK'
  <2>1. CASE Conclude(t, Answer(0, 0)) /\ UNCHANGED nextId
    BY <1>8, <2>1, ConcludeType, AnswerType DEF Boot, TypeOK
  <2>2. CASE /\ frame' = [frame EXCEPT ![t].stage = "run", ![t].tet = nextId,
                                       ![t].fuel = frame[t].limit]
             /\ nextId' = nextId + 1
             /\ UNCHANGED <<reply, serving>>
    <3>a. frame[t].limit \in Nat /\ nextId \in Nat
      BY <1>a DEF TypeOK, Frame, Id
    <3>b. [frame[t] EXCEPT !.stage = "run", !.tet = nextId, !.fuel = frame[t].limit] \in Frame
      BY <3>a, <1>a, FrameWith, <1>n
    <3>1. frame' \in [Task -> Frame]
      BY <2>2, <3>b DEF TypeOK
    <3>2. nextId' \in Id
      BY <2>2 DEF TypeOK, Id, NoTet
    <3>3. QED
      BY <1>8, <2>2, <3>1, <3>2 DEF Boot, TypeOK
  <2>3. QED
    BY <1>8, <2>1, <2>2 DEF Boot
<1>9. ASSUME NEW t \in Task, Compute(t) PROVE TypeOK'
  <2>a. frame[t].fuel - 1 \in Nat /\ frame[t].work + 1 \in Nat
    BY <1>9, <1>a DEF Compute, Frame
  <2>b. [frame[t] EXCEPT !.fuel = frame[t].fuel - 1, !.work = frame[t].work + 1] \in Frame
    BY <2>a, <1>a, FrameWith, <1>n
  <2>1. frame' \in [Task -> Frame]
    BY <1>9, <2>b DEF Compute, TypeOK
  <2>2. QED
    BY <1>9, <2>1 DEF Compute, TypeOK
<1>10. ASSUME NEW t \in Task, Invoke(t) PROVE TypeOK'
  <2>1. PICK a \in Alias, f \in 0..(frame[t].fuel - 1) :
           Send(t, "call", a, f, frame[t].depth)
    BY <1>10 DEF Invoke
  <2>2. outbox' \in [Task -> Message]
    BY <2>1, <1>a, SendType DEF Kinds, Frame
  <2>a. frame[t].fuel - 1 \in Nat /\ frame[t].work + 1 \in Nat
    BY <1>10, <1>a DEF Invoke, Frame
  <2>b. [frame[t] EXCEPT !.stage = "send", !.fuel = frame[t].fuel - 1,
                         !.work = frame[t].work + 1] \in Frame
    BY <2>a, <1>a, FrameWith, <1>n
  <2>3. frame' \in [Task -> Frame]
    BY <1>10, <2>b DEF Invoke, TypeOK
  <2>4. QED
    BY <1>10, <2>2, <2>3 DEF Invoke, TypeOK
<1>11. ASSUME NEW t \in Task, NEW k \in Kinds, NEW f \in 0..MaxFuel, Transfer(t, k, f)
      PROVE  TypeOK'
  <2>1. outbox' \in [Task -> Message]
    BY <1>11, <1>a, SendType DEF Transfer, Frame
  <2>a. frame[t].fuel - 1 - f \in Nat /\ frame[t].work + 1 + f \in Nat
    BY <1>11, <1>a DEF Transfer, Frame
  <2>b. [frame[t] EXCEPT !.stage = "send", !.fuel = frame[t].fuel - 1 - f,
                         !.work = frame[t].work + 1 + f] \in Frame
    BY <2>a, <1>a, FrameWith, <1>n
  <2>2. frame' \in [Task -> Frame]
    BY <1>11, <2>b DEF Transfer, TypeOK
  <2>3. QED
    BY <1>11, <2>1, <2>2 DEF Transfer, TypeOK
<1>12. ASSUME NEW t \in Task, TakeReply(t) PROVE TypeOK'
  <2>1. reply' \in [Task -> Reply]
    BY <1>12, <1>a, ConstantTypes DEF TakeReply, TypeOK
  <2> DEFINE owed == frame[t].owed + reply[t].used
             work == frame[t].work + reply[t].work
  <2>a. /\ frame[t].owed \in Nat /\ frame[t].work \in Nat /\ frame[t].fuel \in Nat
        /\ reply[t].used \in Nat /\ reply[t].work \in Nat
    BY <1>a DEF Frame, Reply
  <2>b. owed \in Nat /\ work \in Nat
    BY <2>a
  <2>2. owed \in Nat /\ work \in Nat /\ Monus(frame[t].fuel, owed) \in Nat
    <3> HIDE DEF owed, work
    <3> QED
      BY <2>a, <2>b, MonusType
  <2>3. frame' \in [Task -> Frame]
    <3> HIDE DEF owed, work
    <3>1. CASE frame' = [frame EXCEPT ![t] = IdleFrame]
      BY <3>1, <1>a, ConstantTypes DEF TypeOK
    <3>2. CASE frame' = [frame EXCEPT ![t].stage = "run",
                              ![t].fuel = Monus(@, owed), ![t].owed = 0,
                              ![t].work = work]
      <4>1. [frame[t] EXCEPT !.stage = "run", !.fuel = Monus(frame[t].fuel, owed),
                             !.owed = 0, !.work = work] \in Frame
        BY <2>2, <1>a, FrameWith, <1>n
      <4>2. QED
        BY <3>2, <4>1 DEF TypeOK
    <3>3. CASE frame' = [frame EXCEPT ![t].stage = "ran",
                              ![t].owed = owed, ![t].work = work]
      <4>1. [frame[t] EXCEPT !.stage = "ran", !.owed = owed, !.work = work] \in Frame
        BY <2>2, <1>a, FrameWith, <1>n
      <4>2. QED
        BY <3>3, <4>1 DEF TypeOK
    <3>4. QED
      BY <1>12, <3>1, <3>2, <3>3 DEF TakeReply, owed, work
  <2>4. QED
    BY <1>12, <2>1, <2>3 DEF TakeReply, TypeOK
<1>13. ASSUME NEW t \in Task, Return(t) PROVE TypeOK'
  <2>1. frame' \in [Task -> Frame]
    BY <1>13, StageType DEF Return, Stages
  <2>2. QED
    BY <1>13, <2>1 DEF Return, TypeOK
<1>14. ASSUME NEW t \in Task, RegisterActive(t) PROVE TypeOK'
  <2>1. frame' \in [Task -> Frame]
    BY <1>14, StageType DEF RegisterActive, Stages
  <2>2. [tet |-> frame[t].tet, snap |-> NoTet] \in Entry
    BY <1>14, <1>a DEF RegisterActive, Shape, HasTet, Entry, Frame, Id, NoTet
  <2>3. registry' \in [Alias -> SUBSET Entry]
    BY <1>14, <2>2, WithEntryType DEF RegisterActive, TypeOK
  <2>4. QED
    BY <1>14, <2>1, <2>3 DEF RegisterActive, TypeOK
<1>15. ASSUME NEW t \in Task, StoreMemory(t) PROVE TypeOK'
  <2>1. frame' \in [Task -> Frame]
    BY <1>15, StageType DEF StoreMemory, Stages
  <2>2. frame[t].tet \in Id
    BY <1>15, <1>a DEF StoreMemory, Shape, HasTet, Frame, Id, NoTet
  <2>3. QED
    BY <1>15, <2>1, <2>2 DEF StoreMemory, TypeOK
<1>16. ASSUME NEW t \in Task, StoreSnapshot(t) PROVE TypeOK'
  <2>1. frame' \in [Task -> Frame]
    BY <1>16, StageType DEF StoreSnapshot, Stages
  <2>2. frame[t].tet \in Id
    BY <1>16, <1>a DEF StoreSnapshot, Shape, HasTet, Frame, Id, NoTet
  <2>3. DOMAIN snapshots' \subseteq Id /\ \A s \in DOMAIN snapshots' : snapshots'[s] \in Id
    BY <1>16, <2>2 DEF StoreSnapshot, TypeOK
  <2>4. QED
    BY <1>16, <2>1, <2>3 DEF StoreSnapshot, TypeOK
<1>17. ASSUME NEW t \in Task, RemoveParent(t) PROVE TypeOK'
  <2>1. frame' \in [Task -> Frame]
    BY <1>17, StageType DEF RemoveParent, Stages
  <2>2. CASE frame[t].parent # NoTet /\ frame[t].alias \in Alias
    <3>1. registry' \in [Alias -> SUBSET Entry]
      BY <1>17, <2>2 DEF RemoveParent, TypeOK, WithoutSnapshot
    <3>2. snapshots[frame[t].parent] \in Id
      BY <2>2 DEF Shape, TypeOK
    <3>3. superseded' \subseteq Alias \X Id
      BY <1>17, <2>2, <3>2 DEF RemoveParent, TypeOK
    <3>4. QED
      BY <1>17, <2>1, <3>1, <3>3 DEF RemoveParent, TypeOK
  <2>3. CASE ~(frame[t].parent # NoTet /\ frame[t].alias \in Alias)
    BY <1>17, <2>1, <2>3 DEF RemoveParent, TypeOK
  <2>4. QED
    BY <2>2, <2>3
<1>18. ASSUME NEW t \in Task, Hibernate(t) PROVE TypeOK'
  <2>1. /\ frame[t].limit - frame[t].fuel \in Nat
        /\ frame[t].work \in Nat
    BY <1>a DEF Shape, Frame
  <2>2. Answer(frame[t].limit - frame[t].fuel, frame[t].work) \in Reply
    BY <2>1, AnswerType
  <2>3. /\ frame' \in [Task -> Frame]
        /\ reply' \in [Task -> Reply]
        /\ serving' \in Message
    BY <1>18, <2>2, ConcludeType DEF Hibernate
  <2>4. [tet |-> frame[t].tet, snap |-> frame[t].tet] \in Entry
    BY <1>18, <1>a DEF Hibernate, Shape, HasTet, Entry, Frame, Id, NoTet
  <2>5. registry' \in [Alias -> SUBSET Entry]
    BY <1>18, <2>4, WithEntryType DEF Hibernate, TypeOK
  <2>6. QED
    BY <1>18, <2>3, <2>5 DEF Hibernate, TypeOK
<1>19. ASSUME NEW t \in Task, Enqueue(t) PROVE TypeOK'
  <2>1. frame' \in [Task -> Frame]
    <3>1. (IF outbox[t].kind = "call" THEN "await" ELSE "run") \in Stages
      BY DEF Stages
    <3>2. QED
      BY <1>19, <3>1, StageType DEF Enqueue
  <2>2. outbox' \in [Task -> Message]
    BY <1>19, ConstantTypes DEF Enqueue, TypeOK
  <2>3. channel' \in Seq(Message) /\ Len(channel') <= Capacity
    BY <1>19, <1>a DEF Enqueue, Room, TypeOK
  <2>4. QED
    BY <1>19, <2>1, <2>2, <2>3 DEF Enqueue, TypeOK
<1>20. ASSUME Dequeue PROVE TypeOK'
  <2> DEFINE m == Head(channel)
  <2>1. /\ m \in Message
        /\ channel' \in Seq(Message)
        /\ Len(channel') <= Capacity
    BY <1>20 DEF Dequeue, TypeOK
  <2>2. m.fuel \in Nat /\ m.depth \in Nat /\ m.alias \in Alias \cup {NoAlias}
    BY <2>1 DEF Message
  <2> HIDE DEF m
  <2>3. CASE Refuse(m)
    <3>1. reply' \in [Task -> Reply]
      BY <2>3, AnswerType DEF Refuse, Delivered, TypeOK
    <3>2. QED
      BY <1>20, <2>1, <2>3, <3>1 DEF Dequeue, Refuse, TypeOK
  <2>4. ASSUME NEW p \in DOMAIN snapshots,
               frame' = [frame EXCEPT ![Worker] =
                            NewFrame(m.alias, p, m.fuel, m.depth + 1)],
               serving' = m, UNCHANGED reply
        PROVE  TypeOK'
    <3>1. p \in Nat /\ m.depth + 1 \in Nat
      BY <2>2 DEF TypeOK, Id
    <3>2. NewFrame(m.alias, p, m.fuel, m.depth + 1) \in Frame
      BY <2>2, <3>1, NewFrameType
    <3>3. frame' \in [Task -> Frame]
      BY <1>a, <2>4, <3>2 DEF TypeOK
    <3>4. QED
      BY <1>20, <2>1, <2>4, <3>3 DEF Dequeue, TypeOK
  <2>5. ASSUME m.kind = "call", frame' = [frame EXCEPT ![Worker] = Asking(m.alias, m.fuel)],
               serving' = m, UNCHANGED reply
        PROVE  TypeOK'
    <3>1. m.alias \in Alias
      BY <1>20, <2>5 DEF Dequeue, CallsNamed, Named, m
    <3>2. frame' \in [Task -> Frame]
      BY <1>a, <2>2, <2>5, <3>1, AskingType DEF TypeOK
    <3>3. QED
      BY <1>20, <2>1, <2>5, <3>2 DEF Dequeue, TypeOK
  <2>6. CASE ServeCall(m)
    BY <2>3, <2>4, <2>6, <2>5 DEF ServeCall
  <2>7. CASE ServeFork(m)
    <3>1. PICK t \in Forked :
             frame' = [frame EXCEPT ![t] = NewFrame(m.alias, NoTet, m.fuel, 0)]
      BY <2>7 DEF ServeFork
    <3>2. NewFrame(m.alias, NoTet, m.fuel, 0) \in Frame
      BY <2>2, NewFrameType DEF NoTet
    <3>3. frame' \in [Task -> Frame]
      BY <1>a, <3>1, <3>2 DEF TypeOK
    <3>4. QED
      BY <1>20, <2>1, <2>7, <3>3 DEF Dequeue, ServeFork, TypeOK
  <2>8. CASE ServePacket(m)
    BY <1>20, <2>1, <2>8 DEF Dequeue, ServePacket, TypeOK
  <2>9. QED
    BY <1>20, <2>6, <2>7, <2>8 DEF Dequeue, m
<1>21. CASE UNCHANGED vars
  BY <1>21 DEF vars, TypeOK
<1>22. QED
  BY <1>1, <1>7, <1>8, <1>9, <1>10, <1>11, <1>12, <1>13, <1>14, <1>15, <1>16,
     <1>17, <1>18, <1>19, <1>20, <1>21, <1>3, <1>4, <1>5, <1>6
     DEF Next, Request, Step, Guest, Pipeline, Pay, Notify, Fork, Kinds

-----------------------------------------------------------------------------
(***************************************************************************)
(* The inductive invariant.  Ids: every id in use is older than nextId and *)
(* no two executions share one.  Stored: what a hibernating entry, or a    *)
(* frame on its way to become one, points to is in the store.  Active: the *)
(* entries without a snapshot are those of the executions between their    *)
(* two registrations, and of the ones that were dropped there.             *)
(***************************************************************************)
Ids ==
    /\ \A s \in DOMAIN snapshots : s < nextId
    /\ \A t \in Task : frame[t].tet < nextId
    /\ \A t, u \in Task : t # u /\ frame[t].tet = frame[u].tet => frame[t].tet = NoTet

Kept(v) == v \in memories /\ v \in DOMAIN snapshots /\ snapshots[v] = v

Stored ==
    /\ \A a \in Alias : \A e \in registry[a] :
          e.snap # NoTet => e.snap = e.tet /\ Kept(e.tet)
    /\ \A t \in Task :
          /\ frame[t].stage \in {"stored", "snapped", "pruned"} => frame[t].tet \in memories
          /\ frame[t].stage \in {"snapped", "pruned"} => Kept(frame[t].tet)

ActiveEntry(t) == [tet |-> frame[t].tet, snap |-> NoTet]

Active ==
    /\ \A a \in Alias : \A e \in registry[a] : e.snap = NoTet =>
          \/ e.tet \in dropped
          \/ \E t \in Task : /\ frame[t].alias = a /\ frame[t].stage \in InStoring
                             /\ frame[t].tet = e.tet
    /\ \A t \in Task : frame[t].stage \in InStoring /\ frame[t].alias \in Alias =>
          ActiveEntry(t) \in registry[frame[t].alias]

IInv == TypeOK /\ Shape /\ CallsNamed /\ Ids /\ Stored /\ Active

-----------------------------------------------------------------------------
(***************************************************************************)
(* What a step does to the frames, field by field.                         *)
(***************************************************************************)
Others(t) == \A u \in Task : u # t => frame'[u] = frame[u]

Moved(t, st) ==
    /\ Others(t)
    /\ frame'[t].stage = st
    /\ frame'[t].tet = frame[t].tet
    /\ frame'[t].alias = frame[t].alias
    /\ frame'[t].parent = frame[t].parent
    /\ frame'[t].limit = frame[t].limit
    /\ frame'[t].fuel <= frame[t].fuel

Started(t, p) ==
    /\ Others(t)
    /\ frame'[t].stage = "boot"
    /\ frame'[t].tet = NoTet
    /\ frame'[t].parent = p
    /\ frame'[t].fuel <= frame'[t].limit

Ended(t) == Others(t) /\ frame'[t] = IdleFrame

(* Replacing the frame of one task leaves the others alone.                  *)
LEMMA ReplaceFrame ==
    ASSUME frame \in [Task -> Frame], NEW t \in Task, NEW r,
           frame' = [frame EXCEPT ![t] = r]
    PROVE  Others(t) /\ frame'[t] = r
BY DEF Others

(* A new frame starts at boot.                                               *)
LEMMA StartedBy ==
    ASSUME TypeOK, NEW t \in Task, NEW a, NEW p, NEW f \in Nat, NEW d,
           frame' = [frame EXCEPT ![t] = NewFrame(a, p, f, d)]
    PROVE  Started(t, p)
<1>1. Others(t) /\ frame'[t] = NewFrame(a, p, f, d)
  BY ReplaceFrame DEF TypeOK
<1>2. LET n == NewFrame(a, p, f, d)
      IN  n.stage = "boot" /\ n.tet = NoTet /\ n.parent = p /\ n.fuel = 0 /\ n.limit = f
  BY DEF NewFrame, IdleFrame
<1>3. 0 <= f
  OBVIOUS
<1>4. QED
  BY <1>1, <1>2, <1>3 DEF Started

LEMMA NewFrameAlias ==
    ASSUME frame \in [Task -> Frame], NEW t \in Task, NEW a, NEW p, NEW f, NEW d,
           frame' = [frame EXCEPT ![t] = NewFrame(a, p, f, d)]
    PROVE  frame'[t].alias = a
BY DEF NewFrame, IdleFrame

(* A step that only changes the stage.                                       *)
LEMMA MovedStage ==
    ASSUME TypeOK, NEW t \in Task, NEW st, frame' = [frame EXCEPT ![t].stage = st]
    PROVE  Moved(t, st)
<1>1. Others(t) /\ frame'[t] = [frame[t] EXCEPT !.stage = st]
  BY ReplaceFrame DEF TypeOK
<1>2. frame[t] \in Frame
  BY DEF TypeOK
<1>3. QED
  BY <1>1, <1>2 DEF Moved, Frame

(* A step that burns fuel.                                                   *)
LEMMA MovedFuel ==
    ASSUME TypeOK, NEW t \in Task, NEW st, NEW fu, NEW wo, fu <= frame[t].fuel,
           frame' = [frame EXCEPT ![t].stage = st, ![t].fuel = fu, ![t].work = wo]
    PROVE  Moved(t, st)
<1> DEFINE r == [frame[t] EXCEPT !.stage = st, !.fuel = fu, !.work = wo]
<1>1. frame' = [frame EXCEPT ![t] = r]
  BY DEF TypeOK
<1>2. frame[t] \in Frame
  BY DEF TypeOK
<1>3. /\ r.stage = st /\ r.tet = frame[t].tet /\ r.alias = frame[t].alias
      /\ r.parent = frame[t].parent /\ r.limit = frame[t].limit /\ r.fuel = fu
  BY <1>2 DEF Frame
<1>4. Others(t) /\ frame'[t] = r
  <2> HIDE DEF r
  <2> QED
    BY <1>1, ReplaceFrame DEF TypeOK
<1>5. QED
  BY <1>3, <1>4 DEF Moved

\* A frame goes on, ends, asks the peers, or starts: the worker from a snapshot that
\* the registry leads to, the others from a payload or from a copy.
Follows(t) ==
    \/ /\ frame'[t].parent = frame[t].parent /\ frame'[t].alias = frame[t].alias
       /\ t = Worker /\ frame[t].stage \in {"idle", "asking"} => frame'[t].stage = frame[t].stage
    \/ frame'[t].stage \in {"idle", "asking"} /\ frame'[t].parent = NoTet
    \/ t # Worker /\ frame'[t].parent \in {NoTet} \cup Copies
    \/ t = Worker /\ frame'[t].alias \in Alias
       /\ \E e \in registry[frame'[t].alias] : e.snap # NoTet /\ frame'[t].parent = e.snap

Quiet(t) ==
    /\ UNCHANGED <<registry, snapshots, memories, nextId, superseded, dropped>>
    /\ Others(t)
    /\ frame[t].stage \notin InStoring
    /\ frame'[t].stage \notin InStoring
    /\ frame'[t].tet \in {frame[t].tet, NoTet}
    /\ Follows(t)

(* The start, the stages before the end, and the end of an execution that    *)
(* leaves nothing behind are quiet.                                          *)
LEMMA QuietStart ==
    ASSUME TypeOK, NEW t \in Task, NEW p, Started(t, p), frame[t].stage = "idle",
           \/ t # Worker /\ p \in {NoTet} \cup Copies
           \/ /\ t = Worker /\ frame'[t].alias \in Alias
              /\ \E e \in registry[frame'[t].alias] : e.snap # NoTet /\ p = e.snap,
           UNCHANGED <<registry, snapshots, memories, nextId, superseded, dropped>>
    PROVE  Quiet(t)
BY DEF Quiet, Follows, Started, InStoring

LEMMA QuietMove ==
    ASSUME TypeOK, NEW t \in Task, NEW st, Moved(t, st), frame[t].stage \notin InStoring,
           st \notin InStoring, t = Worker => frame[t].stage \notin {"idle", "asking"},
           UNCHANGED <<registry, snapshots, memories, nextId, superseded, dropped>>
    PROVE  Quiet(t)
BY DEF Quiet, Follows, Moved

LEMMA QuietAsk ==
    ASSUME TypeOK, NEW t \in Task, NEW a \in Alias, NEW f \in Nat,
           frame' = [frame EXCEPT ![t] = Asking(a, f)], frame[t].stage = "idle",
           UNCHANGED <<registry, snapshots, memories, nextId, superseded, dropped>>
    PROVE  Quiet(t)
<1>1. Others(t) /\ frame'[t] = Asking(a, f)
  BY ReplaceFrame DEF TypeOK
<1>2. QED
  BY <1>1, AskingType DEF Quiet, Follows, InStoring

LEMMA QuietEnd ==
    ASSUME TypeOK, NEW t \in Task, Ended(t), frame[t].stage \notin InStoring,
           UNCHANGED <<registry, snapshots, memories, nextId, superseded, dropped>>
    PROVE  Quiet(t)
BY DEF Quiet, Follows, Ended, IdleFrame, InStoring

(* Quiet steps preserve what the store and the registry are about.           *)
LEMMA QuietIds ==
    ASSUME TypeOK, Ids, NEW t \in Task, Quiet(t) PROVE Ids'
<1>1. nextId \in Nat /\ NoTet < nextId
  BY DEF TypeOK, Id, NoTet
<1>2. QED
  BY <1>1 DEF Ids, Quiet, Others

LEMMA QuietStored ==
    ASSUME TypeOK, Stored, NEW t \in Task, Quiet(t) PROVE Stored'
<1>1. /\ frame'[t].stage \notin {"stored", "snapped", "pruned"}
      /\ frame'[t].stage \notin {"snapped", "pruned"}
  BY DEF Quiet, InStoring
<1>2. QED
  BY <1>1 DEF Stored, Quiet, Others, Kept

LEMMA QuietActive ==
    ASSUME TypeOK, Active, NEW t \in Task, Quiet(t) PROVE Active'
BY DEF Active, Quiet, Others, ActiveEntry

(* Shape, when one task moves.                                               *)
LEMMA ShapeStep ==
    ASSUME Shape, NEW t \in Task, Others(t),
           DOMAIN snapshots \subseteq DOMAIN snapshots',
           \A u \in Task : u # t => outbox'[u] = outbox[u],
           frame'[t].stage \in HasTet => frame'[t].tet # NoTet,
           frame'[t].stage = "send" /\ frame'[t].tet = NoTet => outbox'[t].kind = "call",
           frame'[t].parent # NoTet => frame'[t].parent \in DOMAIN snapshots',
           frame'[t].fuel <= frame'[t].limit
    PROVE  Shape'
BY DEF Shape, Others

LEMMA ShapeMove ==
    ASSUME TypeOK, TypeOK', Shape, NEW t \in Task, NEW st, Moved(t, st),
           DOMAIN snapshots \subseteq DOMAIN snapshots',
           \A u \in Task : u # t => outbox'[u] = outbox[u],
           st \in HasTet => frame[t].tet # NoTet,
           st = "send" /\ frame[t].tet = NoTet => outbox'[t].kind = "call"
    PROVE  Shape'
<1>1. /\ frame[t] \in Frame /\ frame'[t] \in Frame
      /\ frame'[t].fuel <= frame[t].fuel
      /\ frame[t].fuel <= frame[t].limit
      /\ frame'[t].limit = frame[t].limit
  BY DEF TypeOK, Shape, Moved
<1>a. frame[t].fuel \in Nat /\ frame'[t].fuel \in Nat /\ frame[t].limit \in Nat
  BY <1>1 DEF Frame
<1>2. frame'[t].fuel <= frame'[t].limit
  BY <1>1, <1>a
<1>3. QED
  BY <1>2, ShapeStep DEF Moved, Shape

LEMMA ShapeStart ==
    ASSUME Shape, NEW t \in Task, NEW p, Started(t, p),
           DOMAIN snapshots \subseteq DOMAIN snapshots',
           p = NoTet \/ p \in DOMAIN snapshots',
           UNCHANGED outbox
    PROVE  Shape'
BY ShapeStep DEF Started, HasTet

LEMMA ShapeAsk ==
    ASSUME TypeOK, Shape, NEW t \in Task, NEW a \in Alias, NEW f \in Nat,
           frame' = [frame EXCEPT ![t] = Asking(a, f)], UNCHANGED <<snapshots, outbox>>
    PROVE  Shape'
<1>1. Others(t) /\ frame'[t] = Asking(a, f)
  BY ReplaceFrame DEF TypeOK
<1>2. 0 <= f
  OBVIOUS
<1>3. QED
  BY <1>1, <1>2, AskingType, ShapeStep DEF HasTet

LEMMA ShapeEnd ==
    ASSUME Shape, NEW t \in Task, Ended(t), UNCHANGED snapshots,
           \A u \in Task : u # t => outbox'[u] = outbox[u]
    PROVE  Shape'
<1>1. IdleFrame.fuel <= IdleFrame.limit
  BY DEF IdleFrame
<1>2. QED
  BY <1>1, ShapeStep, ConstantTypes DEF Ended, HasTet

LEMMA ConcludeEnds ==
    ASSUME TypeOK, NEW t \in Task, NEW r, Conclude(t, r) PROVE Ended(t)
BY ReplaceFrame DEF Conclude, Ended, TypeOK

(* The last step of trytet::invoke.                                          *)
LEMMA MovedReply ==
    ASSUME TypeOK, NEW t \in Task, NEW st, NEW fu, NEW ow, NEW wo, fu <= frame[t].fuel,
           frame' = [frame EXCEPT ![t].stage = st, ![t].fuel = fu, ![t].owed = ow,
                                  ![t].work = wo]
    PROVE  Moved(t, st)
<1> DEFINE r == [frame[t] EXCEPT !.stage = st, !.fuel = fu, !.owed = ow, !.work = wo]
<1>1. frame' = [frame EXCEPT ![t] = r]
  BY DEF TypeOK
<1>2. frame[t] \in Frame
  BY DEF TypeOK
<1>3. /\ r.stage = st /\ r.tet = frame[t].tet /\ r.alias = frame[t].alias
      /\ r.parent = frame[t].parent /\ r.limit = frame[t].limit /\ r.fuel = fu
  BY <1>2 DEF Frame
<1>4. Others(t) /\ frame'[t] = r
  <2> HIDE DEF r
  <2> QED
    BY <1>1, ReplaceFrame DEF TypeOK
<1>5. QED
  BY <1>3, <1>4 DEF Moved

LEMMA MovedTrap ==
    ASSUME TypeOK, NEW t \in Task, NEW st, NEW ow, NEW wo,
           frame' = [frame EXCEPT ![t].stage = st, ![t].owed = ow, ![t].work = wo]
    PROVE  Moved(t, st)
<1> DEFINE r == [frame[t] EXCEPT !.stage = st, !.owed = ow, !.work = wo]
<1>1. frame' = [frame EXCEPT ![t] = r]
  BY DEF TypeOK
<1>2. frame[t] \in Frame
  BY DEF TypeOK
<1>3. /\ r.stage = st /\ r.tet = frame[t].tet /\ r.alias = frame[t].alias
      /\ r.parent = frame[t].parent /\ r.limit = frame[t].limit /\ r.fuel = frame[t].fuel
      /\ r.fuel <= frame[t].fuel
  BY <1>2 DEF Frame
<1>4. Others(t) /\ frame'[t] = r
  <2> HIDE DEF r
  <2> QED
    BY <1>1, ReplaceFrame DEF TypeOK
<1>5. QED
  BY <1>3, <1>4 DEF Moved

-----------------------------------------------------------------------------
(***************************************************************************)
(* Every step keeps the shape of the frames, and is quiet or one of the    *)
(* eight steps that touch the store, the registry or the ids.              *)
(***************************************************************************)
Copied(c) ==
    /\ \E v \in memories : Copy(v)
    /\ UNCHANGED frame \/ (frame[c].stage = "idle" /\ Started(c, nextId))
    /\ SnapshotRequest(c) \/ TopUpRequest(c)
    /\ UNCHANGED <<registry, memories, superseded, dropped>>

Cut(c) ==
    /\ frame[c].stage \in InStoring /\ Ended(c)
    /\ dropped' = dropped \cup {frame[c].tet}
    /\ UNCHANGED <<registry, snapshots, memories, nextId, superseded>>

Booted(t) ==
    /\ frame[t].stage = "boot"
    /\ Others(t)
    /\ frame'[t].stage = "run" /\ frame'[t].tet = nextId
    /\ frame'[t].parent = frame[t].parent /\ frame'[t].alias = frame[t].alias
    /\ nextId' = nextId + 1
    /\ UNCHANGED <<registry, snapshots, memories, superseded, dropped>>

Loud == \/ \E c \in Client : Copied(c) \/ Cut(c)
        \/ \E t \in Task : \/ Booted(t)
                           \/ RegisterActive(t) \/ StoreMemory(t) \/ StoreSnapshot(t)
                           \/ RemoveParent(t) \/ Hibernate(t)

SomeQuiet == \E t \in Task : Quiet(t)

LEMMA StepKinds ==
    ASSUME TypeOK, TypeOK', Shape, CallsNamed, Next PROVE Shape' /\ (SomeQuiet \/ Loud)
<1> USE MeshAssumption
<1>a. /\ \A t \in Task : frame[t] \in Frame
      /\ Worker \in Task /\ Client \subseteq Task /\ Forked \subseteq Task
  BY DEF TypeOK, Task
<1>1. ASSUME NEW c \in Client, ExecuteRequest(c) PROVE Shape' /\ SomeQuiet
  <2>1. PICK a \in Alias \cup {NoAlias}, p \in {NoTet} \cup Copies, f \in 0..MaxFuel, d \in InputDepth :
           frame' = [frame EXCEPT ![c] = NewFrame(a, p, f, d)]
    BY <1>1 DEF ExecuteRequest
  <2>2. /\ c \in Task /\ c # Worker /\ f \in Nat
        /\ p = NoTet \/ p \in DOMAIN snapshots
        /\ frame[c].stage = "idle"
        /\ UNCHANGED <<registry, snapshots, memories, outbox, nextId, superseded, dropped>>
    BY <1>a, <1>1 DEF Copies, ExecuteRequest, Accept
  <2>3. Started(c, p)
    BY <2>1, <2>2, StartedBy
  <2>4. QED
    BY <2>2, <2>3, ShapeStart, QuietStart DEF SomeQuiet
<1>2. ASSUME NEW c \in Client, SnapshotRequest(c) PROVE Shape' /\ (SomeQuiet \/ Loud)
  <2>1. /\ frame[c].stage = "idle" /\ c \in Task
        /\ UNCHANGED <<registry, memories, outbox, superseded, dropped>>
    BY <1>a, <1>2 DEF SnapshotRequest, Accept
  <2>2. CASE \E v \in memories : Copy(v) /\ UNCHANGED frame
    <3>1. Copied(c)
      BY <1>2, <2>1, <2>2 DEF Copied
    <3>2. Shape'
      BY <2>1, <2>2 DEF Shape, Copy
    <3>3. QED
      BY <3>1, <3>2 DEF Loud
  <2>3. CASE \E a \in Alias : /\ frame' = [frame EXCEPT ![c] = Asking(a, 0)]
                             /\ UNCHANGED <<snapshots, nextId>>
    BY <2>1, <2>3, ShapeAsk, QuietAsk DEF SomeQuiet
  <2>4. QED
    BY <1>2, <2>2, <2>3 DEF SnapshotRequest
<1>3. ASSUME NEW c \in Client, TopUpRequest(c) PROVE Shape' /\ (SomeQuiet \/ Loud)
  <2>1. /\ frame[c].stage = "idle" /\ c \in Task
        /\ UNCHANGED <<registry, memories, outbox, superseded, dropped>>
    BY <1>a, <1>3 DEF TopUpRequest, Accept
  <2>2. ASSUME NEW v \in memories, Copy(v), NEW a \in Alias, NEW f \in 0..MaxFuel,
               frame' = [frame EXCEPT ![c] = NewFrame(a, nextId, f, 0)]
        PROVE  Shape' /\ Loud
    <3>1. f \in Nat
      BY MeshAssumption
    <3>2. Started(c, nextId)
      BY <2>1, <2>2, <3>1, StartedBy
    <3>3. Copied(c)
      BY <1>3, <2>1, <2>2, <3>2 DEF Copied
    <3>4. DOMAIN snapshots \subseteq DOMAIN snapshots' /\ nextId \in DOMAIN snapshots'
      BY <2>2 DEF Copy
    <3>5. QED
      BY <2>1, <3>2, <3>3, <3>4, ShapeStart DEF Loud
  <2>3. CASE \E a \in Alias : /\ frame' = [frame EXCEPT ![c] = Asking(a, 0)]
                             /\ UNCHANGED <<snapshots, nextId>>
    BY <2>1, <2>3, ShapeAsk, QuietAsk DEF SomeQuiet
  <2>4. CASE UNCHANGED <<snapshots, nextId, frame>>
    BY <2>1, <2>4 DEF Shape, SomeQuiet, Quiet, Follows, Others, InStoring
  <2>5. \/ \E v \in memories, a \in Alias, f \in 0..MaxFuel :
              Copy(v) /\ frame' = [frame EXCEPT ![c] = NewFrame(a, nextId, f, 0)]
        \/ \E a \in Alias : /\ frame' = [frame EXCEPT ![c] = Asking(a, 0)]
                             /\ UNCHANGED <<snapshots, nextId>>
        \/ UNCHANGED <<snapshots, nextId, frame>>
    BY <1>3 DEF TopUpRequest
  <2>6. QED
    BY <2>2, <2>3, <2>4, <2>5
<1>4. ASSUME NEW t \in Task, PeersAnswer(t) PROVE Shape' /\ SomeQuiet
  <2>1. /\ Ended(t) /\ frame[t].stage \notin InStoring
        /\ UNCHANGED <<registry, snapshots, memories, outbox, nextId, superseded, dropped>>
    BY <1>4, ConcludeEnds DEF PeersAnswer, InStoring
  <2>2. QED
    BY <2>1, ShapeEnd, QuietEnd DEF SomeQuiet
<1>5. ASSUME NEW c \in Client, Disconnect(c) PROVE Shape' /\ (SomeQuiet \/ Loud)
  <2>1. /\ Ended(c) /\ c \in Task
        /\ \A u \in Task : u # c => outbox'[u] = outbox[u]
        /\ UNCHANGED <<registry, snapshots, memories, nextId, superseded>>
    BY <1>a, <1>5, ReplaceFrame DEF Disconnect, Ended, TypeOK
  <2>2. Shape'
    BY <2>1, ShapeEnd
  <2>3. CASE frame[c].stage \in InStoring
    BY <1>5, <2>1, <2>2, <2>3 DEF Disconnect, Cut, Loud
  <2>4. CASE frame[c].stage \notin InStoring
    BY <1>5, <2>1, <2>2, <2>4, QuietEnd DEF Disconnect, SomeQuiet
  <2>5. QED
    BY <2>3, <2>4
<1>6. ASSUME NEW c \in Client, CallRequest(c) PROVE Shape' /\ SomeQuiet
  <2>1. PICK a \in Alias, f \in 0..MaxFuel : Send(c, "call", a, f, 0)
    BY <1>6 DEF CallRequest
  <2>2. Moved(c, "send")
    BY <1>6, <1>a, MovedStage DEF CallRequest
  <2>3. outbox'[c].kind = "call" /\ \A u \in Task : u # c => outbox'[u] = outbox[u]
    BY <2>1, <1>a DEF Send, TypeOK
  <2>4. Shape'
    BY <1>6, <1>a, <2>2, <2>3, ShapeMove DEF CallRequest, HasTet
  <2>5. Quiet(c)
    BY <1>6, <1>a, <2>2, QuietMove DEF CallRequest, Accept, InStoring
  <2>6. QED
    BY <1>a, <2>4, <2>5 DEF SomeQuiet
<1>7. ASSUME NEW t \in Task, Boot(t) PROVE Shape' /\ (SomeQuiet \/ Loud)
  <2>1. CASE Conclude(t, Answer(0, 0)) /\ UNCHANGED nextId
    <3>1. Ended(t)
      BY <2>1, ConcludeEnds
    <3>2. Quiet(t)
      BY <1>7, <2>1, <3>1, QuietEnd DEF Boot, InStoring
    <3>3. QED
      BY <1>7, <3>1, <3>2, ShapeEnd DEF Boot, SomeQuiet
  <2>2. CASE /\ frame' = [frame EXCEPT ![t].stage = "run", ![t].tet = nextId,
                                       ![t].fuel = frame[t].limit]
             /\ nextId' = nextId + 1
             /\ UNCHANGED <<reply, serving>>
    <3> DEFINE r == [frame[t] EXCEPT !.stage = "run", !.tet = nextId,
                                     !.fuel = frame[t].limit]
    <3>1. frame' = [frame EXCEPT ![t] = r]
      BY <2>2 DEF TypeOK
    <3>2. /\ r.stage = "run" /\ r.tet = nextId /\ r.parent = frame[t].parent
          /\ r.alias = frame[t].alias
          /\ r.fuel = frame[t].limit /\ r.limit = frame[t].limit
      BY <1>a DEF Frame
    <3>3. Others(t) /\ frame'[t] = r
      <4> HIDE DEF r
      <4> QED
        BY <3>1, ReplaceFrame DEF TypeOK
    <3>a. frame[t].limit \in Nat
      BY <1>a DEF Frame
    <3>b. nextId # NoTet
      BY DEF TypeOK, Id
    <3>4. frame[t].limit <= frame[t].limit /\ nextId # NoTet
      BY <3>a, <3>b
    <3> HIDE DEF r
    <3>5. Shape'
      BY <1>7, <3>2, <3>3, <3>4, ShapeStep DEF Boot, Shape
    <3>6. Booted(t)
      BY <1>7, <2>2, <3>2, <3>3 DEF Boot, Booted
    <3>7. QED
      BY <3>5, <3>6 DEF Loud
  <2>3. QED
    BY <1>7, <2>1, <2>2 DEF Boot
<1>8. ASSUME NEW t \in Task, Compute(t) PROVE Shape' /\ SomeQuiet
  <2> DEFINE r == [frame[t] EXCEPT !.fuel = frame[t].fuel - 1, !.work = frame[t].work + 1]
  <2>1. frame' = [frame EXCEPT ![t] = r]
    BY <1>8 DEF Compute, TypeOK
  <2>2. /\ r.stage = frame[t].stage /\ r.tet = frame[t].tet /\ r.alias = frame[t].alias
        /\ r.parent = frame[t].parent /\ r.limit = frame[t].limit
        /\ r.fuel <= frame[t].fuel
    BY <1>a DEF Frame
  <2>3. Others(t) /\ frame'[t] = r
    <3> HIDE DEF r
    <3> QED
      BY <2>1, ReplaceFrame DEF TypeOK
  <2>4. Moved(t, "run")
    BY <1>8, <2>2, <2>3 DEF Moved, Compute
  <2>5. Shape'
    BY <1>8, <2>4, ShapeMove DEF Compute, Shape, HasTet
  <2>6. Quiet(t)
    BY <1>8, <2>4, QuietMove DEF Compute, InStoring
  <2>7. QED
    BY <2>5, <2>6 DEF SomeQuiet
<1>9. ASSUME NEW t \in Task, Invoke(t) PROVE Shape' /\ SomeQuiet
  <2>1. PICK a \in Alias, f \in 0..(frame[t].fuel - 1) :
           Send(t, "call", a, f, frame[t].depth)
    BY <1>9 DEF Invoke
  <2>2. frame[t].fuel - 1 <= frame[t].fuel
    BY <1>a DEF Frame
  <2>3. Moved(t, "send")
    BY <1>9, <2>2, MovedFuel DEF Invoke
  <2>4. \A u \in Task : u # t => outbox'[u] = outbox[u]
    BY <2>1 DEF Send, TypeOK
  <2>5. frame[t].tet # NoTet
    BY <1>9 DEF Invoke, Shape, HasTet
  <2>6. Shape'
    BY <1>9, <2>3, <2>4, <2>5, ShapeMove DEF Invoke
  <2>7. Quiet(t)
    BY <1>9, <2>3, QuietMove DEF Invoke, InStoring
  <2>8. QED
    BY <2>6, <2>7 DEF SomeQuiet
<1>10. ASSUME NEW t \in Task, NEW k \in Kinds, NEW f \in 0..MaxFuel, Transfer(t, k, f)
      PROVE  Shape' /\ SomeQuiet
  <2>1. frame[t].fuel - 1 - f <= frame[t].fuel
    BY <1>a DEF Frame
  <2>2. Moved(t, "send")
    BY <1>10, <2>1, MovedFuel DEF Transfer
  <2>3. \A u \in Task : u # t => outbox'[u] = outbox[u]
    BY <1>10 DEF Transfer, Send, TypeOK
  <2>4. frame[t].tet # NoTet
    BY <1>10 DEF Transfer, Shape, HasTet
  <2>5. Shape'
    BY <1>10, <2>2, <2>3, <2>4, ShapeMove DEF Transfer
  <2>6. Quiet(t)
    BY <1>10, <2>2, QuietMove DEF Transfer, InStoring
  <2>7. QED
    BY <2>5, <2>6 DEF SomeQuiet
<1>11. ASSUME NEW t \in Task, TakeReply(t) PROVE Shape' /\ SomeQuiet
  <2> DEFINE owed == frame[t].owed + reply[t].used
             work == frame[t].work + reply[t].work
  <2>1. CASE frame[t].tet = NoTet /\ frame' = [frame EXCEPT ![t] = IdleFrame]
    <3>1. Ended(t)
      BY <2>1, ReplaceFrame DEF Ended, TypeOK
    <3>2. Quiet(t)
      BY <1>11, <3>1, QuietEnd DEF TakeReply, InStoring
    <3>3. QED
      BY <1>11, <3>1, <3>2, ShapeEnd DEF TakeReply, SomeQuiet
  <2>2. ASSUME NEW st \in {"run", "ran"}, frame[t].tet # NoTet, Moved(t, st)
        PROVE  Shape' /\ SomeQuiet
    <3>1. Shape'
      BY <1>11, <2>2, ShapeMove DEF TakeReply
    <3>2. Quiet(t)
      BY <1>11, <2>2, QuietMove DEF TakeReply, InStoring
    <3>3. QED
      BY <3>1, <3>2 DEF SomeQuiet
  <2>3. CASE /\ frame[t].tet # NoTet
             /\ frame' = [frame EXCEPT ![t].stage = "run",
                              ![t].fuel = Monus(@, owed), ![t].owed = 0,
                              ![t].work = work]
    <3>1. Monus(frame[t].fuel, owed) <= frame[t].fuel
      <4>1. frame[t].fuel \in Nat /\ frame[t].owed \in Nat /\ reply[t].used \in Nat
        BY <1>a DEF TypeOK, Frame, Reply
      <4>2. owed \in Nat
        BY <4>1
      <4> HIDE DEF owed
      <4>3. QED
        BY <4>1, <4>2 DEF Monus
    <3> HIDE DEF owed, work
    <3>2. Moved(t, "run")
      BY <2>3, <3>1, MovedReply
    <3>3. QED
      BY <2>2, <2>3, <3>2
  <2>4. CASE /\ frame[t].tet # NoTet
             /\ frame' = [frame EXCEPT ![t].stage = "ran",
                              ![t].owed = owed, ![t].work = work]
    <3> HIDE DEF owed, work
    <3>1. Moved(t, "ran")
      BY <2>4, MovedTrap
    <3>2. QED
      BY <2>2, <2>4, <3>1
  <2>5. QED
    BY <1>11, <2>1, <2>3, <2>4 DEF TakeReply
<1>12. ASSUME NEW t \in Task, Return(t) PROVE Shape' /\ SomeQuiet
  <2>1. Moved(t, "ran") /\ frame[t].tet # NoTet
    BY <1>12, MovedStage DEF Return, Shape, HasTet
  <2>2. Shape'
    BY <1>12, <2>1, ShapeMove DEF Return
  <2>3. Quiet(t)
    BY <1>12, <2>1, QuietMove DEF Return, InStoring
  <2>4. QED
    BY <2>2, <2>3 DEF SomeQuiet
<1>13. ASSUME NEW t \in Task, NEW st, st # "send", frame[t].stage \in HasTet,
              frame' = [frame EXCEPT ![t].stage = st],
              DOMAIN snapshots \subseteq DOMAIN snapshots', UNCHANGED outbox
       PROVE  Shape'
  <2>1. Moved(t, st) /\ frame[t].tet # NoTet
    BY <1>13, MovedStage DEF Shape
  <2>2. QED
    BY <1>13, <2>1, ShapeMove
<1>14. ASSUME NEW t \in Task, RegisterActive(t) PROVE Shape' /\ Loud
  BY <1>13, <1>14 DEF RegisterActive, HasTet, Loud
<1>15. ASSUME NEW t \in Task, StoreMemory(t) PROVE Shape' /\ Loud
  BY <1>13, <1>15 DEF StoreMemory, HasTet, Loud
<1>16. ASSUME NEW t \in Task, StoreSnapshot(t) PROVE Shape' /\ Loud
  <2>1. DOMAIN snapshots \subseteq DOMAIN snapshots'
    BY <1>16 DEF StoreSnapshot
  <2>2. QED
    BY <1>13, <1>16, <2>1 DEF StoreSnapshot, HasTet, Loud
<1>17. ASSUME NEW t \in Task, RemoveParent(t) PROVE Shape' /\ Loud
  BY <1>13, <1>17 DEF RemoveParent, HasTet, Loud
<1>18. ASSUME NEW t \in Task, Hibernate(t) PROVE Shape' /\ Loud
  <2>1. Ended(t)
    BY <1>18, ConcludeEnds DEF Hibernate
  <2>2. Shape'
    BY <1>18, <2>1, ShapeEnd DEF Hibernate
  <2>3. QED
    BY <1>18, <2>2 DEF Loud
<1>19. ASSUME NEW t \in Task, Enqueue(t) PROVE Shape' /\ SomeQuiet
  <2> DEFINE st == IF outbox[t].kind = "call" THEN "await" ELSE "run"
  <2>1. Moved(t, st)
    BY <1>19, MovedStage DEF Enqueue
  <2>2. \A u \in Task : u # t => outbox'[u] = outbox[u]
    BY <1>19 DEF Enqueue, TypeOK
  <2>3. st \in HasTet => frame[t].tet # NoTet
    BY <1>19 DEF Enqueue, Shape, HasTet
  <2>4. Shape'
    BY <1>19, <2>1, <2>2, <2>3, ShapeMove DEF Enqueue
  <2>5. Quiet(t)
    BY <1>19, <2>1, QuietMove DEF Enqueue, InStoring
  <2>6. QED
    BY <2>4, <2>5 DEF SomeQuiet
<1>20. ASSUME Dequeue PROVE Shape' /\ SomeQuiet
  <2> DEFINE m == Head(channel)
  <2>1. m \in Message
    BY <1>20 DEF Dequeue, TypeOK
  <2>2. m.fuel \in Nat
    BY <2>1 DEF Message
  <2>a. Named(m)
    BY <1>20 DEF Dequeue, CallsNamed
  <2> HIDE DEF m
  <2>3. CASE UNCHANGED frame
    BY <1>20, <1>a, <2>3 DEF Dequeue, Shape, SomeQuiet, Quiet, Follows, Others, InStoring
  <2>4. ASSUME m.alias \in Alias, NEW e \in registry[m.alias], e.snap \in DOMAIN snapshots,
               frame' = [frame EXCEPT ![Worker] =
                            NewFrame(m.alias, e.snap, m.fuel, m.depth + 1)]
        PROVE  Shape' /\ SomeQuiet
    <3>1. Started(Worker, e.snap)
      BY <1>a, <2>2, <2>4, StartedBy
    <3>2. Quiet(Worker)
      <4>1. frame'[Worker].alias = m.alias
        BY <1>a, <2>2, <2>4, NewFrameAlias DEF TypeOK
      <4>2. e.snap # NoTet
        BY <2>4 DEF TypeOK, Id
      <4>3. QED
        BY <1>20, <1>a, <2>4, <3>1, <4>1, <4>2, QuietStart DEF Dequeue
    <3>3. QED
      BY <1>20, <1>a, <2>4, <3>1, <3>2, ShapeStart DEF Dequeue, SomeQuiet
  <2>5. ASSUME m.alias \in Alias, frame' = [frame EXCEPT ![Worker] = Asking(m.alias, m.fuel)]
        PROVE  Shape' /\ SomeQuiet
    BY <1>20, <1>a, <2>2, <2>5, ShapeAsk, QuietAsk DEF Dequeue, SomeQuiet
  <2>6. CASE ServeCall(m)
    BY <2>a, <2>3, <2>4, <2>6, <2>5 DEF ServeCall, Refuse, Named
  <2>7. CASE ServeFork(m)
    <3>1. PICK t \in Forked :
             /\ frame[t].stage = "idle"
             /\ frame' = [frame EXCEPT ![t] = NewFrame(m.alias, NoTet, m.fuel, 0)]
      BY <2>7 DEF ServeFork
    <3>2. Started(t, NoTet)
      BY <1>a, <2>2, <3>1, StartedBy
    <3>3. Quiet(t)
      BY <1>20, <1>a, <3>1, <3>2, QuietStart DEF Dequeue
    <3>4. QED
      BY <1>20, <1>a, <3>2, <3>3, ShapeStart DEF Dequeue, SomeQuiet
  <2>8. QED
    BY <1>20, <2>3, <2>6, <2>7 DEF Dequeue, ServePacket, m
<1>21. QED
  BY <1>1, <1>2, <1>6, <1>7, <1>8, <1>9, <1>10, <1>11, <1>12, <1>14, <1>15, <1>16,
     <1>17, <1>18, <1>19, <1>20, <1>3, <1>4, <1>5
     DEF Next, Request, Step, Guest, Pipeline, Pay, Notify, Fork, Kinds

-----------------------------------------------------------------------------
(***************************************************************************)
(* The loud steps preserve Ids, Stored and Active.                         *)
(***************************************************************************)
LEMMA LoudIds ==
    ASSUME TypeOK, Shape, Ids, Loud PROVE Ids'
<1>a. /\ Client \subseteq Task
      /\ nextId \in Nat /\ NoTet < nextId /\ \A t \in Task : frame[t].tet \in Nat
  BY DEF TypeOK, Id, NoTet, Task, Frame
<1>1. ASSUME NEW c \in Client, Copied(c) PROVE Ids'
  <2>1. /\ nextId' = nextId + 1 /\ DOMAIN snapshots' = DOMAIN snapshots \cup {nextId}
        /\ \A u \in Task : frame'[u].tet \in {frame[u].tet, NoTet}
    BY <1>1 DEF Copied, Copy, Started, Others
  <2>2. \A s \in DOMAIN snapshots : s \in Nat
    BY DEF TypeOK, Id
  <2>3. \A s \in DOMAIN snapshots' : s < nextId'
    BY <1>a, <2>1, <2>2 DEF Ids
  <2>4. \A u \in Task : frame'[u].tet < nextId'
    <3>1. NoTet < nextId'
      BY <1>a, <2>1 DEF NoTet
    <3>2. \A u \in Task : frame[u].tet < nextId'
      BY <1>a, <2>1 DEF Ids
    <3>3. QED
      BY <2>1, <3>1, <3>2
  <2>5. \A u, v \in Task : u # v /\ frame'[u].tet = frame'[v].tet => frame'[u].tet = NoTet
    BY <2>1 DEF Ids
  <2>6. QED
    BY <2>3, <2>4, <2>5 DEF Ids
<1>2. ASSUME NEW c \in Client, Cut(c) PROVE Ids'
  BY <1>a, <1>2 DEF Cut, Ids, Ended, Others, IdleFrame
<1>3. ASSUME NEW t \in Task, Booted(t) PROVE Ids'
  <2>1. /\ nextId' = nextId + 1 /\ UNCHANGED snapshots
        /\ frame'[t].tet = nextId /\ \A u \in Task : u # t => frame'[u] = frame[u]
    BY <1>3 DEF Booted, Others
  <2>2. \A s \in DOMAIN snapshots : s \in Nat
    BY DEF TypeOK, Id
  <2>3. QED
    BY <1>a, <2>1, <2>2 DEF Ids
<1>4. ASSUME NEW t \in Task, NEW st, frame' = [frame EXCEPT ![t].stage = st],
             UNCHANGED nextId, DOMAIN snapshots' \subseteq DOMAIN snapshots \cup {frame[t].tet}
      PROVE  Ids'
  <2>1. \A u \in Task : frame'[u].tet = frame[u].tet
    BY <1>4, MovedStage DEF Moved, Others
  <2>2. QED
    BY <1>4, <2>1 DEF Ids
<1>5. ASSUME NEW t \in Task, StoreSnapshot(t) PROVE Ids'
  <2>1. DOMAIN snapshots' = DOMAIN snapshots \cup {frame[t].tet}
    BY <1>5 DEF StoreSnapshot
  <2>2. QED
    BY <1>4, <1>5, <2>1 DEF StoreSnapshot
<1>6. ASSUME NEW t \in Task, Hibernate(t) PROVE Ids'
  <2>1. Ended(t) /\ UNCHANGED <<nextId, snapshots>>
    BY <1>6, ConcludeEnds DEF Hibernate
  <2>2. QED
    BY <1>a, <2>1 DEF Ids, Ended, Others, IdleFrame
<1>7. QED
  BY <1>1, <1>3, <1>4, <1>5, <1>6, <1>2 DEF Loud, RegisterActive, StoreMemory, RemoveParent

LEMMA LoudStored ==
    ASSUME TypeOK, Shape, Ids, Stored, Loud PROVE Stored'
<1>a. /\ Client \subseteq Task /\ nextId \in Nat
      /\ \A s \in DOMAIN snapshots : s # nextId
  <2>1. nextId \in Nat /\ Client \subseteq Task
    BY DEF TypeOK, Id, Task
  <2>2. QED
    BY <2>1 DEF Ids
<1>1. ASSUME NEW c \in Client, Copied(c) PROVE Stored'
  <2>1. \A v : Kept(v) => Kept(v)'
    BY <1>1, <1>a DEF Copied, Copy, Kept
  <2>2. /\ UNCHANGED <<registry, memories>>
        /\ \A u \in Task : frame'[u] = frame[u] \/ frame'[u].stage = "boot"
    BY <1>1 DEF Copied, Started, Others
  <2>3. QED
    BY <2>1, <2>2 DEF Stored
<1>2. ASSUME NEW c \in Client, Cut(c) PROVE Stored'
  BY <1>a, <1>2 DEF Cut, Ended, Others, Stored, Kept, IdleFrame
<1>3. ASSUME NEW t \in Task, Booted(t) PROVE Stored'
  BY <1>3 DEF Booted, Others, Stored, Kept
<1>4. ASSUME NEW t \in Task, RegisterActive(t) PROVE Stored'
  <2>1. Moved(t, "registered") /\ UNCHANGED <<snapshots, memories>>
    BY <1>4, MovedStage DEF RegisterActive
  <2>2. \A a \in Alias : \A e \in registry'[a] : e \in registry[a] \/ e.snap = NoTet
    BY <1>4 DEF RegisterActive, WithEntry
  <2>3. QED
    BY <2>1, <2>2 DEF Stored, Moved, Others, Kept
<1>5. ASSUME NEW t \in Task, StoreMemory(t) PROVE Stored'
  <2>1. /\ Moved(t, "stored") /\ UNCHANGED <<snapshots, registry>>
        /\ memories' = memories \cup {frame[t].tet}
    BY <1>5, MovedStage DEF StoreMemory
  <2>2. QED
    BY <2>1 DEF Stored, Moved, Others, Kept
<1>6. ASSUME NEW t \in Task, StoreSnapshot(t) PROVE Stored'
  <2>1. /\ Moved(t, "snapped") /\ UNCHANGED <<memories, registry>>
        /\ frame[t].stage = "stored"
    BY <1>6, MovedStage DEF StoreSnapshot
  <2>2. \A v : Kept(v) => Kept(v)'
    BY <1>6 DEF StoreSnapshot, Kept
  <2>3. frame[t].tet \in memories
    BY <2>1 DEF Stored
  <2>4. Kept(frame[t].tet)'
    <3>1. frame'[t].tet = frame[t].tet
      BY <2>1 DEF Moved
    <3>2. /\ frame[t].tet \in DOMAIN snapshots'
          /\ snapshots'[frame[t].tet] = frame[t].tet
      BY <1>6 DEF StoreSnapshot
    <3>3. QED
      BY <2>1, <2>3, <3>1, <3>2 DEF Kept
  <2>5. QED
    BY <2>1, <2>2, <2>3, <2>4 DEF Stored, Moved, Others
<1>7. ASSUME NEW t \in Task, RemoveParent(t) PROVE Stored'
  <2>1. /\ Moved(t, "pruned") /\ UNCHANGED <<snapshots, memories>>
        /\ frame[t].stage = "snapped"
    BY <1>7, MovedStage DEF RemoveParent
  <2>2. \A a \in Alias : registry'[a] \subseteq registry[a]
    BY <1>7 DEF RemoveParent, WithoutSnapshot, TypeOK
  <2>3. QED
    BY <2>1, <2>2 DEF Stored, Moved, Others, Kept
<1>8. ASSUME NEW t \in Task, Hibernate(t) PROVE Stored'
  <2>1. Ended(t) /\ UNCHANGED <<snapshots, memories>>
    BY <1>8, ConcludeEnds DEF Hibernate
  <2>2. Kept(frame[t].tet)
    BY <1>8 DEF Hibernate, Stored
  <2>3. \A a \in Alias : \A e \in registry'[a] :
          e \in registry[a] \/ e = [tet |-> frame[t].tet, snap |-> frame[t].tet]
    BY <1>8 DEF Hibernate, WithEntry
  <2>4. QED
    BY <2>1, <2>2, <2>3 DEF Stored, Ended, Others, Kept, IdleFrame
<1>9. QED
  BY <1>1, <1>3, <1>4, <1>5, <1>6, <1>7, <1>8, <1>2 DEF Loud

LEMMA LoudActive ==
    ASSUME TypeOK, Shape, Ids, Stored, Active, Loud PROVE Active'
<1>a. Client \subseteq Task
  BY DEF Task
<1>1. ASSUME NEW c \in Client, Copied(c) PROVE Active'
  <2>1. /\ UNCHANGED <<registry, dropped>>
        /\ \A u \in Task : \/ frame'[u] = frame[u]
                           \/ (frame[u].stage = "idle" /\ frame'[u].stage = "boot")
    BY <1>1 DEF Copied, Started, Others
  <2>2. QED
    BY <1>a, <2>1 DEF Active, ActiveEntry, InStoring
<1>2. ASSUME NEW c \in Client, Cut(c) PROVE Active'
  <2>1. /\ UNCHANGED registry /\ frame'[c].stage = "idle" /\ frame[c].tet \in dropped'
        /\ dropped \subseteq dropped'
        /\ \A u \in Task : u # c => frame'[u] = frame[u]
    BY <1>2 DEF Cut, Ended, Others, IdleFrame
  <2>2. QED
    BY <1>a, <2>1 DEF Active, ActiveEntry, InStoring
<1>3. ASSUME NEW t \in Task, Booted(t) PROVE Active'
  <2>1. /\ UNCHANGED <<registry, dropped>> /\ frame[t].stage = "boot" /\ frame'[t].stage = "run"
        /\ \A u \in Task : u # t => frame'[u] = frame[u]
    BY <1>3 DEF Booted, Others
  <2>2. QED
    BY <2>1 DEF Active, ActiveEntry, InStoring
<1>4. ASSUME NEW t \in Task, RegisterActive(t) PROVE Active'
  <2>1. /\ frame[t].stage = "ran" /\ frame'[t].stage = "registered"
        /\ frame'[t].tet = frame[t].tet /\ frame'[t].alias = frame[t].alias
        /\ \A u \in Task : u # t => frame'[u] = frame[u]
        /\ frame[t].tet # NoTet
    BY <1>4, MovedStage DEF RegisterActive, Moved, Others, Shape, HasTet
  <2>2. \A a \in Alias : \A e \in registry'[a] :
          e \in registry[a] \/ (a = frame[t].alias /\ e = ActiveEntry(t))
    BY <1>4 DEF RegisterActive, WithEntry, ActiveEntry
  <2>3. \A a \in Alias : \A e \in registry[a] : e.tet # frame[t].tet => e \in registry'[a]
    BY <1>4 DEF RegisterActive, WithEntry
  <2>4. frame[t].alias \in Alias => ActiveEntry(t) \in registry'[frame[t].alias]
    BY <1>4 DEF RegisterActive, WithEntry, ActiveEntry
  <2>5. ASSUME NEW a \in Alias, NEW e \in registry'[a], e.snap = NoTet
        PROVE  \/ e.tet \in dropped'
               \/ \E u \in Task : /\ frame'[u].alias = a /\ frame'[u].stage \in InStoring
                                  /\ frame'[u].tet = e.tet
    <3>1. UNCHANGED dropped
      BY <1>4 DEF RegisterActive
    <3>2. CASE e \in registry[a] /\ e.tet \notin dropped
      <4>1. PICK u \in Task : /\ frame[u].alias = a /\ frame[u].stage \in InStoring
                              /\ frame[u].tet = e.tet
        BY <2>5, <3>2 DEF Active
      <4>2. u # t
        BY <2>1, <4>1 DEF InStoring
      <4>3. QED
        BY <2>1, <4>1, <4>2
    <3>3. CASE a = frame[t].alias /\ e = ActiveEntry(t)
      BY <2>1, <3>3 DEF ActiveEntry, InStoring
    <3>4. QED
      BY <2>2, <2>5, <3>1, <3>2, <3>3
  <2>6. ASSUME NEW u \in Task, frame'[u].stage \in InStoring, frame'[u].alias \in Alias
        PROVE  ActiveEntry(u)' \in registry'[frame'[u].alias]
    <3>1. CASE u = t
      BY <2>1, <2>4, <2>6, <3>1 DEF ActiveEntry
    <3>2. CASE u # t
      <4>1. frame'[u] = frame[u] /\ ActiveEntry(u) \in registry[frame[u].alias]
        BY <2>1, <2>6, <3>2 DEF Active
      <4>2. ActiveEntry(u).tet = frame[u].tet /\ frame[u].tet # frame[t].tet
        BY <2>1, <3>2 DEF ActiveEntry, Ids
      <4>3. ActiveEntry(u) \in registry'[frame[u].alias]
        BY <2>3, <2>6, <4>1, <4>2
      <4>4. QED
        BY <4>1, <4>3 DEF ActiveEntry
    <3>3. QED
      BY <3>1, <3>2
  <2>7. QED
    BY <2>5, <2>6 DEF Active
<1>5. ASSUME NEW t \in Task, NEW st \in InStoring, Moved(t, st), frame[t].stage \in InStoring,
             \A a \in Alias : registry'[a] \subseteq registry[a], UNCHANGED dropped,
             \A a \in Alias : \A e \in registry[a] : e.snap = NoTet => e \in registry'[a]
      PROVE  Active'
  <2>1. \A u \in Task : /\ frame'[u].tet = frame[u].tet /\ frame'[u].alias = frame[u].alias
                        /\ frame'[u].stage \in InStoring <=> frame[u].stage \in InStoring
    BY <1>5 DEF Moved, Others
  <2>2. \A u \in Task : ActiveEntry(u)' = ActiveEntry(u) /\ ActiveEntry(u).snap = NoTet
    BY <2>1 DEF ActiveEntry
  <2>3. QED
    BY <1>5, <2>1, <2>2 DEF Active
<1>6. ASSUME NEW t \in Task, StoreMemory(t) PROVE Active'
  <2>1. /\ Moved(t, "stored") /\ UNCHANGED <<registry, dropped>>
        /\ frame[t].stage \in InStoring /\ "stored" \in InStoring
    BY <1>6, MovedStage DEF StoreMemory, InStoring
  <2>2. QED
    BY <1>5, <2>1
<1>7. ASSUME NEW t \in Task, StoreSnapshot(t) PROVE Active'
  <2>1. /\ Moved(t, "snapped") /\ UNCHANGED <<registry, dropped>>
        /\ frame[t].stage \in InStoring /\ "snapped" \in InStoring
    BY <1>7, MovedStage DEF StoreSnapshot, InStoring
  <2>2. QED
    BY <1>5, <2>1
<1>8. ASSUME NEW t \in Task, RemoveParent(t) PROVE Active'
  <2>1. /\ Moved(t, "pruned") /\ UNCHANGED dropped
        /\ frame[t].stage \in InStoring /\ "pruned" \in InStoring
    BY <1>8, MovedStage DEF RemoveParent, InStoring
  <2>2. \A a \in Alias : registry'[a] \subseteq registry[a]
    BY <1>8 DEF RemoveParent, WithoutSnapshot, TypeOK
  <2>3. \A a \in Alias : \A e \in registry[a] : e.snap = NoTet => e \in registry'[a]
    BY <1>8 DEF RemoveParent, WithoutSnapshot, TypeOK
  <2>4. QED
    BY <1>5, <2>1, <2>2, <2>3
<1>9. ASSUME NEW t \in Task, Hibernate(t) PROVE Active'
  <2> DEFINE n == [tet |-> frame[t].tet, snap |-> frame[t].tet]
  <2>1. /\ frame[t].stage = "pruned" /\ frame'[t].stage = "idle"
        /\ \A u \in Task : u # t => frame'[u] = frame[u]
        /\ frame[t].tet # NoTet
    BY <1>9, ConcludeEnds DEF Hibernate, Ended, Others, IdleFrame, Shape, HasTet
  <2>2. \A a \in Alias : \A e \in registry'[a] :
          \/ e \in registry[a] /\ (a = frame[t].alias => e.tet # frame[t].tet)
          \/ e = n
    BY <1>9 DEF Hibernate, WithEntry
  <2>3. \A a \in Alias : \A e \in registry[a] : e.tet # frame[t].tet => e \in registry'[a]
    BY <1>9 DEF Hibernate, WithEntry
  <2>4. n.snap # NoTet
    BY <2>1
  <2> HIDE DEF n
  <2>5. ASSUME NEW a \in Alias, NEW e \in registry'[a], e.snap = NoTet
        PROVE  \/ e.tet \in dropped'
               \/ \E u \in Task : /\ frame'[u].alias = a /\ frame'[u].stage \in InStoring
                                  /\ frame'[u].tet = e.tet
    <3>1. e \in registry[a] /\ (a = frame[t].alias => e.tet # frame[t].tet)
      BY <2>2, <2>4, <2>5
    <3>2. CASE e.tet \in dropped
      BY <1>9, <3>2 DEF Hibernate
    <3>3. CASE e.tet \notin dropped
      <4>1. PICK u \in Task : /\ frame[u].alias = a /\ frame[u].stage \in InStoring
                              /\ frame[u].tet = e.tet
        BY <2>5, <3>1, <3>3 DEF Active
      <4>2. u # t
        BY <3>1, <4>1
      <4>3. QED
        BY <2>1, <4>1, <4>2
    <3>4. QED
      BY <3>2, <3>3
  <2>6. ASSUME NEW u \in Task, frame'[u].stage \in InStoring, frame'[u].alias \in Alias
        PROVE  ActiveEntry(u)' \in registry'[frame'[u].alias]
    <3>1. u # t
      BY <2>1, <2>6 DEF InStoring
    <3>2. frame'[u] = frame[u] /\ ActiveEntry(u) \in registry[frame[u].alias]
      BY <2>1, <2>6, <3>1 DEF Active
    <3>3. ActiveEntry(u).tet = frame[u].tet /\ frame[u].tet # frame[t].tet
      BY <2>1, <3>1 DEF ActiveEntry, Ids
    <3>4. ActiveEntry(u) \in registry'[frame[u].alias]
      BY <2>3, <2>6, <3>2, <3>3
    <3>5. QED
      BY <3>2, <3>4 DEF ActiveEntry
  <2>7. QED
    BY <2>5, <2>6 DEF Active
<1>10. QED
  BY <1>1, <1>3, <1>4, <1>6, <1>7, <1>8, <1>9, <1>2 DEF Loud

-----------------------------------------------------------------------------
(***************************************************************************)
(* The invariant holds in every behaviour.                                 *)
(***************************************************************************)
(* Only trytet::invoke and the API's own calls put a call into the channel,  *)
(* and both name the agent they call.                                        *)
LEMMA NamedNext ==
    ASSUME TypeOK, CallsNamed, [Next]_vars PROVE CallsNamed'
<1> DEFINE NM == {m \in Message : Named(m)}
<1>1. ASSUME UNCHANGED <<outbox, channel>> PROVE CallsNamed'
  BY <1>1 DEF CallsNamed, Named
<1>2. ASSUME NEW t \in Task, NEW k, NEW a, NEW f, NEW d, Send(t, k, a, f, d),
             k = "call" => a \in Alias, UNCHANGED channel
      PROVE  CallsNamed'
  <2>1. \A u \in Task : Named(outbox'[u])
    BY <1>2 DEF CallsNamed, Send, Named, TypeOK
  <2>2. QED
    BY <1>2, <2>1 DEF CallsNamed, Named
<1>3. ASSUME NEW c \in Client, CallRequest(c) PROVE CallsNamed'
  BY <1>2, <1>3 DEF CallRequest, Task
<1>4. ASSUME NEW t \in Task, Invoke(t) PROVE CallsNamed'
  BY <1>2, <1>4 DEF Invoke
<1>5. ASSUME NEW t \in Task, NEW k \in {"packet", "fork"}, NEW f, Transfer(t, k, f)
      PROVE  CallsNamed'
  BY <1>2, <1>5 DEF Transfer
<1>6. ASSUME NEW t \in Task, Enqueue(t) PROVE CallsNamed'
  <2>1. outbox[t] \in NM /\ channel \in Seq(NM)
    BY DEF CallsNamed, TypeOK
  <2>2. channel' \in Seq(NM)
    <3> HIDE DEF NM
    <3> QED
      BY <1>6, <2>1 DEF Enqueue
  <2>3. Named(NoMessage)
    BY DEF Named, NoMessage
  <2>4. \A u \in Task : Named(outbox'[u])
    BY <1>6, <2>3 DEF Enqueue, CallsNamed, TypeOK
  <2>5. QED
    BY <2>2, <2>4 DEF CallsNamed, Named
<1>7. ASSUME Dequeue PROVE CallsNamed'
  <2>1. channel' \in Seq(NM) /\ UNCHANGED outbox
    <3>1. channel \in Seq(NM)
      BY DEF CallsNamed
    <3> HIDE DEF NM
    <3> QED
      BY <1>7, <3>1 DEF Dequeue
  <2>2. QED
    BY <2>1 DEF CallsNamed, Named
<1>8. ASSUME NEW c \in Client, Disconnect(c) PROVE CallsNamed'
  <2>1. PICK n \in Nat : n = Len(channel) /\ DOMAIN channel = 1..n
    BY DEF TypeOK
  <2>2. \A i \in 1..n : channel[i] \in NM
    BY <2>1 DEF CallsNamed
  <2>3. \A i \in 1..n : Unheard(channel[i], c) \in NM
    BY <2>2, UnheardType DEF Named, Task
  <2>4. channel' = [i \in 1..n |-> Unheard(channel[i], c)]
    BY <1>8, <2>1 DEF Disconnect
  <2>5. channel' \in Seq(NM)
    <3> HIDE DEF NM
    <3>1. channel' \in [1..n -> NM]
      BY <2>3, <2>4
    <3>2. QED
      BY <3>1
  <2>6. \A u \in Task : Named(outbox'[u])
    BY <1>8 DEF Disconnect, CallsNamed, Named, NoMessage, TypeOK
  <2>7. QED
    BY <2>5, <2>6 DEF CallsNamed, Named
<1>9. ASSUME NEW c \in Client, ExecuteRequest(c) \/ SnapshotRequest(c) \/ TopUpRequest(c)
      PROVE  UNCHANGED <<outbox, channel>>
  BY <1>9 DEF ExecuteRequest, SnapshotRequest, TopUpRequest
<1>10. ASSUME NEW t \in Task, Pipeline(t) \/ TakeReply(t) \/ PeersAnswer(t)
       PROVE  UNCHANGED <<outbox, channel>>
  BY <1>10 DEF Pipeline, Boot, RegisterActive, StoreMemory, StoreSnapshot, RemoveParent,
               Hibernate, TakeReply, PeersAnswer
<1>11. ASSUME NEW t \in Task, Guest(t) PROVE CallsNamed'
  <2>1. ASSUME Compute(t) \/ Return(t) PROVE UNCHANGED <<outbox, channel>>
    BY <2>1 DEF Compute, Return
  <2>2. ASSUME Pay(t) \/ Notify(t) \/ Fork(t) PROVE CallsNamed'
    BY <1>5, <2>2 DEF Pay, Notify, Fork
  <2>3. QED
    BY <1>1, <1>4, <1>11, <2>1, <2>2 DEF Guest
<1>12. ASSUME NEW c \in Client, Request(c) PROVE CallsNamed'
  BY <1>1, <1>3, <1>9, <1>12 DEF Request
<1>13. ASSUME NEW t \in Task, Step(t) PROVE CallsNamed'
  BY <1>1, <1>10, <1>11, <1>13 DEF Step
<1>14. CASE UNCHANGED vars
  BY <1>1, <1>14 DEF vars
<1>15. QED
  BY <1>1, <1>6, <1>7, <1>8, <1>10, <1>12, <1>13, <1>14 DEF Next

LEMMA InvInit == Init => IInv
<1> SUFFICES ASSUME Init PROVE IInv
  OBVIOUS
<1>1. \A t \in Task : frame[t] = IdleFrame
  BY DEF Init
<1>2. DOMAIN snapshots = {} /\ NoTet < nextId
  BY DEF Init, NoTet
<1>3. Ids
  BY <1>1, <1>2, ConstantTypes DEF Ids
<1>4. \A a \in Alias : registry[a] = {}
  BY DEF Init
<1>5. Stored
  BY <1>1, <1>4, ConstantTypes DEF Stored
<1>6. Active
  BY <1>1, <1>4, ConstantTypes DEF Active, InStoring
<1>7. CallsNamed
  BY ConstantTypes DEF Init, CallsNamed, Named, NoMessage
<1>8. QED
  BY <1>3, <1>5, <1>6, <1>7, TypeInit DEF IInv

LEMMA InvNext == IInv /\ [Next]_vars => IInv'
<1> SUFFICES ASSUME IInv, [Next]_vars PROVE IInv'
  OBVIOUS
<1>1. TypeOK /\ Shape /\ CallsNamed /\ Ids /\ Stored /\ Active
  BY DEF IInv
<1>2. TypeOK'
  BY <1>1, TypeNext
<1>3. CallsNamed'
  BY <1>1, NamedNext
<1>4. CASE Next
  <2>1. Shape' /\ (SomeQuiet \/ Loud)
    BY <1>1, <1>2, <1>4, StepKinds
  <2>2. CASE SomeQuiet
    BY <1>1, <1>2, <1>3, <2>1, <2>2, QuietIds, QuietStored, QuietActive DEF SomeQuiet, IInv
  <2>3. CASE Loud
    BY <1>1, <1>2, <1>3, <2>1, <2>3, LoudIds, LoudStored, LoudActive DEF IInv
  <2>4. QED
    BY <2>1, <2>2, <2>3
<1>5. CASE UNCHANGED vars
  <2>1. Shape'
    BY <1>1, <1>5 DEF vars, Shape
  <2>2. Ids' /\ Stored' /\ Active'
    BY <1>1, <1>5 DEF vars, Ids, Stored, Active, Kept, ActiveEntry
  <2>3. QED
    BY <1>2, <1>3, <2>1, <2>2 DEF IInv
<1>6. QED
  BY <1>4, <1>5

THEOREM InvCorrect == Spec => []IInv
<1>1. QED
  BY InvInit, InvNext, PTL DEF Spec

(* Every variable keeps its type; in particular the channel never holds more *)
(* messages than its capacity, whatever the guests and the clients send.     *)
THEOREM TypeCorrect == Spec => []TypeOK
<1>1. IInv => TypeOK
  BY DEF IInv
<1>2. QED
  BY <1>1, InvCorrect, PTL

(* Whatever is interleaved between the locks of execute(), an entry that     *)
(* says its agent hibernates points to a stored snapshot of that very run.   *)
THEOREM HibernatingCorrect == Spec => []HibernatingIsStored
<1>1. IInv => HibernatingIsStored
  BY DEF IInv, Stored, HibernatingIsStored, Kept
<1>2. QED
  BY <1>1, InvCorrect, PTL

(* An alias that no execution is about to finish only has replicas that can  *)
(* be woken: the half-registered ones are those whose own execution was      *)
(* dropped with its client between the two registrations.                    *)
THEOREM CallableCorrect == Spec => []QuietAliasIsCallable
<1>1. IInv => QuietAliasIsCallable
  BY DEF IInv, Active, QuietAliasIsCallable, Finishing
<1>2. QED
  BY <1>1, InvCorrect, PTL

(* Waking an agent never makes its name disappear: the old entry is only     *)
(* removed while the new run's own entry is registered.                      *)
THEOREM AliasCorrect == Spec => AliasNeverLost
<1> DEFINE Kept1 == \A a \in Alias : registry[a] # {} => registry'[a] # {}
<1>1. ASSUME IInv, [Next]_vars, registry' # registry PROVE Kept1
  <2>1. TypeOK /\ Shape /\ CallsNamed /\ Active /\ TypeOK'
    BY <1>1, TypeNext DEF IInv
  <2>2. SomeQuiet \/ Loud
    BY <1>1, <2>1, StepKinds DEF vars
  <2>3. PICK t \in Task : RegisterActive(t) \/ RemoveParent(t) \/ Hibernate(t)
    BY <1>1, <2>2 DEF SomeQuiet, Quiet, Loud, Copied, Cut, Booted, StoreMemory, StoreSnapshot
  <2>4. CASE RegisterActive(t)
    BY <2>4 DEF RegisterActive, WithEntry
  <2>5. CASE RemoveParent(t)
    <3>1. CASE frame[t].parent # NoTet /\ frame[t].alias \in Alias
      <4>1. ActiveEntry(t) \in registry[frame[t].alias]
        BY <2>1, <2>5, <3>1 DEF RemoveParent, Active, InStoring
      <4>2. ActiveEntry(t) \in registry'[frame[t].alias]
        BY <2>1, <2>5, <3>1, <4>1 DEF RemoveParent, WithoutSnapshot, ActiveEntry, TypeOK
      <4>3. QED
        BY <2>1, <2>5, <3>1, <4>2 DEF RemoveParent, TypeOK
    <3>2. CASE ~(frame[t].parent # NoTet /\ frame[t].alias \in Alias)
      BY <2>5, <3>2 DEF RemoveParent
    <3>3. QED
      BY <3>1, <3>2
  <2>6. CASE Hibernate(t)
    BY <2>6 DEF Hibernate, WithEntry
  <2>7. QED
    BY <2>3, <2>4, <2>5, <2>6
<1>2. IInv /\ [Next]_vars => [Kept1]_registry
  BY <1>1
<1>3. QED
  BY <1>2, InvCorrect, PTL DEF Spec, AliasNeverLost

-----------------------------------------------------------------------------
(***************************************************************************)
(* Time travel needs a copy: while no client stores the memory of an agent *)
(* under a second snapshot id, an alias never leads back to memory that    *)
(* was already resumed under it.                                           *)
(***************************************************************************)
\* Without copies a snapshot holds the memory of the execution it is named
\* after, and nothing that was slept on is still running.
Aged ==
    /\ \A s \in DOMAIN snapshots : snapshots[s] = s
    /\ \A p \in superseded : p[2] \in DOMAIN snapshots
    /\ \A t \in Task : frame[t].tet # NoTet =>
          /\ \A a \in Alias : \A e \in registry[a] : e.snap # frame[t].tet
          /\ \A u \in Task : frame[u].parent # frame[t].tet
          /\ \A p \in superseded : p[2] # frame[t].tet


Outdated ==
    \A p \in superseded : \A e \in registry[p[1]] : e.snap # NoTet => e.snap # p[2]

LEMMA AgedNext ==
    ASSUME ClientOps \cap {"snapshot", "topup"} = {}, IInv, Aged, Outdated, [Next]_vars
    PROVE  Aged' /\ Outdated'
<1>a. /\ TypeOK /\ Shape /\ CallsNamed /\ Ids /\ Stored /\ TypeOK'
      /\ \A p \in superseded : p[1] \in Alias /\ p[2] \in Id
  BY TypeNext DEF IInv, TypeOK
<1>1. CASE UNCHANGED vars
  BY <1>1 DEF vars, Aged, Outdated
<1>2. ASSUME NEW t \in Task, Quiet(t) PROVE Aged' /\ Outdated'
  <2>1. /\ UNCHANGED <<registry, snapshots, superseded>>
        /\ \A u \in Task : frame'[u].tet \in {frame[u].tet, NoTet}
        /\ \A u \in Task : \/ frame'[u].parent \in {frame[u].parent, NoTet}
                           \/ \E a \in Alias : \E e \in registry[a] : frame'[u].parent = e.snap
    BY <1>2 DEF Quiet, Follows, Others, Aged, Copies
  <2>2. QED
    BY <2>1 DEF Aged, Outdated
<1>3. ASSUME NEW c \in Client, Cut(c) PROVE Aged' /\ Outdated'
  <2>1. /\ UNCHANGED <<registry, snapshots, superseded>>
        /\ \A u \in Task : /\ frame'[u].tet \in {frame[u].tet, NoTet}
                            /\ frame'[u].parent \in {frame[u].parent, NoTet}
    BY <1>3, ConstantTypes DEF Cut, Ended, Others
  <2>2. QED
    BY <2>1 DEF Aged, Outdated
<1>4. ASSUME NEW t \in Task, Booted(t) PROVE Aged' /\ Outdated'
  <2>1. /\ UNCHANGED <<registry, snapshots, superseded>>
        /\ frame'[t].tet = nextId
        /\ \A u \in Task : u # t => frame'[u] = frame[u]
        /\ frame'[t].parent = frame[t].parent
    BY <1>4 DEF Booted, Others
  <2>2. \A s \in DOMAIN snapshots : s # nextId
    BY <1>a DEF Ids, TypeOK, Id
  <2>3. nextId # NoTet
    BY <1>a DEF TypeOK, Id
  <2>4. \A a \in Alias : \A e \in registry[a] : e.snap # nextId
    BY <1>a, <2>2, <2>3 DEF Stored, Kept
  <2>5. \A u \in Task : frame'[u].parent = frame[u].parent /\ frame[u].parent # nextId
    BY <1>a, <2>1, <2>2, <2>3 DEF Shape
  <2>6. \A p \in superseded : p[2] # nextId
    BY <2>2 DEF Aged
  <2>7. QED
    BY <2>1, <2>4, <2>5, <2>6 DEF Aged, Outdated
<1>5. ASSUME NEW t \in Task, NEW st, Moved(t, st)
      PROVE  \A u \in Task : frame'[u].tet = frame[u].tet /\ frame'[u].parent = frame[u].parent
  BY <1>5 DEF Moved, Others
<1>6. ASSUME NEW t \in Task, RegisterActive(t) PROVE Aged' /\ Outdated'
  <2>1. /\ Moved(t, "registered") /\ UNCHANGED <<snapshots, superseded>>
    BY <1>a, <1>6, MovedStage DEF RegisterActive
  <2>2. \A a \in Alias : \A e \in registry'[a] : e \in registry[a] \/ e.snap = NoTet
    BY <1>6 DEF RegisterActive, WithEntry
  <2>3. QED
    BY <1>5, <1>a, <2>1, <2>2 DEF Aged, Outdated
<1>7. ASSUME NEW t \in Task, StoreMemory(t) PROVE Aged' /\ Outdated'
  <2>1. Moved(t, "stored") /\ UNCHANGED <<snapshots, registry, superseded>>
    BY <1>a, <1>7, MovedStage DEF StoreMemory
  <2>2. QED
    BY <1>5, <2>1 DEF Aged, Outdated
<1>8. ASSUME NEW t \in Task, StoreSnapshot(t) PROVE Aged' /\ Outdated'
  <2>1. Moved(t, "snapped") /\ UNCHANGED <<registry, superseded>>
    BY <1>a, <1>8, MovedStage DEF StoreSnapshot
  <2>2. /\ DOMAIN snapshots \subseteq DOMAIN snapshots'
        /\ \A s \in DOMAIN snapshots' : snapshots'[s] = s
    BY <1>8 DEF StoreSnapshot, Aged
  <2>3. QED
    BY <1>5, <2>1, <2>2 DEF Aged, Outdated
<1>9. ASSUME NEW t \in Task, RemoveParent(t) PROVE Aged' /\ Outdated'
  <2>1. Moved(t, "pruned") /\ UNCHANGED snapshots
    BY <1>a, <1>9, MovedStage DEF RemoveParent
  <2>2. CASE frame[t].parent # NoTet /\ frame[t].alias \in Alias
    <3>1. frame[t].parent \in DOMAIN snapshots /\ snapshots[frame[t].parent] = frame[t].parent
      BY <1>a, <2>2 DEF Shape, Aged
    <3>2. superseded' = superseded \cup {<<frame[t].alias, frame[t].parent>>}
      BY <1>9, <2>2, <3>1 DEF RemoveParent
    <3>3. /\ \A a \in Alias : registry'[a] \subseteq registry[a]
          /\ \A e \in registry'[frame[t].alias] : e.snap # frame[t].parent
      BY <1>a, <1>9, <2>2 DEF RemoveParent, WithoutSnapshot, TypeOK
    <3>4. Aged'
      BY <1>5, <2>1, <3>1, <3>2, <3>3 DEF Aged
    <3>5. Outdated'
      BY <1>a, <3>2, <3>3 DEF Outdated
    <3>6. QED
      BY <3>4, <3>5
  <2>3. CASE ~(frame[t].parent # NoTet /\ frame[t].alias \in Alias)
    <3>1. UNCHANGED <<registry, superseded>>
      BY <1>9, <2>3 DEF RemoveParent
    <3>2. QED
      BY <1>5, <2>1, <3>1 DEF Aged, Outdated
  <2>4. QED
    BY <2>2, <2>3
<1>10. ASSUME NEW t \in Task, Hibernate(t) PROVE Aged' /\ Outdated'
  <2>1. /\ UNCHANGED <<snapshots, superseded>>
        /\ frame[t].tet # NoTet
        /\ frame'[t].tet = NoTet /\ frame'[t].parent = NoTet
        /\ \A u \in Task : u # t => frame'[u] = frame[u]
    BY <1>a, <1>10, ConcludeEnds, ConstantTypes
       DEF Hibernate, Ended, Others, Shape, HasTet
  <2>2. \A a \in Alias : \A e \in registry'[a] : e \in registry[a] \/ e.snap = frame[t].tet
    BY <1>10 DEF Hibernate, WithEntry
  <2>3. \A u \in Task : frame'[u].tet # NoTet => frame'[u].tet # frame[t].tet
    BY <1>a, <2>1 DEF Ids
  <2>4. Aged'
    BY <2>1, <2>2, <2>3 DEF Aged
  <2>5. Outdated'
    BY <1>a, <2>1, <2>2 DEF Aged, Outdated
  <2>6. QED
    BY <2>4, <2>5
<1>11. ASSUME NEW c \in Client, Copied(c) PROVE FALSE
  BY <1>11 DEF Copied, SnapshotRequest, TopUpRequest, Accept
<1>12. CASE Next
  <2>1. SomeQuiet \/ Loud
    BY <1>a, <1>12, StepKinds
  <2>2. QED
    BY <2>1, <1>2, <1>4, <1>6, <1>7, <1>8, <1>9, <1>10, <1>11, <1>3
       DEF SomeQuiet, Loud
<1>13. QED
  BY <1>1, <1>12

(* "Remove old snapshot entry to prevent time-travel bugs": the pruning in   *)
(* execute() does prevent them between executions, forks and mesh calls; the *)
(* hypothesis excludes the API's top-up and snapshot requests, not its forks *)
(* and not the clients that hang up.                                         *)
THEOREM TimeTravelNeedsACopy ==
    ASSUME ClientOps \cap {"snapshot", "topup"} = {} PROVE Spec => []NoTimeTravel
<1>1. Init => Aged /\ Outdated
  <2> SUFFICES ASSUME Init PROVE Aged /\ Outdated
    OBVIOUS
  <2>1. /\ DOMAIN snapshots = {} /\ superseded = {}
        /\ \A t \in Task : frame[t].tet = NoTet
    BY ConstantTypes DEF Init
  <2>2. QED
    BY <2>1 DEF Aged, Outdated
<1>2. IInv /\ (Aged /\ Outdated) /\ [Next]_vars => (Aged /\ Outdated)'
  BY AgedNext
<1>3. IInv /\ (Aged /\ Outdated) => NoTimeTravel
  <2> SUFFICES ASSUME IInv, Aged, Outdated, NEW p \in superseded, NEW e \in registry[p[1]],
                      e.snap # NoTet
               PROVE  snapshots[e.snap] # p[2]
    BY DEF NoTimeTravel
  <2>1. p[1] \in Alias
    BY DEF IInv, TypeOK
  <2>2. e.snap \in DOMAIN snapshots
    BY <2>1 DEF IInv, Stored, Kept
  <2>3. QED
    BY <2>2 DEF Aged, Outdated
<1>4. QED
  BY <1>1, <1>2, <1>3, InvCorrect, PTL DEF Spec

-----------------------------------------------------------------------------
(***************************************************************************)
(* The budget.  A call that waits for its answer is in one place: in the   *)
(* outbox of its caller, in the channel, with the worker, or answered; and *)
(* until then the caller keeps the fuel it offered.                        *)
(***************************************************************************)
\* A guest that made the call can pay for it.
Covers(m) == frame[m.from].tet # NoTet => m.fuel <= frame[m.from].fuel

Waits(m) == /\ frame[m.from].stage = "await" /\ ~reply[m.from].present
            /\ Covers(m)

Asked == \A t \in Task : outbox[t].kind = "call" =>
             frame[t].stage = "send" /\ outbox[t].from = t /\ Covers(outbox[t])

\* A call somebody still waits for.
Heard(m) == m.kind = "call" /\ m.from \in Task

Queued == \A i \in DOMAIN channel : Heard(channel[i]) =>
              /\ Waits(channel[i])
              /\ \A j \in DOMAIN channel :
                     Heard(channel[j]) /\ channel[j].from = channel[i].from => j = i

\* The worker cannot serve a call of its own: it would have to take the next message.
Served ==
    /\ frame[Worker].stage # "idle" <=> serving.kind = "call"
    /\ serving.kind = "call" => serving.from # Worker /\ frame[Worker].limit = serving.fuel
    /\ Heard(serving) =>
           /\ Waits(serving)
           /\ \A j \in DOMAIN channel : Heard(channel[j]) => channel[j].from # serving.from

Answered == \A t \in Task : reply[t].present =>
                /\ t # Worker /\ frame[t].stage = "await"
                /\ reply[t].used = reply[t].work
                /\ frame[t].tet # NoTet => reply[t].work <= frame[t].fuel

\* The books of one execution.  They are exact until a host function traps with fuel
\* still owed, which no guest of the worker ever does.
Books(r, exact) ==
    /\ r.stage \in {"idle", "asking", "boot"} => r.tet = NoTet /\ r.work = 0 /\ r.owed = 0
    /\ r.tet # NoTet => /\ r.work <= r.limit /\ r.limit <= r.work + r.fuel
                        /\ r.stage \in {"run", "send", "await"} \/ exact =>
                               r.owed = 0 /\ r.work + r.fuel = r.limit

BooksKept == \A t \in Task : Books(frame[t], t = Worker)

CallsInv == Asked /\ Queued /\ Served /\ Answered /\ BooksKept

\* Waits after the step, of a call that the step does not change.
StillWaits(m) == /\ frame'[m.from].stage = "await" /\ ~reply'[m.from].present
                 /\ frame'[m.from].tet # NoTet => m.fuel <= frame'[m.from].fuel


LEMMA Senders ==
    ASSUME TypeOK
    PROVE  /\ \A i \in DOMAIN channel : channel[i] \in Message
           /\ serving \in Message /\ Worker \in Task
           /\ NoTask \notin Task /\ \A m : Heard(m) => m.from \in Task
<1>1. \A i \in DOMAIN channel : channel[i] \in Message
  BY DEF TypeOK
<1>2. NoTask \notin Task
  BY MeshAssumption DEF Task
<1>3. QED
  BY <1>1, <1>2 DEF TypeOK, Task, Heard

\* One task moves on between stages in which it has no call under way.
LEMMA LocalStep ==
    ASSUME TypeOK, CallsInv, NEW t \in Task, Others(t),
           frame[t].stage \notin {"send", "await"},
           Books(frame'[t], t = Worker),
           t = Worker => /\ frame[t].stage # "idle" /\ frame'[t].stage # "idle"
                         /\ frame'[t].limit = frame[t].limit,
           UNCHANGED <<outbox, channel, serving, reply>>
    PROVE  CallsInv'
<1>1. /\ Asked /\ Queued /\ Served /\ Answered /\ BooksKept
      /\ \A u \in Task : u # t => frame'[u] = frame[u]
  BY DEF CallsInv, Others
<1>2. ASSUME NEW m, m.from \in Task, Waits(m) PROVE m.from # t /\ Waits(m)'
  BY <1>1, <1>2 DEF Waits, Covers
<1>3. Worker \in Task
  BY Senders
<1>4. Asked'
  BY <1>1 DEF Asked, Covers
<1>5. Queued'
  BY <1>1, <1>2 DEF Queued, Heard
<1>6. Served'
  BY <1>1, <1>2, <1>3 DEF Served, Heard
<1>7. Answered'
  BY <1>1 DEF Answered
<1>8. BooksKept'
  BY <1>1 DEF BooksKept
<1>9. QED
  BY <1>4, <1>5, <1>6, <1>7, <1>8 DEF CallsInv

LEMMA StageKeepsBooks ==
    ASSUME TypeOK, Shape, CallsInv, NEW t \in Task, frame[t].stage \in HasTet,
           NEW st \in HasTet \ {"run"}, frame' = [frame EXCEPT ![t].stage = st]
    PROVE  /\ Others(t) /\ Books(frame'[t], t = Worker) /\ frame'[t].stage = st
           /\ frame'[t].limit = frame[t].limit
<1>1. frame[t] \in Frame /\ Books(frame[t], t = Worker)
  BY DEF TypeOK, CallsInv, BooksKept
<1>2. Others(t) /\ frame'[t] = [frame[t] EXCEPT !.stage = st]
  BY ReplaceFrame DEF TypeOK
<1>3. QED
  BY <1>1, <1>2 DEF Books, Frame, HasTet

LEMMA StageKeepsCalls ==
    ASSUME TypeOK, Shape, CallsInv, NEW t \in Task, frame[t].stage \in HasTet,
           NEW st \in HasTet \ {"run"}, frame' = [frame EXCEPT ![t].stage = st],
           UNCHANGED <<outbox, channel, serving, reply>>
    PROVE  CallsInv'
BY StageKeepsBooks, LocalStep DEF HasTet

\* A new execution starts on a task that does nothing.
LEMMA StartKeepsCalls ==
    ASSUME TypeOK, CallsInv, NEW t \in Task \ {Worker}, frame[t].stage = "idle",
           NEW a, NEW p, NEW f \in Nat, NEW d, frame' = [frame EXCEPT ![t] = NewFrame(a, p, f, d)],
           UNCHANGED <<outbox, channel, serving, reply>>
    PROVE  CallsInv'
<1>1. Others(t) /\ frame'[t] = NewFrame(a, p, f, d)
  BY ReplaceFrame DEF TypeOK
<1>2. Books(NewFrame(a, p, f, d), FALSE)
  BY DEF Books, NewFrame, IdleFrame
<1>3. QED
  BY <1>1, <1>2, LocalStep

\* An execution ends; the worker's answer to its caller is exact.
LEMMA ConcludeKeepsCalls ==
    ASSUME TypeOK, TypeOK', CallsInv, NEW t \in Task, frame[t].stage \notin {"idle", "send", "await"},
           NEW u \in Nat, NEW w \in Nat, Conclude(t, Answer(u, w)),
           t = Worker => u = w /\ w <= frame[t].limit,
           UNCHANGED <<outbox, channel>>
    PROVE  CallsInv'
<1>1. /\ Asked /\ Queued /\ Served /\ Answered /\ BooksKept
      /\ \A v \in Task : v # t => frame'[v] = frame[v]
      /\ frame'[t] = IdleFrame
  BY ConcludeEnds DEF CallsInv, Others, Ended
<1>2. Books(IdleFrame, t = Worker) /\ IdleFrame.stage = "idle"
  BY DEF Books, IdleFrame
<1>3. Worker \in Task
  BY Senders
<1>4. Asked' /\ BooksKept'
  BY <1>1, <1>2 DEF Asked, Covers, BooksKept
<1>5. CASE t # Worker
  <2>1. UNCHANGED <<reply, serving>>
    BY <1>5 DEF Conclude
  <2>2. ASSUME NEW m, m.from \in Task, Waits(m) PROVE m.from # t /\ Waits(m)'
    BY <1>1, <2>1, <2>2 DEF Waits, Covers
  <2>3. Queued' /\ Served' /\ Answered'
    BY <1>1, <1>3, <1>5, <2>1, <2>2 DEF Queued, Served, Answered, Heard
  <2>4. QED
    BY <1>4, <2>3 DEF CallsInv
<1>6. CASE t = Worker
  <2> DEFINE c == serving.from
  <2>1. /\ \A v \in Task : reply'[v] = IF v = c THEN Answer(u, w) ELSE reply[v]
        /\ serving' = NoMessage /\ NoMessage.kind # "call"
        /\ serving.kind = "call" /\ c # Worker /\ w <= serving.fuel
        /\ Heard(serving) => Waits(serving)
    BY <1>1, <1>6 DEF Conclude, Delivered, Served, NoMessage
  <2>2. c \in Task => Heard(serving) /\ frame'[c] = frame[c] /\ frame[c].stage = "await"
    BY <1>1, <1>6, <2>1 DEF Heard, Waits
  <2>3. Queued'
    <3>1. SUFFICES ASSUME NEW i \in DOMAIN channel, Heard(channel[i])
                   PROVE  Waits(channel[i])'
      BY <1>1 DEF Queued, Heard
    <3>2. Waits(channel[i]) /\ channel[i].from # t /\ channel[i].from \in Task
      BY <1>1, <1>6, <3>1 DEF Queued, Waits, Heard
    <3>3. channel[i].from # c
      BY <1>1, <2>2, <3>1, <3>2 DEF Served
    <3>4. QED
      BY <1>1, <2>1, <3>2, <3>3 DEF Waits, Covers
  <2>4. Served'
    BY <1>1, <1>2, <1>6, <2>1 DEF Served, Heard
  <2>5. Answered'
    <3>1. c \in Task /\ frame[c].tet # NoTet => w <= frame[c].fuel
      <4>1. c \in Task /\ frame[c].tet # NoTet => serving.fuel <= frame[c].fuel
        BY <2>1, <2>2 DEF Waits, Covers
      <4>2. serving.fuel \in Nat /\ (c \in Task => frame[c].fuel \in Nat)
        BY DEF TypeOK, Message, Frame
      <4>3. QED
        BY <2>1, <4>1, <4>2
    <3>2. Answer(u, w).used = u /\ Answer(u, w).work = w
      BY DEF Answer
    <3>3. ASSUME NEW v \in Task, reply'[v].present
          PROVE  /\ v # Worker /\ frame'[v].stage = "await"
                 /\ reply'[v].used = reply'[v].work
                 /\ frame'[v].tet # NoTet => reply'[v].work <= frame'[v].fuel
      <4>1. CASE v = c
        BY <1>1, <1>6, <2>1, <2>2, <3>1, <3>2, <4>1
      <4>2. CASE v # c
        BY <1>1, <1>6, <2>1, <3>3, <4>2 DEF Answered
      <4>3. QED
        BY <4>1, <4>2
    <3>4. QED
      BY <3>3 DEF Answered
  <2>6. QED
    BY <1>4, <2>3, <2>4, <2>5 DEF CallsInv
<1>7. QED
  BY <1>5, <1>6

\* A client hangs up: nobody waits for its call any more.
LEMMA DisconnectKeepsCalls ==
    ASSUME TypeOK, CallsInv, NEW c \in Client, Disconnect(c) PROVE CallsInv'
<1>1. /\ Asked /\ Queued /\ Served /\ Answered /\ BooksKept
      /\ c \in Task /\ c # Worker /\ Worker \in Task /\ NoTask \notin Task
  BY MeshAssumption DEF CallsInv, Task
<1>2. /\ frame'[c] = IdleFrame /\ \A u \in Task : u # c => frame'[u] = frame[u]
      /\ outbox'[c] = NoMessage /\ \A u \in Task : u # c => outbox'[u] = outbox[u]
      /\ reply'[c] = NoReply /\ \A u \in Task : u # c => reply'[u] = reply[u]
      /\ serving' = Unheard(serving, c) /\ DOMAIN channel' = DOMAIN channel
      /\ \A i \in DOMAIN channel : channel'[i] = Unheard(channel[i], c)
  BY <1>1 DEF Disconnect, TypeOK
\* Of the calls that are still waited for, nothing changes.
<1>3. ASSUME NEW m \in Message
      PROVE  /\ Heard(Unheard(m, c)) => Heard(m) /\ m.from # c
             /\ Unheard(m, c).kind = m.kind /\ Unheard(m, c).fuel = m.fuel
             /\ Unheard(m, c).from = IF m.from = c THEN NoTask ELSE m.from
  BY <1>1, UnheardType DEF Heard
<1>4. ASSUME NEW m \in Message, m.from \in Task, m.from # c, Waits(m)
      PROVE  StillWaits(Unheard(m, c))
  BY <1>2, <1>3, <1>4 DEF Waits, Covers, StillWaits
<1>5. \A i \in DOMAIN channel : channel[i] \in Message
  BY Senders
<1>6. Asked' /\ Answered'
  BY <1>1, <1>2 DEF Asked, Answered, Covers, NoMessage, NoReply
<1>7. Queued'
  <2>1. \A i \in DOMAIN channel : Heard(channel'[i]) =>
            /\ Heard(channel[i]) /\ channel[i].from # c /\ channel'[i].from = channel[i].from
    BY <1>2, <1>3, <1>5
  <2>2. \A i \in DOMAIN channel : Heard(channel'[i]) => StillWaits(channel'[i])
    BY <1>1, <1>2, <1>4, <1>5, <2>1 DEF Queued, Heard
  <2>3. QED
    BY <1>1, <1>2, <2>1, <2>2 DEF Queued, Waits, Covers, StillWaits, Heard
<1>8. Served'
  <2>1. /\ serving \in Message /\ serving'.kind = serving.kind /\ serving'.fuel = serving.fuel
        /\ serving'.from = IF serving.from = c THEN NoTask ELSE serving.from
        /\ Heard(serving') => Heard(serving) /\ serving.from # c
    BY <1>2, <1>3 DEF TypeOK
  <2>2. frame'[Worker] = frame[Worker]
    BY <1>1, <1>2
  <2>3. serving'.kind = "call" => serving'.from # Worker
    BY <1>1, <2>1 DEF Served
  <2>4. Heard(serving') => StillWaits(serving')
    BY <1>1, <1>2, <1>4, <2>1 DEF Served, Heard
  <2>5. ASSUME Heard(serving'), NEW j \in DOMAIN channel, Heard(channel'[j])
        PROVE  channel'[j].from # serving'.from
    BY <1>1, <1>2, <1>3, <1>5, <2>1, <2>5 DEF Served
  <2>6. QED
    BY <1>1, <1>2, <2>1, <2>2, <2>3, <2>4, <2>5 DEF Served, Waits, Covers, StillWaits, Heard
<1>9. BooksKept'
  BY <1>1, <1>2 DEF BooksKept, Books, IdleFrame
<1>10. QED
  BY <1>6, <1>7, <1>8, <1>9 DEF CallsInv

\* A task that had no call under way makes one, or sends a packet or a fork.
LEMMA SendKeepsCalls ==
    ASSUME TypeOK, CallsInv, NEW t \in Task, Others(t), frame[t].stage \notin {"send", "await"},
           frame'[t].stage = "send", frame'[t].limit = frame[t].limit,
           Books(frame'[t], t = Worker),
           t = Worker => frame[t].stage # "idle",
           NEW k, NEW a, NEW f, NEW d, Send(t, k, a, f, d),
           k = "call" /\ frame'[t].tet # NoTet => f <= frame'[t].fuel,
           UNCHANGED <<channel, serving, reply>>
    PROVE  CallsInv'
<1>1. /\ Asked /\ Queued /\ Served /\ Answered /\ BooksKept
      /\ \A u \in Task : u # t => frame'[u] = frame[u] /\ outbox'[u] = outbox[u]
      /\ outbox'[t] = [kind |-> k, from |-> t, alias |-> a, fuel |-> f, depth |-> d]
  BY DEF CallsInv, Others, Send, TypeOK
<1>2. ASSUME NEW m, m.from \in Task, Waits(m) PROVE m.from # t /\ Waits(m)'
  BY <1>1, <1>2 DEF Waits, Covers
<1>3. Asked'
  BY <1>1 DEF Asked, Covers
<1>4. Queued' /\ Served'
  BY <1>1, <1>2, Senders DEF Queued, Served, Heard
<1>5. Answered' /\ BooksKept'
  BY <1>1 DEF Answered, BooksKept
<1>6. QED
  BY <1>3, <1>4, <1>5 DEF CallsInv

LEMMA EnqueueKeepsCalls ==
    ASSUME TypeOK, Shape, CallsInv, NEW t \in Task, Enqueue(t) PROVE CallsInv'
<1> DEFINE m == outbox[t]
           st == IF m.kind = "call" THEN "await" ELSE "run"
           n == Len(channel)
<1>1. /\ Asked /\ Queued /\ Served /\ Answered /\ BooksKept
      /\ frame[t].stage = "send" /\ m \in Message /\ frame[t] \in Frame
      /\ UNCHANGED <<serving, reply>>
  BY DEF CallsInv, Enqueue, TypeOK
<1>2. Others(t) /\ frame'[t] = [frame[t] EXCEPT !.stage = st]
  BY ReplaceFrame DEF TypeOK, Enqueue
<1>3. /\ frame'[t].stage = st /\ frame'[t].tet = frame[t].tet /\ frame'[t].fuel = frame[t].fuel
      /\ frame'[t].limit = frame[t].limit /\ frame'[t].work = frame[t].work
      /\ frame'[t].owed = frame[t].owed /\ \A u \in Task : u # t => frame'[u] = frame[u]
  BY <1>1, <1>2 DEF Frame, Others
<1>4. /\ n \in Nat /\ DOMAIN channel' = 1 .. n + 1 /\ DOMAIN channel = 1 .. n
      /\ channel'[n + 1] = m /\ \A i \in 1 .. n : channel'[i] = channel[i]
  BY <1>1 DEF Enqueue, TypeOK
<1>5. outbox'[t] = NoMessage /\ \A u \in Task : u # t => outbox'[u] = outbox[u]
  BY DEF Enqueue, TypeOK
<1> HIDE DEF m, n
<1>6. m.kind = "call" => m.from = t /\ Covers(m)
  BY <1>1 DEF Asked, m
<1>7. ASSUME NEW x, x.from \in Task, Waits(x) PROVE x.from # t /\ StillWaits(x)
  BY <1>1, <1>3, <1>7 DEF Waits, Covers, StillWaits
<1>8. Asked'
  BY <1>1, <1>3, <1>5 DEF Asked, Covers, NoMessage
<1>9. m.kind = "call" => StillWaits(m)
  BY <1>1, <1>3, <1>6 DEF Covers, StillWaits, Answered, m
<1>10. \A i \in 1 .. n : Heard(channel[i]) => StillWaits(channel[i]) /\ channel[i].from # t
  BY <1>1, <1>4, <1>7 DEF Queued, Heard
<1>11. Queued'
  <2>1. SUFFICES ASSUME NEW i \in 1 .. n + 1, Heard(channel'[i])
                 PROVE  /\ StillWaits(channel'[i])
                        /\ \A j \in 1 .. n + 1 : Heard(channel'[j])
                               /\ channel'[j].from = channel'[i].from => j = i
    BY <1>4 DEF Queued, Waits, Covers, StillWaits, Heard
  <2>a. Heard(m) => m.from = t /\ StillWaits(m)
    BY <1>6, <1>9 DEF Heard
  <2>2. CASE i = n + 1
    BY <1>4, <1>10, <2>a, <2>1, <2>2
  <2>3. CASE i \in 1 .. n
    BY <1>1, <1>4, <1>10, <2>a, <2>1, <2>3 DEF Queued
  <2>4. QED
    BY <1>4, <2>2, <2>3
<1>12. Served'
  <2>1. frame'[Worker].stage # "idle" <=> serving.kind = "call"
    BY <1>1, <1>3, Senders DEF Served
  <2>2. serving.kind = "call" => serving.from # Worker /\ frame'[Worker].limit = serving.fuel
    BY <1>1, <1>3, Senders DEF Served
  <2>3. Heard(serving) => StillWaits(serving) /\ serving.from # t
    BY <1>1, <1>7 DEF Served, Heard
  <2>4. Heard(serving) => \A j \in 1 .. n + 1 : Heard(channel'[j]) => channel'[j].from # serving.from
    BY <1>1, <1>4, <1>6, <2>3 DEF Served, Heard
  <2>5. QED
    BY <1>1, <1>4, <2>1, <2>2, <2>3, <2>4 DEF Served, Waits, Covers, StillWaits, Heard
<1>13. Answered'
  BY <1>1, <1>3 DEF Answered
<1>14. BooksKept'
  <2>1. Books(frame[t], t = Worker) /\ (frame[t].tet = NoTet => st = "await")
    BY <1>1 DEF BooksKept, Shape, m
  <2>2. Books(frame'[t], t = Worker)
    BY <1>1, <1>3, <2>1 DEF Books
  <2>3. QED
    BY <1>1, <1>3, <2>2 DEF BooksKept
<1>15. QED
  BY <1>8, <1>11, <1>12, <1>13, <1>14 DEF CallsInv

\* The answer of trytet::invoke: the callee's fuel is paid for, or the guest traps first.
LEMMA TakeReplyKeepsCalls ==
    ASSUME TypeOK, TypeOK', Shape, CallsInv, NEW t \in Task, TakeReply(t) PROVE CallsInv'
<1> DEFINE owed == frame[t].owed + reply[t].used
           work == frame[t].work + reply[t].work
<1>1. /\ Asked /\ Queued /\ Served /\ Answered /\ BooksKept
      /\ frame[t].stage = "await" /\ reply[t].present /\ frame[t] \in Frame /\ reply[t] \in Reply
      /\ UNCHANGED <<outbox, channel, serving>>
  BY DEF CallsInv, TakeReply, TypeOK
<1>2. t # Worker /\ reply[t].used = reply[t].work
      /\ (frame[t].tet # NoTet => reply[t].work <= frame[t].fuel)
  BY <1>1 DEF Answered
<1>3. /\ frame[t].owed \in Nat /\ frame[t].work \in Nat /\ frame[t].fuel \in Nat
      /\ frame[t].limit \in Nat /\ reply[t].used \in Nat /\ reply[t].work \in Nat
  BY <1>1 DEF Frame, Reply
<1>4. Books(frame[t], FALSE)
  BY <1>1, <1>2 DEF BooksKept
<1>5. frame[t].tet # NoTet => /\ owed = reply[t].work /\ owed <= frame[t].fuel
                              /\ Monus(frame[t].fuel, owed) = frame[t].fuel - reply[t].work
                              /\ work + (frame[t].fuel - reply[t].work) = frame[t].limit
                              /\ work <= frame[t].limit /\ frame[t].limit <= work + frame[t].fuel
  BY <1>1, <1>2, <1>3, <1>4 DEF Books, Monus
<1>6. Others(t) /\ frame'[t].stage \notin {"send", "await"} /\ Books(frame'[t], FALSE)
  <2> HIDE DEF owed, work
  <2>1. CASE frame' = [frame EXCEPT ![t] = IdleFrame]
    <3>1. Others(t) /\ frame'[t] = IdleFrame
      BY <2>1, ReplaceFrame DEF TypeOK
    <3>2. QED
      BY <3>1 DEF Books, IdleFrame
  <2>2. CASE /\ frame[t].tet # NoTet
             /\ frame' = [frame EXCEPT ![t].stage = "run", ![t].fuel = Monus(@, owed),
                                       ![t].owed = 0, ![t].work = work]
    <3> DEFINE r == [frame[t] EXCEPT !.stage = "run", !.fuel = Monus(frame[t].fuel, owed),
                                     !.owed = 0, !.work = work]
    <3>1. frame' = [frame EXCEPT ![t] = r]
      BY <2>2 DEF TypeOK
    <3>2. /\ r.stage = "run" /\ r.fuel = frame[t].fuel - reply[t].work /\ r.owed = 0
          /\ r.work = work /\ r.limit = frame[t].limit
      BY <1>1, <1>5, <2>2 DEF Frame
    <3>3. Books(r, FALSE)
      <4> HIDE DEF r
      <4>1. r.work + r.fuel = r.limit /\ r.work <= r.limit /\ r.limit <= r.work + r.fuel
        BY <1>3, <1>5, <2>2, <3>2
      <4>2. QED
        BY <3>2, <4>1 DEF Books
    <3> HIDE DEF r
    <3>4. QED
      BY <3>1, <3>2, <3>3, ReplaceFrame DEF TypeOK
  <2>3. CASE /\ frame[t].tet # NoTet
             /\ frame' = [frame EXCEPT ![t].stage = "ran", ![t].owed = owed, ![t].work = work]
    <3> DEFINE r == [frame[t] EXCEPT !.stage = "ran", !.owed = owed, !.work = work]
    <3>1. frame' = [frame EXCEPT ![t] = r]
      BY <2>3 DEF TypeOK
    <3>2. /\ r.stage = "ran" /\ r.fuel = frame[t].fuel /\ r.work = work
          /\ r.limit = frame[t].limit
      BY <1>1 DEF Frame
    <3> HIDE DEF r
    <3>3. Books(r, FALSE)
      BY <1>5, <2>3, <3>2 DEF Books
    <3>4. QED
      BY <3>1, <3>2, <3>3, ReplaceFrame DEF TypeOK
  <2>4. QED
    BY <2>1, <2>2, <2>3 DEF TakeReply, owed, work
<1>7. /\ \A u \in Task : u # t => frame'[u] = frame[u] /\ reply'[u] = reply[u]
      /\ ~reply'[t].present
  BY <1>6 DEF TakeReply, Others, NoReply, TypeOK
<1>8. ASSUME NEW m, m.from \in Task, Waits(m) PROVE m.from # t /\ Waits(m)'
  BY <1>1, <1>7, <1>8 DEF Waits, Covers
<1>9. Asked' /\ Answered'
  BY <1>1, <1>7 DEF Asked, Answered, Covers
<1>10. Queued' /\ Served'
  BY <1>1, <1>2, <1>7, <1>8, Senders DEF Queued, Served, Heard
<1>11. BooksKept'
  BY <1>1, <1>2, <1>6, <1>7 DEF BooksKept
<1>12. QED
  BY <1>9, <1>10, <1>11 DEF CallsInv

\* The worker takes the next message: it refuses the call, starts on it, or does nothing
\* that a caller waits for.
LEMMA DequeueKeepsCalls ==
    ASSUME TypeOK, TypeOK', CallsInv, Dequeue PROVE CallsInv'
<1> DEFINE m == Head(channel)
           n == Len(channel)
<1>1. /\ Asked /\ Queued /\ Served /\ Answered /\ BooksKept
      /\ frame[Worker].stage = "idle" /\ UNCHANGED outbox
  BY DEF CallsInv, Dequeue
<1>2. /\ n \in Nat \ {0} /\ DOMAIN channel = 1 .. n /\ DOMAIN channel' = 1 .. n - 1
      /\ m = channel[1] /\ \A i \in 1 .. n - 1 : channel'[i] = channel[i + 1]
  BY DEF Dequeue, TypeOK
<1>3. m \in Message /\ m.fuel \in Nat
  BY <1>2, Senders DEF Message
<1>4. serving.kind # "call"
  BY <1>1 DEF Served
<1>5. (ServeCall(m) \/ ServeFork(m) \/ ServePacket(m))
  BY DEF Dequeue
<1> HIDE DEF m, n
<1>6. Heard(m) => /\ Waits(m) /\ m.from # Worker
                  /\ \A i \in 1 .. n - 1 : Heard(channel'[i]) => channel'[i].from # m.from
  <2>1. SUFFICES ASSUME Heard(m)
                 PROVE  /\ Waits(m) /\ m.from # Worker
                        /\ \A i \in 1 .. n - 1 : Heard(channel'[i]) => channel'[i].from # m.from
    OBVIOUS
  <2>2. Waits(m) /\ \A j \in 1 .. n : Heard(channel[j]) /\ channel[j].from = m.from => j = 1
    BY <1>1, <1>2, <2>1 DEF Queued
  <2>3. \A i \in 1 .. n - 1 : i + 1 \in 1 .. n /\ i + 1 # 1
    BY <1>2
  <2>4. QED
    BY <1>1, <1>2, <2>2, <2>3 DEF Waits
<1>7. \A i \in 1 .. n - 1 : Heard(channel'[i]) =>
          /\ Waits(channel'[i]) /\ channel'[i].from \in Task
          /\ \A j \in 1 .. n - 1 : Heard(channel'[j])
                 /\ channel'[j].from = channel'[i].from => j = i
  <2>1. \A i \in 1 .. n - 1 : i + 1 \in 1 .. n
    BY <1>2
  <2>2. ASSUME NEW i \in 1 .. n - 1, NEW j \in 1 .. n - 1, i + 1 = j + 1 PROVE i = j
    BY <1>2, <2>2
  <2>3. QED
    BY <1>1, <1>2, <2>1, <2>2, Senders DEF Queued
\* A step in which nobody is answered and whoever starts was idle.
<1>8. ASSUME NEW t \in Task, Others(t), frame[t].stage = "idle", Books(frame'[t], t = Worker),
             UNCHANGED reply, Served'
      PROVE  CallsInv'
  <2>1. \A u \in Task : u # t => frame'[u] = frame[u]
    BY <1>8 DEF Others
  <2>2. ASSUME NEW x, x.from \in Task, Waits(x) PROVE Waits(x)'
    BY <1>8, <2>1, <2>2 DEF Waits, Covers
  <2>3. Asked' /\ Answered' /\ BooksKept'
    BY <1>1, <1>8, <2>1 DEF Asked, Answered, BooksKept, Covers
  <2>4. Queued'
    BY <1>2, <1>7, <2>2 DEF Queued, Heard
  <2>5. QED
    BY <1>8, <2>3, <2>4 DEF CallsInv
<1>9. CASE ServeFork(m) \/ ServePacket(m)
  <2>1. CASE UNCHANGED frame
    <3>1. UNCHANGED <<reply, serving>>
      BY <1>9 DEF ServeFork, ServePacket
    <3>2. Served'
      BY <1>1, <1>4, <2>1, <3>1 DEF Served, Heard
    <3>3. Others(Worker) /\ Books(frame'[Worker], TRUE)
      BY <1>1, <2>1, Senders DEF Others, BooksKept
    <3>4. QED
      BY <1>1, <1>8, <3>1, <3>2, <3>3, Senders
  <2>2. CASE ServeFork(m)
    <3>1. PICK t \in Forked : /\ frame[t].stage = "idle"
                              /\ frame' = [frame EXCEPT ![t] = NewFrame(m.alias, NoTet, m.fuel, 0)]
      BY <2>2 DEF ServeFork
    <3>2. t \in Task /\ t # Worker /\ UNCHANGED <<reply, serving>>
      BY <2>2, MeshAssumption DEF Task, ServeFork
    <3>3. Others(t) /\ frame'[t] = NewFrame(m.alias, NoTet, m.fuel, 0)
      BY <3>1, <3>2, ReplaceFrame DEF TypeOK
    <3>4. Books(frame'[t], FALSE)
      BY <3>3 DEF Books, NewFrame, IdleFrame
    <3>5. Served'
      BY <1>1, <1>4, <3>2, <3>3, Senders DEF Served, Others, Heard
    <3>6. QED
      BY <1>8, <3>1, <3>2, <3>3, <3>4, <3>5
  <2>3. QED
    BY <1>9, <2>1, <2>2 DEF ServePacket
<1>10. ASSUME m.kind = "call", serving' = m, NEW r, Books(r, TRUE), r.stage # "idle", r.limit = m.fuel,
              frame' = [frame EXCEPT ![Worker] = r], UNCHANGED reply
       PROVE  CallsInv'
  <2>1. Others(Worker) /\ frame'[Worker] = r
    BY <1>10, ReplaceFrame, Senders DEF TypeOK
  <2>2. Heard(m) => StillWaits(m)
    BY <1>6, <1>10, <2>1 DEF Waits, Covers, StillWaits, Others, Heard
  <2>3. m.from # Worker
    BY <1>6, <1>10, Senders DEF Heard
  <2>4. Served'
    BY <1>2, <1>6, <1>10, <2>1, <2>2, <2>3 DEF Served, Waits, Covers, StillWaits, Heard
  <2>5. QED
    BY <1>1, <1>8, <1>10, <2>1, <2>4, Senders
<1>11. ASSUME m.kind = "call", Refuse(m) PROVE CallsInv'
  <2>1. /\ UNCHANGED <<frame, serving>>
        /\ \A u \in Task : reply'[u] = IF u = m.from THEN Answer(0, 0) ELSE reply[u]
    BY <1>11 DEF Refuse, Delivered
  <2>2. Asked' /\ BooksKept'
    BY <1>1, <2>1 DEF Asked, Covers, BooksKept
  <2>3. Served'
    BY <1>1, <1>4, <2>1 DEF Served, Heard
  <2>4. Answered'
    <3>1. /\ Answer(0, 0).used = 0 /\ Answer(0, 0).work = 0
          /\ \A u \in Task : frame[u].fuel \in Nat
      BY DEF Answer, TypeOK, Frame
    <3>2. ASSUME NEW u \in Task, reply'[u].present
          PROVE  /\ u # Worker /\ frame'[u].stage = "await"
                 /\ reply'[u].used = reply'[u].work
                 /\ frame'[u].tet # NoTet => reply'[u].work <= frame'[u].fuel
      <4>1. CASE u = m.from
        <5>1. Heard(m) /\ 0 <= frame[u].fuel
          BY <1>11, <3>1, <4>1 DEF Heard
        <5>2. QED
          BY <1>6, <2>1, <3>1, <4>1, <5>1 DEF Waits
      <4>2. CASE u # m.from
        BY <1>1, <2>1, <3>2, <4>2 DEF Answered
      <4>3. QED
        BY <4>1, <4>2
    <3>3. QED
      BY <3>2 DEF Answered
  <2>5. Queued'
    <3>1. ASSUME NEW i \in 1 .. n - 1, Heard(channel'[i]) PROVE StillWaits(channel'[i])
      <4>1. Waits(channel'[i]) /\ channel'[i].from \in Task
        BY <1>7, <3>1
      <4>2. channel'[i].from # m.from
        BY <1>6, <1>11, <3>1, <4>1 DEF Heard
      <4>3. QED
        BY <2>1, <4>1, <4>2 DEF Waits, Covers, StillWaits
    <3>2. QED
      BY <1>2, <1>7, <3>1 DEF Queued, Waits, Covers, StillWaits, Heard
  <2>6. QED
    BY <2>2, <2>3, <2>4, <2>5 DEF CallsInv
<1>12. CASE ServeCall(m)
  <2>1. CASE \E p : /\ frame' = [frame EXCEPT ![Worker] = NewFrame(m.alias, p, m.fuel, m.depth + 1)]
                    /\ serving' = m /\ m.kind = "call" /\ UNCHANGED reply
    <3>1. \A p : /\ Books(NewFrame(m.alias, p, m.fuel, m.depth + 1), TRUE)
                 /\ NewFrame(m.alias, p, m.fuel, m.depth + 1).stage # "idle"
                 /\ NewFrame(m.alias, p, m.fuel, m.depth + 1).limit = m.fuel
      BY DEF Books, NewFrame, IdleFrame
    <3>2. QED
      BY <1>10, <2>1, <3>1
  <2>2. CASE /\ frame' = [frame EXCEPT ![Worker] = Asking(m.alias, m.fuel)]
             /\ serving' = m /\ m.kind = "call" /\ UNCHANGED reply
    <3>1. /\ Books(Asking(m.alias, m.fuel), TRUE)
          /\ Asking(m.alias, m.fuel).stage # "idle"
          /\ Asking(m.alias, m.fuel).limit = m.fuel
      BY DEF Books, Asking, IdleFrame
    <3>2. QED
      BY <1>10, <2>2, <3>1
  <2>3. QED
    BY <1>11, <1>12, <2>1, <2>2 DEF ServeCall
<1>13. QED
  BY <1>5, <1>9, <1>12

LEMMA CallsInit == Init => CallsInv
<1> SUFFICES ASSUME Init PROVE CallsInv
  OBVIOUS
<1>1. /\ channel = <<>> /\ serving = NoMessage
      /\ \A t \in Task : frame[t] = IdleFrame /\ outbox[t] = NoMessage /\ reply[t] = NoReply
  BY DEF Init
<1>2. \A t \in Task : Books(IdleFrame, t = Worker)
  BY DEF Books, IdleFrame
<1>3. Asked /\ Answered /\ BooksKept
  BY <1>1, <1>2 DEF Asked, Answered, BooksKept, NoMessage, NoReply
<1>4. Queued /\ Served
  BY <1>1 DEF Queued, Served, Heard, NoMessage, IdleFrame, Task
<1>5. QED
  BY <1>3, <1>4 DEF CallsInv

\* A running guest burns n units.
LEMMA RunningBooks ==
    ASSUME NEW t, NEW r \in Frame, r.stage = "run", r.tet # NoTet, Books(r, t = Worker),
           NEW n \in Nat, n <= r.fuel, NEW q, q.stage \in {"run", "send"},
           q.fuel = r.fuel - n, q.work = r.work + n,
           q.tet = r.tet, q.limit = r.limit, q.owed = r.owed
    PROVE  Books(q, t = Worker)
BY DEF Books, Frame

LEMMA CallsNext ==
    ASSUME TypeOK, TypeOK', Shape, CallsInv, [Next]_vars PROVE CallsInv'
<1>a. /\ \A t \in Task : /\ frame[t] \in Frame /\ Books(frame[t], t = Worker)
                         /\ frame[t].stage \in HasTet => frame[t].tet # NoTet
      /\ Worker \in Task /\ \A c \in Client : c \in Task /\ c # Worker
      /\ frame[Worker].stage # "idle" => serving.kind = "call" /\ frame[Worker].limit = serving.fuel
  BY MeshAssumption DEF TypeOK, CallsInv, BooksKept, Shape, Task, Served
<1>1. ASSUME NEW c \in Client, ExecuteRequest(c) PROVE CallsInv'
  <2>1. PICK a \in Alias \cup {NoAlias}, p \in {NoTet} \cup Copies, f \in 0..MaxFuel, d \in InputDepth :
           frame' = [frame EXCEPT ![c] = NewFrame(a, p, f, d)]
    BY <1>1 DEF ExecuteRequest
  <2>2. f \in Nat /\ frame[c].stage = "idle" /\ UNCHANGED <<outbox, channel, serving, reply>>
    BY <1>1 DEF ExecuteRequest, Accept
  <2>3. QED
    BY <1>a, <2>1, <2>2, StartKeepsCalls
\* What a snapshot or a top-up does to the calls.
<1>2. ASSUME NEW c \in Client, frame[c].stage = "idle",
             UNCHANGED <<outbox, channel, serving, reply>>,
             \/ UNCHANGED frame
             \/ \E a \in Alias : frame' = [frame EXCEPT ![c] = Asking(a, 0)]
             \/ \E a \in Alias, f \in 0..MaxFuel :
                   frame' = [frame EXCEPT ![c] = NewFrame(a, nextId, f, 0)]
      PROVE  CallsInv'
  <2>1. CASE UNCHANGED frame
    BY <1>2, <2>1 DEF CallsInv, Asked, Queued, Served, Answered, BooksKept, Waits, Covers, Heard
  <2>2. ASSUME NEW a \in Alias, frame' = [frame EXCEPT ![c] = Asking(a, 0)] PROVE CallsInv'
    <3>1. Others(c) /\ frame'[c] = Asking(a, 0)
      BY <1>a, <2>2, ReplaceFrame DEF TypeOK
    <3>2. Books(frame'[c], c = Worker)
      BY <3>1 DEF Books, Asking, IdleFrame
    <3>3. QED
      BY <1>2, <1>a, <3>1, <3>2, LocalStep
  <2>3. ASSUME NEW a \in Alias, NEW f \in 0..MaxFuel,
               frame' = [frame EXCEPT ![c] = NewFrame(a, nextId, f, 0)] PROVE CallsInv'
    <3>1. f \in Nat /\ c \in Task \ {Worker}
      BY <1>a
    <3>2. QED
      BY <1>2, <2>3, <3>1, StartKeepsCalls
  <2>4. QED
    BY <1>2, <2>1, <2>2, <2>3
<1>3. ASSUME NEW c \in Client, SnapshotRequest(c) PROVE CallsInv'
  BY <1>2, <1>3 DEF SnapshotRequest, Accept
<1>4. ASSUME NEW c \in Client, TopUpRequest(c) PROVE CallsInv'
  <2>1. frame[c].stage = "idle" /\ UNCHANGED <<outbox, channel, serving, reply>>
    BY <1>4 DEF TopUpRequest, Accept
  <2>2. \/ UNCHANGED frame
        \/ \E a \in Alias : frame' = [frame EXCEPT ![c] = Asking(a, 0)]
        \/ \E a \in Alias, f \in 0..MaxFuel :
              frame' = [frame EXCEPT ![c] = NewFrame(a, nextId, f, 0)]
    BY <1>4 DEF TopUpRequest
  <2>3. QED
    BY <1>2, <2>1, <2>2
<1>5. ASSUME NEW t \in Task, PeersAnswer(t) PROVE CallsInv'
  <2>1. /\ frame[t].stage \notin {"idle", "send", "await"} /\ Conclude(t, Answer(0, 0))
        /\ UNCHANGED <<outbox, channel>> /\ 0 <= frame[t].limit
    BY <1>a, <1>5 DEF PeersAnswer, Frame
  <2>2. QED
    BY <2>1, ConcludeKeepsCalls
<1>6. ASSUME NEW c \in Client, CallRequest(c) PROVE CallsInv'
  <2>1. PICK a \in Alias, f \in 0..MaxFuel : Send(c, "call", a, f, 0)
    BY <1>6 DEF CallRequest
  <2>2. /\ frame[c].stage = "idle" /\ frame' = [frame EXCEPT ![c].stage = "send"]
        /\ UNCHANGED <<channel, serving, reply>> /\ c \in Task /\ c # Worker
    BY <1>a, <1>6 DEF CallRequest, Accept
  <2>3. Others(c) /\ frame'[c] = [frame[c] EXCEPT !.stage = "send"]
    BY <2>2, ReplaceFrame DEF TypeOK
  <2>4. /\ frame'[c].stage = "send" /\ frame'[c].tet = NoTet /\ frame'[c].limit = frame[c].limit
        /\ Books(frame'[c], FALSE)
    BY <1>a, <2>2, <2>3 DEF Books, Frame
  <2>5. QED
    BY <2>1, <2>2, <2>3, <2>4, SendKeepsCalls
<1>7. ASSUME NEW t \in Task, Boot(t) PROVE CallsInv'
  <2>1. frame[t].stage = "boot" /\ UNCHANGED <<outbox, channel>>
    BY <1>7 DEF Boot
  <2>2. CASE Conclude(t, Answer(0, 0))
    <3>1. 0 <= frame[t].limit
      BY <1>a DEF Frame
    <3>2. QED
      BY <2>1, <2>2, <3>1, ConcludeKeepsCalls
  <2>3. CASE /\ frame' = [frame EXCEPT ![t].stage = "run", ![t].tet = nextId,
                                       ![t].fuel = frame[t].limit]
             /\ UNCHANGED <<reply, serving>>
    <3>1. /\ Others(t)
          /\ frame'[t] = [frame[t] EXCEPT !.stage = "run", !.tet = nextId, !.fuel = frame[t].limit]
      BY <2>3, ReplaceFrame DEF TypeOK
    <3>2. /\ frame'[t].stage = "run" /\ frame'[t].limit = frame[t].limit
          /\ Books(frame'[t], t = Worker)
      BY <1>a, <2>1, <3>1 DEF Books, Frame
    <3>3. QED
      BY <2>1, <2>3, <3>1, <3>2, LocalStep
  <2>4. QED
    BY <1>7, <2>2, <2>3 DEF Boot
<1>8. ASSUME NEW t \in Task, Compute(t) PROVE CallsInv'
  <2>1. /\ frame[t].stage = "run" /\ 1 <= frame[t].fuel /\ frame[t].tet # NoTet
        /\ UNCHANGED <<outbox, channel, serving, reply>>
    BY <1>a, <1>8 DEF Compute, Frame, HasTet
  <2>2. Others(t) /\ frame'[t] = [frame[t] EXCEPT !.fuel = frame[t].fuel - 1,
                                                   !.work = frame[t].work + 1]
    BY <1>8 DEF Compute, Others, TypeOK
  <2>3. /\ frame'[t].fuel = frame[t].fuel - 1 /\ frame'[t].work = frame[t].work + 1
        /\ frame'[t].stage = "run" /\ frame'[t].limit = frame[t].limit
        /\ frame'[t].tet = frame[t].tet /\ frame'[t].owed = frame[t].owed
    BY <1>a, <2>1, <2>2 DEF Frame
  <2>4. Books(frame'[t], t = Worker)
    <3>1. frame[t] \in Frame /\ Books(frame[t], t = Worker) /\ 1 \in Nat
      BY <1>a
    <3>2. QED
      BY <2>1, <2>3, <3>1, RunningBooks
  <2>5. QED
    BY <2>1, <2>2, <2>3, <2>4, LocalStep
<1>9. ASSUME NEW t \in Task, NEW k, NEW a, NEW n \in Nat, NEW f \in Nat, NEW d,
             frame[t].stage = "run", n <= frame[t].fuel, Send(t, k, a, f, d),
             k = "call" => n = 1 /\ f <= frame[t].fuel - 1,
             frame' = [frame EXCEPT ![t].stage = "send", ![t].fuel = frame[t].fuel - n,
                                    ![t].work = frame[t].work + n],
             UNCHANGED <<channel, serving, reply>>
      PROVE  CallsInv'
  <2>1. /\ Others(t)
        /\ frame'[t] = [frame[t] EXCEPT !.stage = "send", !.fuel = frame[t].fuel - n,
                                        !.work = frame[t].work + n]
    BY <1>9, ReplaceFrame DEF TypeOK
  <2>2. frame[t].tet # NoTet
    BY <1>a, <1>9 DEF HasTet
  <2>3. /\ frame'[t].fuel = frame[t].fuel - n /\ frame'[t].work = frame[t].work + n
        /\ frame'[t].stage = "send" /\ frame'[t].limit = frame[t].limit
        /\ frame'[t].tet = frame[t].tet /\ frame'[t].owed = frame[t].owed
    BY <1>a, <2>1 DEF Frame
  <2>4. Books(frame'[t], t = Worker)
    <3>1. /\ frame[t] \in Frame /\ Books(frame[t], t = Worker)
          /\ frame[t].stage = "run" /\ n <= frame[t].fuel
      BY <1>a, <1>9
    <3>2. QED
      BY <2>2, <2>3, <3>1, RunningBooks
  <2>5. k = "call" => f <= frame'[t].fuel
    BY <1>9, <2>3
  <2>6. QED
    BY <1>9, <2>1, <2>3, <2>4, <2>5, SendKeepsCalls
<1>10. ASSUME NEW t \in Task, Invoke(t) PROVE CallsInv'
  <2>1. PICK a \in Alias, f \in 0..(frame[t].fuel - 1) : Send(t, "call", a, f, frame[t].depth)
    BY <1>10 DEF Invoke
  <2>2. /\ frame[t].stage = "run" /\ 1 <= frame[t].fuel /\ f \in Nat
        /\ f <= frame[t].fuel - 1 /\ frame[t].fuel \in Nat
        /\ frame' = [frame EXCEPT ![t].stage = "send", ![t].fuel = frame[t].fuel - 1,
                                  ![t].work = frame[t].work + 1]
        /\ UNCHANGED <<channel, serving, reply>>
    BY <1>a, <1>10 DEF Invoke, Frame
  <2>3. QED
    BY <1>9, <2>1, <2>2
<1>11. ASSUME NEW t \in Task, NEW k, k # "call", NEW f \in 0..MaxFuel, Transfer(t, k, f)
      PROVE  CallsInv'
  <2>1. frame[t].fuel \in Nat /\ frame[t].work \in Nat /\ f \in Nat
    BY <1>a DEF Frame
  <2>2. PICK n \in Nat : n = f + 1
    BY <2>1
  <2>3. /\ frame[t].stage = "run" /\ n <= frame[t].fuel
        /\ Send(t, k, frame[t].alias, f, 0)
        /\ frame[t].fuel - 1 - f = frame[t].fuel - n
        /\ frame[t].work + 1 + f = frame[t].work + n
        /\ UNCHANGED <<channel, serving, reply>>
    BY <1>11, <2>1, <2>2 DEF Transfer
  <2>4. frame' = [frame EXCEPT ![t].stage = "send", ![t].fuel = frame[t].fuel - n,
                               ![t].work = frame[t].work + n]
    BY <1>11, <2>3 DEF Transfer
  <2>5. QED
    BY <1>9, <1>11, <2>1, <2>3, <2>4
<1>12. ASSUME NEW t \in Task, Hibernate(t) PROVE CallsInv'
  <2> DEFINE u == frame[t].limit - frame[t].fuel
             w == frame[t].work
  <2>1. frame[t].stage = "pruned" /\ UNCHANGED <<outbox, channel>> /\ Conclude(t, Answer(u, w))
    BY <1>12 DEF Hibernate
  <2>2. u \in Nat /\ w \in Nat /\ (t = Worker => u = w /\ w <= frame[t].limit)
    <3>1. frame[t].tet # NoTet /\ frame[t].fuel <= frame[t].limit
      BY <2>1 DEF Shape, HasTet
    <3>2. frame[t].fuel \in Nat /\ frame[t].limit \in Nat /\ frame[t].work \in Nat
      BY <1>a DEF Frame
    <3>3. QED
      BY <1>a, <2>1, <3>1, <3>2 DEF Books
  <2> HIDE DEF u, w
  <2>3. QED
    BY <2>1, <2>2, ConcludeKeepsCalls
<1>13. ASSUME NEW t \in Task, NEW st \in HasTet \ {"run"}, frame[t].stage \in HasTet,
              frame' = [frame EXCEPT ![t].stage = st], UNCHANGED <<outbox, channel, serving, reply>>
       PROVE  CallsInv'
  BY <1>13, StageKeepsCalls
<1>14. ASSUME NEW t \in Task, Return(t) PROVE CallsInv'
  BY <1>13, <1>14 DEF Return, HasTet
<1>15. ASSUME NEW t \in Task, RegisterActive(t) PROVE CallsInv'
  BY <1>13, <1>15 DEF RegisterActive, HasTet
<1>16. ASSUME NEW t \in Task, StoreMemory(t) PROVE CallsInv'
  BY <1>13, <1>16 DEF StoreMemory, HasTet
<1>17. ASSUME NEW t \in Task, StoreSnapshot(t) PROVE CallsInv'
  BY <1>13, <1>17 DEF StoreSnapshot, HasTet
<1>18. ASSUME NEW t \in Task, RemoveParent(t) PROVE CallsInv'
  BY <1>13, <1>18 DEF RemoveParent, HasTet
<1>19. ASSUME NEW t \in Task, Pay(t) \/ Notify(t) \/ Fork(t) PROVE CallsInv'
  <2>1. 0 \in 0..MaxFuel
    BY MeshAssumption
  <2>2. QED
    BY <1>11, <1>19, <2>1 DEF Pay, Notify, Fork
<1>20. CASE UNCHANGED vars
  BY <1>20 DEF vars, CallsInv, Asked, Queued, Served, Answered, BooksKept, Waits, Covers, Heard
<1>21. QED
  BY <1>1, <1>6, <1>7, <1>8, <1>10, <1>12, <1>14, <1>15, <1>16, <1>17, <1>18, <1>19, <1>20,
     <1>3, <1>4, <1>5,
     EnqueueKeepsCalls, TakeReplyKeepsCalls, DequeueKeepsCalls, DisconnectKeepsCalls
     DEF Next, Request, Step, Guest, Pipeline

(* A guest and all the agents it called never use more fuel than the request *)
(* allocated and are never billed for more than they used, however calls,    *)
(* answers, refusals and traps interleave; the worker bills its callers      *)
(* exactly what was used.                                                    *)
THEOREM BudgetCorrect == Spec => []WithinBudget
<1>1. IInv /\ CallsInv /\ [Next]_vars => CallsInv'
  <2>1. IInv /\ [Next]_vars => TypeOK' /\ TypeOK /\ Shape
    BY InvNext DEF IInv
  <2>2. QED
    BY <2>1, CallsNext
<1>2. IInv /\ CallsInv => WithinBudget
  <2> SUFFICES ASSUME IInv, CallsInv, NEW t \in Task, frame[t].tet # NoTet
               PROVE  /\ frame[t].work <= frame[t].limit
                      /\ frame[t].limit - frame[t].fuel <= frame[t].work
    BY DEF WithinBudget
  <2>1. frame[t] \in Frame /\ Books(frame[t], t = Worker)
    BY DEF IInv, TypeOK, CallsInv, BooksKept
  <2>2. QED
    BY <2>1 DEF Books, Frame
<1>3. QED
  BY CallsInit, <1>1, <1>2, InvCorrect, PTL DEF Spec

-----------------------------------------------------------------------------
(***************************************************************************)
(* The agent store.  Replaced: what a wake-up relies on, from the moment   *)
(* the worker reads a snapshot id to the moment the new one is registered. *)
(***************************************************************************)
Fresh == \A v \in memories : v < nextId

\* A memory is stored near the end of its execution.
Saved == \A t \in Task : frame[t].tet \in memories => frame[t].stage \in {"stored", "snapped", "pruned"}

\* The id of a running execution names no version an alias can be woken from, and no
\* snapshot another execution started from.
Over == \A a \in Alias : \A e \in registry[a] :
            e.snap # NoTet => \A t \in Task : frame[t].tet # e.snap

Apart == \A t \in Task : frame[t].parent # NoTet => \A u \in Task : frame[u].tet # frame[t].parent

\* The others start from copies; a snapshot under the id of a running execution is its own.
Private == \A t \in Task \ {Worker} : frame[t].parent # NoTet => frame[t].parent \in Copies

Own == \A t \in Task : frame[t].tet \in DOMAIN snapshots => snapshots[frame[t].tet] = frame[t].tet

\* What the worker woke is registered until the worker itself removes it.
Woken == frame[Worker].stage \notin {"idle", "asking"} =>
            /\ frame[Worker].alias \in Alias /\ frame[Worker].parent # NoTet
            /\ frame[Worker].stage # "pruned" =>
                   \E e \in registry[frame[Worker].alias] : e.snap = frame[Worker].parent
            /\ frame[Worker].stage = "pruned" =>
                   \A e \in registry[frame[Worker].alias] : e.snap # frame[Worker].parent

Replaced == Fresh /\ Saved /\ Over /\ Apart /\ Private /\ Own /\ Woken

Awake(a) == {e.snap : e \in {x \in registry[a] : x.snap # NoTet}}

Standing(a) == IF frame[Worker].stage = "pruned" /\ frame[Worker].alias = a
               THEN {frame[Worker].parent} ELSE {}

LEMMA SameLive ==
    ASSUME \A a \in Alias : Awake(a)' = Awake(a) /\ Standing(a)' = Standing(a)
    PROVE  Live' = Live
BY DEF Live, Awake, Standing

\* Ids and the numbers below nextId.
LEMMA StoreFacts ==
    ASSUME IInv, Replaced
    PROVE  /\ Worker \in Task /\ Client \subseteq Task \ {Worker}
           /\ nextId \in Nat /\ nextId # NoTet /\ nextId \notin memories /\ NoTet \notin memories
           /\ nextId \notin DOMAIN snapshots /\ NoTet \notin DOMAIN snapshots
           /\ \A t \in Task : frame[t].tet # nextId /\ frame[t].parent # nextId
           /\ \A a \in Alias : \A e \in registry[a] :
                  e.snap # nextId /\ (e.snap # NoTet => e.snap = e.tet /\ e.snap \notin Copies)
           /\ \A s \in Copies : \A t \in Task : frame[t].tet # s
<1>1. TypeOK /\ Shape /\ Ids /\ Stored /\ Fresh
  BY DEF IInv, Replaced
<1>2. Worker \in Task /\ Client \subseteq Task \ {Worker}
  BY MeshAssumption DEF Task
<1>3. nextId \in Nat /\ nextId # NoTet /\ ~(nextId < nextId)
  BY <1>1 DEF TypeOK, Id
<1>4. /\ nextId \notin memories /\ NoTet \notin memories
      /\ nextId \notin DOMAIN snapshots /\ NoTet \notin DOMAIN snapshots
  BY <1>1, <1>3 DEF TypeOK, Id, Fresh, Ids
<1>5. \A t \in Task : frame[t].tet # nextId /\ frame[t].parent # nextId
  BY <1>1, <1>3, <1>4 DEF Ids, Shape
<1>6. \A a \in Alias : \A e \in registry[a] :
          e.snap # nextId /\ (e.snap # NoTet => e.snap = e.tet /\ e.snap \notin Copies)
  BY <1>1, <1>3, <1>4 DEF Stored, Kept, Copies
<1>7. \A s \in Copies : \A t \in Task : frame[t].tet # s
  BY DEF Replaced, Own, Copies
<1>8. QED
  BY <1>2, <1>3, <1>4, <1>5, <1>6, <1>7

\* Copies and own snapshots change only with the store.
LEMMA PrivateKept ==
    ASSUME IInv, Replaced, UNCHANGED snapshots,
           \A u \in Task : frame'[u].tet \in {frame[u].tet, NoTet},
           \A u \in Task \ {Worker} : frame'[u].parent \in {frame[u].parent, NoTet} \cup Copies
    PROVE  Private' /\ Own'
<1>1. Private /\ Own /\ NoTet \notin DOMAIN snapshots
  BY StoreFacts DEF Replaced
<1>2. Copies' = Copies
  BY DEF Copies
<1>3. Private'
  BY <1>1, <1>2 DEF Private
<1>4. Own'
  BY <1>1 DEF Own
<1>5. QED
  BY <1>3, <1>4

LEMMA QuietKeepsStore ==
    ASSUME IInv, Replaced, NEW t \in Task, Quiet(t)
    PROVE  Replaced' /\ Live' = Live /\ Used' = Used
<1>1. /\ Fresh /\ Saved /\ Over /\ Apart /\ Private /\ Own /\ Woken
      /\ \A u \in Task : u # t => frame'[u] = frame[u]
      /\ UNCHANGED <<registry, memories, nextId>>
      /\ frame[t].stage \notin InStoring /\ frame'[t].stage \notin InStoring
      /\ frame'[t].tet \in {frame[t].tet, NoTet} /\ Follows(t)
  BY DEF Replaced, Quiet, Others
<1>2. NoTet \notin memories /\ frame[t].tet \notin memories /\ frame'[t].tet \notin memories
  BY <1>1, StoreFacts DEF Saved, InStoring
<1>3. Fresh' /\ Saved'
  BY <1>1, <1>2 DEF Fresh, Saved
<1>4. Over'
  BY <1>1 DEF Over
<1>5. Apart'
  <2>1. \A u, v \in Task : frame'[v].tet # NoTet => frame'[v].tet = frame[v].tet
    BY <1>1
  <2>2. ASSUME NEW u \in Task, frame'[u].parent # NoTet, NEW v \in Task PROVE frame[v].tet # frame'[u].parent
    BY <1>1, <2>2, StoreFacts DEF Apart, Over, Follows
  <2>3. QED
    BY <2>1, <2>2 DEF Apart
<1>6. Private' /\ Own'
  <2>1. UNCHANGED snapshots
    BY DEF Quiet
  <2>2. \A u \in Task : frame'[u].tet \in {frame[u].tet, NoTet}
    BY <1>1
  <2>3. \A u \in Task \ {Worker} : frame'[u].parent \in {frame[u].parent, NoTet} \cup Copies
    BY <1>1 DEF Follows
  <2>4. QED
    BY <2>1, <2>2, <2>3, PrivateKept
<1>7. Woken'
  <2>1. CASE t # Worker
    BY <1>1, <2>1, StoreFacts DEF Woken
  <2>2. CASE t = Worker
    <3>1. frame[t].stage # "pruned" /\ frame'[t].stage # "pruned"
      BY <1>1 DEF InStoring
    <3>2. QED
      BY <1>1, <2>2, <3>1, StoreFacts DEF Woken, Follows
  <2>3. QED
    BY <2>1, <2>2
<1>8. \A a \in Alias : Awake(a)' = Awake(a) /\ Standing(a)' = Standing(a)
  BY <1>1, StoreFacts DEF Awake, Standing, InStoring
<1>9. Used' = Used
  BY <1>1, <1>2 DEF Used
<1>10. QED
  BY <1>3, <1>4, <1>5, <1>6, <1>7, <1>8, <1>9, SameLive DEF Replaced

LEMMA BootKeepsStore ==
    ASSUME IInv, Replaced, NEW t \in Task, Booted(t)
    PROVE  Replaced' /\ Live' = Live /\ Used' = Used
<1>1. /\ Fresh /\ Saved /\ Over /\ Apart /\ Private /\ Own /\ Woken
      /\ \A u \in Task : u # t => frame'[u] = frame[u]
      /\ UNCHANGED <<registry, memories, snapshots>> /\ nextId' = nextId + 1
      /\ frame[t].stage = "boot" /\ frame'[t].stage = "run" /\ frame'[t].tet = nextId
      /\ frame'[t].parent = frame[t].parent /\ frame'[t].alias = frame[t].alias
  BY DEF Replaced, Booted, Others
<1>2. frame[t].tet \notin memories /\ frame'[t].tet \notin memories
  BY <1>1, StoreFacts DEF Saved
<1>3. Fresh'
  <2>1. \A v \in memories : v \in Nat
    BY DEF IInv, TypeOK, Id
  <2>2. QED
    BY <1>1, <2>1, StoreFacts DEF Fresh
<1>4. Saved' /\ Over' /\ Apart' /\ Woken'
  BY <1>1, <1>2, StoreFacts DEF Saved, Over, Apart, Woken
<1>5. Private' /\ Own'
  BY <1>1, StoreFacts DEF Private, Own, Copies
<1>6. \A a \in Alias : Awake(a)' = Awake(a) /\ Standing(a)' = Standing(a)
  BY <1>1, StoreFacts DEF Awake, Standing
<1>7. Used' = Used
  BY <1>1, <1>2 DEF Used
<1>8. QED
  BY <1>3, <1>4, <1>6, <1>7, <1>5, SameLive DEF Replaced

LEMMA CopyKeepsStore ==
    ASSUME IInv, Replaced, NEW c \in Client, Copied(c)
    PROVE  Replaced' /\ Live' = Live /\ Used' = Used
<1>1. PICK v \in memories : Copy(v)
  BY DEF Copied
<1>2. /\ Fresh /\ Saved /\ Over /\ Apart /\ Private /\ Own /\ Woken
      /\ UNCHANGED <<registry, memories>> /\ nextId' = nextId + 1
      /\ c \in Task /\ c # Worker /\ v # nextId
      /\ \A u \in Task : \/ frame'[u] = frame[u]
                         \/ /\ u = c /\ frame[u].stage = "idle" /\ frame'[u].stage = "boot"
                            /\ frame'[u].tet = NoTet /\ frame'[u].parent = nextId
  BY <1>1, StoreFacts DEF Replaced, Copied, Copy, Started, Others
<1>3. /\ \A u \in Task : frame[u].tet = frame'[u].tet
                         \/ (frame[u].tet \notin memories /\ frame'[u].tet = NoTet)
      /\ frame'[Worker] = frame[Worker]
  BY <1>2, StoreFacts DEF Saved
<1>4. Fresh'
  <2>1. \A w \in memories : w \in Nat
    BY DEF IInv, TypeOK, Id
  <2>2. QED
    BY <1>2, <2>1, StoreFacts DEF Fresh
<1>5. Saved' /\ Over' /\ Apart' /\ Woken'
  <2>1. Saved'
    BY <1>2, <1>3, StoreFacts DEF Saved
  <2>2. Over'
    BY <1>2, <1>3 DEF Over
  <2>3. Apart'
    BY <1>2, <1>3, StoreFacts DEF Apart
  <2>4. Woken'
    BY <1>2, <1>3 DEF Woken
  <2>5. QED
    BY <2>1, <2>2, <2>3, <2>4
<1>6. Private' /\ Own'
  <2>1. /\ DOMAIN snapshots' = DOMAIN snapshots \cup {nextId} /\ snapshots'[nextId] = v
        /\ \A s \in DOMAIN snapshots : s # nextId /\ snapshots'[s] = snapshots[s]
    BY <1>1, StoreFacts DEF Copy
  <2>2. Private'
    BY <1>2, <2>1, StoreFacts DEF Private, Copies
  <2>3. Own'
    <3>1. ASSUME NEW u \in Task, frame'[u].tet \in DOMAIN snapshots'
          PROVE  frame'[u].tet = frame[u].tet /\ frame[u].tet \in DOMAIN snapshots
      BY <1>3, <2>1, <3>1, StoreFacts
    <3>2. QED
      BY <1>2, <2>1, <3>1 DEF Own
  <2>4. QED
    BY <2>2, <2>3
<1>7. \A a \in Alias : Awake(a)' = Awake(a) /\ Standing(a)' = Standing(a)
  BY <1>2, <1>3 DEF Awake, Standing
<1>8. Used' = Used
  BY <1>2, <1>3, StoreFacts DEF Used
<1>9. QED
  BY <1>4, <1>5, <1>6, <1>7, <1>8, SameLive DEF Replaced

\* An execution dropped before its memory is stored leaves no version behind, and one
\* dropped later a version that nobody can wake.
LEMMA CutKeepsStore ==
    ASSUME IInv, Replaced, NEW c \in Client, Cut(c)
    PROVE  Replaced' /\ [Store!Next]_<<Live, Used>>
<1>1. /\ Fresh /\ Saved /\ Over /\ Apart /\ Private /\ Own /\ Woken
      /\ UNCHANGED <<registry, memories, snapshots, nextId>>
      /\ c \in Task /\ c # Worker
      /\ \A u \in Task : u # c => frame'[u] = frame[u]
      /\ frame'[c].stage = "idle" /\ frame'[c].tet = NoTet /\ frame'[c].parent = NoTet
  BY StoreFacts, ConstantTypes DEF Replaced, Cut, Ended, Others
<1>2. Fresh' /\ Saved' /\ Over' /\ Apart'
  BY <1>1, StoreFacts DEF Fresh, Saved, Over, Apart
<1>3. Private' /\ Own' /\ Woken'
  <2>1. Private' /\ Own'
    BY <1>1, PrivateKept
  <2>2. Woken'
    BY <1>1, StoreFacts DEF Woken
  <2>3. QED
    BY <2>1, <2>2
<1>4. Live' = Live
  <2>1. \A a \in Alias : Awake(a)' = Awake(a) /\ Standing(a)' = Standing(a)
    BY <1>1, StoreFacts DEF Awake, Standing
  <2>2. QED
    BY <2>1, SameLive
<1>5. \A u \in Task : u # c => frame[u].tet # frame[c].tet \/ frame[c].tet = NoTet
  BY <1>1 DEF IInv, Ids
<1>6. Used' = Used \cup ({frame[c].tet} \cap memories) /\ frame[c].tet \notin Used
  <2>1. Used' = {v \in memories : \A u \in Task : frame'[u].tet # v}
    BY <1>1 DEF Used
  <2>2. \A v \in memories : (\A u \in Task : frame'[u].tet # v)
            <=> (v = frame[c].tet \/ \A u \in Task : frame[u].tet # v)
    BY <1>1, <1>5, StoreFacts
  <2>3. QED
    BY <1>1, <2>1, <2>2 DEF Used
<1>7. CASE frame[c].tet \in memories
  BY <1>2, <1>3, <1>4, <1>6, <1>7 DEF Replaced, Store!Next, Store!Discard
<1>8. CASE frame[c].tet \notin memories
  BY <1>2, <1>3, <1>4, <1>6, <1>8 DEF Replaced
<1>9. QED
  BY <1>7, <1>8

\* The stages of an execution that is being stored.
LEMMA StageFacts ==
    ASSUME IInv, NEW t \in Task, NEW st, frame' = [frame EXCEPT ![t].stage = st]
    PROVE  /\ \A u \in Task : /\ frame'[u].tet = frame[u].tet /\ frame'[u].parent = frame[u].parent
                              /\ u # t => frame'[u] = frame[u]
           /\ frame'[t].stage = st /\ frame'[t].alias = frame[t].alias
           /\ frame[t].stage \in HasTet => frame[t].tet # NoTet
BY MovedStage DEF Moved, Others, IInv, Shape

LEMMA RegisterKeepsStore ==
    ASSUME IInv, Replaced, NEW t \in Task, RegisterActive(t)
    PROVE  Replaced' /\ Live' = Live /\ Used' = Used
<1>1. /\ Fresh /\ Saved /\ Over /\ Apart /\ Private /\ Own /\ Woken
      /\ UNCHANGED <<memories, snapshots, nextId>> /\ frame[t].stage = "ran"
      /\ frame' = [frame EXCEPT ![t].stage = "registered"]
  BY DEF Replaced, RegisterActive
<1>2. /\ \A u \in Task : /\ frame'[u].tet = frame[u].tet /\ frame'[u].parent = frame[u].parent
                         /\ u # t => frame'[u] = frame[u]
      /\ frame'[t].stage = "registered" /\ frame'[t].alias = frame[t].alias
  BY <1>1, StageFacts
\* The hibernating entries are the same.
<1>3. \A a \in Alias : /\ \A e \in registry'[a] : e \in registry[a] \/ e.snap = NoTet
                       /\ \A e \in registry[a] : e.snap # NoTet => e \in registry'[a]
  <2>1. \A a \in Alias : \A e \in registry[a] : e.snap # NoTet => e.tet # frame[t].tet
    BY <1>1, StoreFacts DEF Over
  <2>2. QED
    BY <2>1 DEF RegisterActive, WithEntry
<1>4. Fresh' /\ Saved'
  BY <1>1, <1>2 DEF Fresh, Saved
<1>5. Over' /\ Apart' /\ Private' /\ Own'
  <2>1. Over'
    BY <1>1, <1>2, <1>3 DEF Over
  <2>2. Apart'
    BY <1>1, <1>2 DEF Apart
  <2>3. Private' /\ Own'
    BY <1>1, <1>2, PrivateKept
  <2>4. QED
    BY <2>1, <2>2, <2>3
<1>6. Woken'
  BY <1>1, <1>2, <1>3, StoreFacts DEF Woken
<1>7. \A a \in Alias : Awake(a)' = Awake(a) /\ Standing(a)' = Standing(a)
  <2>1. \A a \in Alias : Awake(a)' = Awake(a)
    BY <1>3 DEF Awake
  <2>2. \A a \in Alias : Standing(a)' = Standing(a)
    <3>1. CASE t = Worker
      BY <1>1, <1>2, <3>1 DEF Standing
    <3>2. CASE t # Worker
      <4>1. frame'[Worker] = frame[Worker]
        BY <1>2, <3>2, StoreFacts
      <4>2. QED
        BY <4>1 DEF Standing
    <3>3. QED
      BY <3>1, <3>2
  <2>3. QED
    BY <2>1, <2>2
<1>8. Used' = Used
  BY <1>1, <1>2 DEF Used
<1>9. QED
  BY <1>4, <1>5, <1>6, <1>7, <1>8, SameLive DEF Replaced

LEMMA SaveKeepsStore ==
    ASSUME IInv, Replaced, NEW t \in Task, StoreMemory(t) \/ StoreSnapshot(t)
    PROVE  Replaced' /\ Live' = Live /\ Used' = Used
<1>1. PICK st \in {"stored", "snapped"} :
          /\ frame' = [frame EXCEPT ![t].stage = st] /\ UNCHANGED <<registry, nextId>>
          /\ frame[t].stage \in {"registered", "stored"}
          /\ memories' \subseteq memories \cup {frame[t].tet} /\ memories \subseteq memories'
  BY DEF StoreMemory, StoreSnapshot
<1>2. /\ Fresh /\ Saved /\ Over /\ Apart /\ Private /\ Own /\ Woken
      /\ \A u \in Task : /\ frame'[u].tet = frame[u].tet /\ frame'[u].parent = frame[u].parent
                         /\ u # t => frame'[u] = frame[u]
      /\ frame'[t].stage = st /\ frame'[t].alias = frame[t].alias /\ frame[t].tet # NoTet
  BY <1>1, StageFacts DEF Replaced, HasTet
<1>3. /\ frame[t].tet < nextId
      /\ \A u \in Task : u # t => frame[u].tet # frame[t].tet
  BY <1>2 DEF IInv, Ids
<1>4. Fresh' /\ Saved'
  BY <1>1, <1>2, <1>3 DEF Fresh, Saved
<1>5. Over' /\ Apart' /\ Woken'
  BY <1>1, <1>2, StoreFacts DEF Over, Apart, Woken
\* A snapshot stored meanwhile is the execution's own.
<1>6. Private' /\ Own'
  <2>1. /\ \A s \in DOMAIN snapshots : s # frame[t].tet => /\ s \in DOMAIN snapshots'
                                                         /\ snapshots'[s] = snapshots[s]
        /\ \A s \in DOMAIN snapshots' : s \in DOMAIN snapshots \/ s = frame[t].tet
        /\ frame[t].tet \in DOMAIN snapshots' => snapshots'[frame[t].tet] = frame[t].tet
    BY <1>2 DEF StoreMemory, StoreSnapshot, Own
  <2>2. Copies \subseteq Copies'
    BY <2>1, StoreFacts DEF Copies
  <2>3. Private'
    BY <1>2, <2>2 DEF Private
  <2>4. Own'
    BY <1>2, <1>3, <2>1 DEF Own
  <2>5. QED
    BY <2>3, <2>4
<1>7. \A a \in Alias : Awake(a)' = Awake(a) /\ Standing(a)' = Standing(a)
  <2>1. \A a \in Alias : Awake(a)' = Awake(a)
    BY <1>1 DEF Awake
  <2>2. frame[t].stage # "pruned" /\ frame'[t].stage # "pruned"
    BY <1>1, <1>2
  <2>3. \A a \in Alias : Standing(a)' = Standing(a)
    BY <1>2, <2>2, StoreFacts DEF Standing
  <2>4. QED
    BY <2>1, <2>3
<1>8. Used' = Used
  BY <1>1, <1>2 DEF Used
<1>9. QED
  BY <1>4, <1>5, <1>7, <1>8, <1>6, SameLive DEF Replaced

LEMMA RemoveKeepsStore ==
    ASSUME IInv, Replaced, NEW t \in Task, RemoveParent(t)
    PROVE  Replaced' /\ Live' = Live /\ Used' = Used
<1>1. /\ Fresh /\ Saved /\ Over /\ Apart /\ Private /\ Own /\ Woken
      /\ UNCHANGED <<memories, snapshots, nextId>> /\ frame[t].stage = "snapped"
      /\ frame' = [frame EXCEPT ![t].stage = "pruned"]
  BY DEF Replaced, RemoveParent
<1>2. /\ \A u \in Task : /\ frame'[u].tet = frame[u].tet /\ frame'[u].parent = frame[u].parent
                         /\ u # t => frame'[u] = frame[u]
      /\ frame'[t].stage = "pruned" /\ frame'[t].alias = frame[t].alias
  BY <1>1, StageFacts
<1>3. /\ \A a \in Alias : registry'[a] \subseteq registry[a]
      /\ \A a \in Alias : \A e \in registry[a] : e \notin registry'[a] =>
             a = frame[t].alias /\ e.snap = frame[t].parent /\ frame[t].parent # NoTet
      /\ frame[t].parent # NoTet /\ frame[t].alias \in Alias =>
             \A e \in registry'[frame[t].alias] : e.snap # frame[t].parent
  BY DEF RemoveParent, WithoutSnapshot, IInv, TypeOK
<1>4. Fresh' /\ Saved'
  BY <1>1, <1>2 DEF Fresh, Saved
<1>5. Over' /\ Apart' /\ Private' /\ Own'
  <2>1. Over'
    BY <1>1, <1>2, <1>3 DEF Over
  <2>2. Apart'
    BY <1>1, <1>2 DEF Apart
  <2>3. Private' /\ Own'
    BY <1>1, <1>2, PrivateKept
  <2>4. QED
    BY <2>1, <2>2, <2>3
<1>6. Used' = Used
  BY <1>1, <1>2 DEF Used
<1>7. CASE t # Worker
  <2>1. \A a \in Alias : registry'[a] = registry[a]
    <3>1. frame[t].parent # NoTet => frame[t].parent \in Copies
      BY <1>1, <1>7 DEF Private
    <3>2. \A a \in Alias : \A e \in registry[a] : e \in registry'[a]
      BY <1>3, <3>1, StoreFacts
    <3>3. QED
      BY <1>3, <3>2
  <2>2. Woken'
    BY <1>1, <1>2, <1>7, <2>1, StoreFacts DEF Woken
  <2>3. \A a \in Alias : Awake(a)' = Awake(a) /\ Standing(a)' = Standing(a)
    BY <1>2, <1>7, <2>1, StoreFacts DEF Awake, Standing
  <2>4. QED
    BY <1>4, <1>5, <1>6, <2>2, <2>3, SameLive DEF Replaced
<1>8. CASE t = Worker
  <2> DEFINE al == frame[Worker].alias
             old == frame[Worker].parent
  <2>1. al \in Alias /\ old # NoTet /\ \E e \in registry[al] : e.snap = old
    BY <1>1, <1>8 DEF Woken
  <2>2. Woken'
    BY <1>2, <1>3, <1>8, <2>1 DEF Woken
  <2>3. ASSUME NEW a \in Alias PROVE Awake(a)' \cup Standing(a)' = Awake(a) \cup Standing(a)
    <3>1. Standing(a) = {} /\ Standing(a)' = IF al = a THEN {old} ELSE {}
      BY <1>1, <1>2, <1>8 DEF Standing
    <3>2. Awake(a)' \subseteq Awake(a) /\ Awake(a) \ Awake(a)' \subseteq IF al = a THEN {old} ELSE {}
      BY <1>3, <1>8 DEF Awake
    <3>3. al = a => old \in Awake(a)
      BY <2>1 DEF Awake
    <3>4. QED
      BY <3>1, <3>2, <3>3
  <2>4. Live' = Live
    BY <2>3 DEF Live, Awake, Standing
  <2>5. QED
    BY <1>4, <1>5, <1>6, <2>2, <2>4 DEF Replaced
<1>9. QED
  BY <1>7, <1>8

\* The one step the store sees: the execution's own version is registered.
LEMMA HibernateStores ==
    ASSUME IInv, Replaced, NEW t \in Task, Hibernate(t)
    PROVE  Replaced' /\ Store!Next
<1> DEFINE new == frame[t].tet
           al == frame[t].alias
           old == frame[t].parent
<1>1. /\ Fresh /\ Saved /\ Over /\ Apart /\ Private /\ Own /\ Woken
      /\ UNCHANGED <<memories, snapshots, nextId>> /\ frame[t].stage = "pruned"
      /\ \A u \in Task : u # t => frame'[u] = frame[u]
      /\ frame'[t].stage = "idle" /\ frame'[t].tet = NoTet /\ frame'[t].parent = NoTet
  BY ConcludeEnds, ConstantTypes DEF Replaced, Hibernate, IInv, Ended, Others
<1>2. /\ new \in memories /\ new # NoTet
      /\ \A u \in Task : u # t => frame[u].tet # new
  BY <1>1 DEF IInv, Stored, Shape, HasTet, Ids
<1>3. /\ \A a \in Alias : a # al => registry'[a] = registry[a]
      /\ al \in Alias => registry'[al] = WithEntry(registry[al], [tet |-> new, snap |-> new])
  BY DEF Hibernate
\* No hibernating entry carries the execution's id, so none is replaced.
<1>4. \A a \in Alias : /\ \A e \in registry'[a] : e \in registry[a]
                                                  \/ (a = al /\ e = [tet |-> new, snap |-> new])
                       /\ \A e \in registry[a] : e.snap # NoTet => e \in registry'[a] /\ e.snap # new
                       /\ a = al => [tet |-> new, snap |-> new] \in registry'[a]
  <2>1. \A a \in Alias : \A e \in registry[a] : e.snap # NoTet => e.tet # new /\ e.snap # new
    BY <1>1, StoreFacts DEF Over
  <2>2. ASSUME NEW a \in Alias, a # al PROVE registry'[a] = registry[a]
    BY <1>3, <2>2
  <2>3. ASSUME al \in Alias
        PROVE  registry'[al] = {x \in registry[al] : x.tet # new} \cup {[tet |-> new, snap |-> new]}
    BY <1>3, <2>3 DEF WithEntry
  <2> HIDE DEF new, al
  <2>4. ASSUME NEW a \in Alias, a = al
        PROVE  /\ \A e \in registry'[a] : e \in registry[a] \/ e = [tet |-> new, snap |-> new]
               /\ \A e \in registry[a] : e.snap # NoTet => e \in registry'[a]
               /\ [tet |-> new, snap |-> new] \in registry'[a]
    <3>1. registry'[a] = {x \in registry[a] : x.tet # new} \cup {[tet |-> new, snap |-> new]}
      BY <2>3, <2>4
    <3>2. \A e \in registry[a] : e.snap # NoTet => e.tet # new
      BY <2>1
    <3>3. QED
      BY <3>1, <3>2
  <2>5. ASSUME NEW a \in Alias
        PROVE  /\ \A e \in registry'[a] : e \in registry[a]
                                          \/ (a = al /\ e = [tet |-> new, snap |-> new])
               /\ \A e \in registry[a] : e.snap # NoTet => e \in registry'[a] /\ e.snap # new
               /\ a = al => [tet |-> new, snap |-> new] \in registry'[a]
    <3>1. CASE a = al
      BY <2>1, <2>4, <3>1
    <3>2. CASE a # al
      BY <2>1, <2>2, <3>2
    <3>3. QED
      BY <3>1, <3>2
  <2>6. QED
    BY <2>5
<1> HIDE DEF new, al, old
<1>5. Fresh' /\ Saved'
  BY <1>1, StoreFacts DEF Fresh, Saved
<1>6. Over' /\ Apart' /\ Private' /\ Own'
  <2>1. Over'
    BY <1>1, <1>2, <1>4 DEF Over
  <2>2. Apart'
    BY <1>1 DEF Apart
  <2>3. Private' /\ Own'
    BY <1>1, PrivateKept
  <2>4. QED
    BY <2>1, <2>2, <2>3
<1>7. Woken'
  <2>1. CASE t = Worker
    BY <1>1, <2>1 DEF Woken
  <2>2. CASE t # Worker
    <3>1. frame'[Worker] = frame[Worker]
      BY <1>1, <2>2, StoreFacts
    <3>2. frame[Worker].parent # NoTet => frame[Worker].parent # new
      BY <1>1, StoreFacts DEF Apart, new
    <3>3. QED
      BY <1>1, <1>2, <1>4, <3>1, <3>2 DEF Woken
  <2>3. QED
    BY <2>1, <2>2
<1>8. new \notin Used /\ Used' = Used \cup {new} /\ new \in Used' \ Used
  <2>1. Used' = {v \in memories : \A u \in Task : frame'[u].tet # v}
    BY <1>1 DEF Used
  <2>2. new \notin Used
    BY DEF Used, new
  <2>3. \A v \in memories : (\A u \in Task : frame'[u].tet # v) <=> (v = new \/ \A u \in Task : frame[u].tet # v)
    BY <1>1, <1>2, StoreFacts DEF new
  <2>4. QED
    BY <1>2, <2>1, <2>2, <2>3 DEF Used
<1>9. \A a \in Alias : /\ a # al => Awake(a)' = Awake(a)
                       /\ a = al => Awake(a)' = Awake(a) \cup {new}
  BY <1>2, <1>4 DEF Awake
<1>10. Live = [a \in Alias |-> Awake(a) \cup Standing(a)] /\ Live' = [a \in Alias |-> Awake(a)' \cup Standing(a)']
  BY DEF Live, Awake, Standing
<1>11. CASE t = Worker
  <2>1. al \in Alias /\ old # NoTet /\ \A e \in registry[al] : e.snap # old
    BY <1>1, <1>11 DEF Woken, al, old
  <2>2. old # new
    BY <1>1, <2>1 DEF Apart, old, new
  <2>3. \A a \in Alias : Standing(a)' = {} /\ Standing(a) = IF a = al THEN {old} ELSE {}
    BY <1>1, <1>11 DEF Standing, al, old
  <2>4. old \notin Awake(al)
    BY <2>1 DEF Awake
  <2>5. Live[al] = Awake(al) \cup {old} /\ old \in Live[al]
    BY <1>10, <2>1, <2>3
  <2>6. Live' = [Live EXCEPT ![al] = (@ \ {old}) \cup {new}]
    <3>1. \A a \in Alias : Live'[a] = IF a = al THEN (Live[al] \ {old}) \cup {new} ELSE Live[a]
      BY <1>9, <1>10, <2>1, <2>3, <2>4, <2>5
    <3>2. QED
      BY <1>10, <3>1
  <2>7. Store!Advance(al, old, new)
    BY <1>8, <2>5, <2>6 DEF Store!Advance
  <2>8. QED
    BY <1>5, <1>6, <1>7, <1>8, <2>1, <2>5, <2>7 DEF Replaced, Store!Next
<1>12. CASE t # Worker
  <2>1. \A a \in Alias : Standing(a)' = Standing(a)
    BY <1>1, <1>12, StoreFacts DEF Standing
  <2>2. CASE al \in Alias
    <3>1. \A a \in Alias : Live'[a] = IF a = al THEN Live[al] \cup {new} ELSE Live[a]
      BY <1>9, <1>10, <2>1, <2>2
    <3>2. Live' = [Live EXCEPT ![al] = @ \cup {new}]
      BY <1>10, <3>1
    <3>3. Store!Deploy(al, new)
      BY <1>8, <3>2 DEF Store!Deploy
    <3>4. QED
      BY <1>5, <1>6, <1>7, <1>8, <2>2, <3>3 DEF Replaced, Store!Next
  <2>3. CASE al \notin Alias
    <3>1. Live' = Live
      BY <1>9, <2>1, <2>3, SameLive
    <3>2. Store!Discard(new)
      BY <1>8, <3>1 DEF Store!Discard
    <3>3. QED
      BY <1>5, <1>6, <1>7, <1>8, <3>2 DEF Replaced, Store!Next
  <2>4. QED
    BY <2>2, <2>3
<1>13. QED
  BY <1>11, <1>12

LEMMA StoreStep ==
    ASSUME IInv, Replaced, [Next]_vars PROVE Replaced' /\ [Store!Next]_<<Live, Used>>
<1>1. CASE Next
  <2>1. SomeQuiet \/ Loud
    BY <1>1, InvNext, StepKinds DEF IInv
  <2>2. QED
    BY <2>1, QuietKeepsStore, BootKeepsStore, CopyKeepsStore, CutKeepsStore, RegisterKeepsStore,
       SaveKeepsStore, RemoveKeepsStore, HibernateStores DEF SomeQuiet, Loud
<1>2. CASE UNCHANGED vars
  <2>1. UNCHANGED <<registry, memories, snapshots, frame, nextId>>
    BY <1>2 DEF vars
  <2>2. QED
    BY <2>1 DEF Replaced, Fresh, Saved, Over, Apart, Private, Own, Copies, Woken, Live, Used
<1>3. QED
  BY <1>1, <1>2

LEMMA StoreInit == Init => Replaced /\ Store!Init
<1> SUFFICES ASSUME Init PROVE Replaced /\ Store!Init
  OBVIOUS
<1>1. /\ memories = {} /\ \A a \in Alias : registry[a] = {}
      /\ \A t \in Task : frame[t].stage = "idle" /\ frame[t].parent = NoTet
      /\ Worker \in Task
  BY ConstantTypes DEF Init, Task
<1>2. Replaced
  <2>1. DOMAIN snapshots = {} /\ \A a \in Alias : registry[a] = {}
    BY DEF Init
  <2>2. Fresh /\ Saved /\ Over /\ Apart
    BY <1>1, <2>1 DEF Fresh, Saved, Over, Apart
  <2>3. Private /\ Own
    BY <1>1, <2>1 DEF Private, Own
  <2>4. Woken
    BY <1>1 DEF Woken
  <2>5. QED
    BY <2>2, <2>3, <2>4 DEF Replaced
<1>3. Live = [a \in Alias |-> {}] /\ Used = {}
  BY <1>1 DEF Live, Used
<1>4. QED
  BY <1>2, <1>3 DEF Store!Init

(* The node implements the agent store, whatever is interleaved between the  *)
(* locks of execute(): a wake-up replaces one version of one alias in one    *)
(* step, and no version ever comes back after it was replaced.               *)
THEOREM StoreImplemented == Spec => ImplementsStore
<1>1. IInv /\ Replaced /\ [Next]_vars => Replaced' /\ [Store!Next]_<<Live, Used>>
  BY StoreStep
<1>2. QED
  BY StoreInit, <1>1, InvCorrect, PTL DEF Spec, ImplementsStore, Store!Spec, Store!avars
=============================================================================
