-------------------------- MODULE Teleport_proofs --------------------------
(* Theorems about Teleport for every number of agents, requests and chunks:  *)
(* types; what holds of transfers through the registry, whatever goes wrong; *)
(* and what holds on both paths when nothing disturbs a transfer.            *)
EXTENDS MCTeleport, TLAPS

-----------------------------------------------------------------------------
(***************************************************************************)
(* The inductive invariants: what holds of every teleport, of teleports    *)
(* that use the registry only, and of teleports that nothing disturbs.     *)
(***************************************************************************)
Active(r) == task[r].stage \in {"captured", "push", "sending", "purge"}

\* A request under way, and a command on the wire, is about a memory there was.
Named == \A r \in Request :
    /\ Active(r) \/ wire[r].state = "sent" => MemoryOf(r) \in Memory
    /\ task[r].stage = "idle" => wire[r] = Closed

\* On the registry path the table of migrations is never used.
Noticed == /\ pending = <<>>
           /\ \A r \in Request : /\ wire[r].cmd \in {"none", "notice"}
                                 /\ wire[r].state \in {"sent", "acked"} => wire[r].cmd = "notice"
                                 /\ Active(r) => task[r].path = "registry"

Genuine == \A a \in Agent : \A m \in Arrived(a) : m \in Memory /\ m.of = a

\* Who was told that the notice was handled may deregister the agent.
Settled(a) == \E m \in Arrived(a) : m \in Memory /\ m.of = a
Handed == \A r \in Request, a \in Agent :
    task[r].agent = a /\ (wire[r].state = "acked" \/ task[r].stage = "purge") => Settled(a)

\* The target has the memory that r sent.
Delivered(r) == MemoryOf(r) \in Arrived(task[r].agent)

\* The target has k chunks of what r sends, and of nothing else.
Collected(r, k) ==
    /\ Len(pending) = 1 /\ pending[1].agent = task[r].agent
    /\ Len(pending[1].chunks) = k
    /\ \A i \in 1..k : pending[1].chunks[i] = [seq |-> i - 1, mem |-> MemoryOf(r)]

\* How far r and the target are, while r is sending.
OnTheWay(r) ==
    \/ wire[r] = Sent("handshake", 0) /\ pending = <<>>
    \/ wire[r] = [Sent("handshake", 0) EXCEPT !.state = "acked"] /\ Collected(r, 0)
    \/ \E k \in 0..Chunks - 1 : wire[r] = Sent("payload", k) /\ Collected(r, k)
    \/ \E k \in 0..Chunks - 1 :
          wire[r] = [Sent("payload", k) EXCEPT !.state = "acked"] /\ Collected(r, k + 1)
    \/ wire[r] = Sent("commit", 0) /\ Collected(r, Chunks)
    \/ wire[r] = Sent("notice", 0) /\ pending = <<>> /\ tag[task[r].agent] = task[r].n
    \/ wire[r].cmd \in {"commit", "notice"} /\ wire[r].state = "acked" /\ pending = <<>> /\ Delivered(r)

\* Nothing disturbs: one request at a time, and no execution of its agent.
Alone == \A r, s \in Request : Active(r) /\ Active(s) => r = s

Undisturbed(r) ==
    /\ Active(r) => /\ source[task[r].agent] = task[r].n /\ running[task[r].agent] = None
    /\ task[r].stage = "sending" => OnTheWay(r)
    /\ task[r].stage # "sending" => wire[r] = Closed
    /\ task[r].stage = "purge" => Delivered(r)

Quiet == \A r \in Request : Undisturbed(r)

Still == (\A r \in Request : task[r].stage # "sending") => pending = <<>>

\* An agent has arrived when it is gone from the source or about to go.
Final(r) == \/ task[r].stage = "purge"
            \/ task[r].stage = "sending" /\ wire[r].cmd \in {"commit", "notice"} /\ wire[r].state = "acked"

Moved == \A a \in Agent :
    /\ source[a] \in {None, runs[a]}
    /\ source[a] = None => /\ running[a] = None /\ [of |-> a, n |-> runs[a]] \in Arrived(a)
    /\ Arrived(a) # {} => source[a] = None \/ \E r \in Request : Final(r) /\ task[r].agent = a

(***************************************************************************)
(* Types.                                                                  *)
(***************************************************************************)
Entry == [agent : Agent, chunks : Seq(Chunk)]
States == {"closed", "sent", "acked", "refused"}

LEMMA TaskParts ==
    ASSUME TypeOK, NEW r \in Request
    PROVE  /\ task[r] \in Task /\ task[r].stage \in Stages /\ task[r].path \in {"stream", "registry"}
           /\ task[r].agent \in Agent \cup {NoAgent} /\ task[r].n \in Nat
BY DEF TypeOK, Task

LEMMA WireParts ==
    ASSUME TypeOK, NEW r \in Request
    PROVE  /\ wire[r] \in Wire /\ wire[r].cmd \in Command /\ wire[r].seq \in 0..(Chunks - 1)
           /\ wire[r].state \in States
BY DEF TypeOK, Wire, States

LEMMA ClosedType ==
    /\ Closed \in Wire /\ Chunks \in Nat \ {0}
    /\ Closed.cmd = "none" /\ Closed.seq = 0 /\ Closed.state = "closed"
    /\ \A k \in 0..(Chunks - 1), c \in Command :
          /\ Sent(c, k) \in Wire /\ Sent(c, k).cmd = c /\ Sent(c, k).seq = k
          /\ Sent(c, k).state = "sent"
<1>1. Chunks \in Nat \ {0} /\ 0 \in 0..(Chunks - 1)
  BY TeleportAssumption
<1>2. QED
  BY <1>1 DEF Closed, Sent, Wire, Command

LEMMA NamedParts ==
    ASSUME Named, NEW r \in Request, Active(r) \/ wire[r].state = "sent"
    PROVE  /\ task[r].agent \in Agent /\ task[r].n \in Nat \ {0} /\ MemoryOf(r) \in Memory
           /\ MemoryOf(r).of = task[r].agent /\ MemoryOf(r).n = task[r].n
<1>1. MemoryOf(r) \in Memory
  BY DEF Named
<1>2. MemoryOf(r).of = task[r].agent /\ MemoryOf(r).n = task[r].n
  BY DEF MemoryOf
<1>3. QED
  BY <1>1, <1>2 DEF Memory

\* A request enters another stage.
LEMMA TaskStep ==
    ASSUME TypeOK, NEW r \in Request, NEW s \in Stages, task' = [task EXCEPT ![r].stage = s]
    PROVE  /\ task' \in [Request -> Task] /\ task'[r].stage = s
           /\ \A q \in Request : /\ task'[q].path = task[q].path /\ task'[q].agent = task[q].agent
                                 /\ task'[q].n = task[q].n /\ MemoryOf(q)' = MemoryOf(q)
           /\ \A q \in Request \ {r} : task'[q] = task[q]
<1> DEFINE t == [task[r] EXCEPT !.stage = s]
<1>1. task[r] \in Task /\ task' = [task EXCEPT ![r] = t]
  BY DEF TypeOK
<1>2. /\ t \in Task /\ t.stage = s /\ t.path = task[r].path /\ t.agent = task[r].agent
      /\ t.n = task[r].n
  BY <1>1 DEF Task
<1> HIDE DEF t
<1>3. /\ task' \in [Request -> Task] /\ task'[r] = t
      /\ \A q \in Request \ {r} : task'[q] = task[q]
  BY <1>1, <1>2 DEF TypeOK
<1>4. \A q \in Request : /\ task'[q].path = task[q].path /\ task'[q].agent = task[q].agent
                         /\ task'[q].n = task[q].n
  BY <1>2, <1>3
<1>5. \A q \in Request : MemoryOf(q)' = MemoryOf(q)
  BY <1>4 DEF MemoryOf
<1>6. QED
  BY <1>2, <1>3, <1>4, <1>5

LEMMA WireStep ==
    ASSUME TypeOK, NEW r \in Request, NEW w \in Wire, wire' = [wire EXCEPT ![r] = w]
    PROVE  /\ wire' \in [Request -> Wire] /\ wire'[r] = w
           /\ \A q \in Request \ {r} : wire'[q] = wire[q]
BY DEF TypeOK

LEMMA ReplyStep ==
    ASSUME TypeOK, NEW r \in Request, NEW s \in States, Reply(r, s)
    PROVE  /\ wire' \in [Request -> Wire] /\ wire'[r] = [wire[r] EXCEPT !.state = s]
           /\ wire'[r].cmd = wire[r].cmd /\ wire'[r].seq = wire[r].seq /\ wire'[r].state = s
           /\ \A q \in Request \ {r} : wire'[q] = wire[q]
<1>1. PICK w : w = [wire[r] EXCEPT !.state = s]
  OBVIOUS
<1>2. wire[r] \in Wire /\ wire' = [wire EXCEPT ![r] = w]
  BY <1>1 DEF TypeOK, Reply
<1>3. w \in Wire /\ w.cmd = wire[r].cmd /\ w.seq = wire[r].seq /\ w.state = s
  BY <1>1, <1>2 DEF Wire, States
<1>4. QED
  BY <1>1, <1>2, <1>3, WireStep

LEMMA FollowingType ==
    ASSUME NEW w \in Wire
    PROVE  /\ Following(w) \in Wire
           /\ w.cmd = "handshake" => Following(w) = Sent("payload", 0)
           /\ w.cmd = "payload" /\ w.seq + 1 < Chunks => Following(w) = Sent("payload", w.seq + 1)
           /\ w.cmd = "payload" /\ w.seq + 1 >= Chunks => Following(w) = Sent("commit", 0)
           /\ w.cmd \notin {"handshake", "payload"} => Following(w) = Closed
           /\ Following(w) = Closed <=> w.cmd \notin {"handshake", "payload"}
<1>1. w.seq \in 0..(Chunks - 1) /\ Chunks \in Nat \ {0} /\ 0 \in 0..(Chunks - 1)
  BY TeleportAssumption DEF Wire
<1>2. CASE w.cmd = "handshake"
  BY <1>1, <1>2, ClosedType DEF Following, Command
<1>3. CASE w.cmd = "payload" /\ w.seq + 1 < Chunks
  <2>1. w.seq + 1 \in 0..(Chunks - 1)
    BY <1>1, <1>3
  <2>2. QED
    BY <1>1, <1>3, <2>1, ClosedType DEF Following, Command
<1>4. CASE w.cmd = "payload" /\ w.seq + 1 >= Chunks
  BY <1>1, <1>4, ClosedType DEF Following, Command
<1>5. CASE w.cmd \notin {"handshake", "payload"}
  BY <1>5, ClosedType DEF Following
<1>6. QED
  BY <1>1, <1>2, <1>3, <1>4, <1>5

LEMMA InsertedType ==
    ASSUME TypeOK, NEW e \in Entry, NEW p \in Inserted(e)
    PROVE  /\ p \in Seq(Entry)
           /\ pending = <<>> => Len(p) = 1 /\ p[1] = e
<1>1. pending \in Seq(Entry) /\ Len(pending) \in Nat
  BY DEF TypeOK, Entry
<1>2. PICK i \in 0..Len(pending) :
         p = SubSeq(pending, 1, i) \o <<e>> \o SubSeq(pending, i + 1, Len(pending))
  BY DEF Inserted
<1>3. SubSeq(pending, 1, i) \in Seq(Entry) /\ SubSeq(pending, i + 1, Len(pending)) \in Seq(Entry)
  BY <1>1, <1>2
<1>4. p \in Seq(Entry)
  BY <1>2, <1>3
<1>5. ASSUME pending = <<>> PROVE Len(p) = 1 /\ p[1] = e
  <2>1. i = 0 /\ Len(pending) = 0
    BY <1>2, <1>5
  <2>2. p = SubSeq(pending, 1, 0) \o <<e>> \o SubSeq(pending, 1, 0)
    BY <1>2, <2>1
  <2>3. SubSeq(pending, 1, 0) = <<>>
    BY <1>1
  <2>4. QED
    BY <2>2, <2>3
<1>6. QED
  BY <1>4, <1>5

\* Another field of an entry changes: an entry of a sequence is replaced.
LEMMA Replaced ==
    ASSUME NEW S, NEW p \in Seq(S), NEW n \in Nat, n \in 1..Len(p), NEW e \in S
    PROVE  /\ [p EXCEPT ![n] = e] \in Seq(S) /\ Len([p EXCEPT ![n] = e]) = Len(p)
           /\ [p EXCEPT ![n] = e][n] = e
OBVIOUS

\* A chunk is added to the last entry.
LEMMA PayloadType ==
    ASSUME TypeOK, pending # <<>>, NEW c \in Chunk,
           pending' = [pending EXCEPT ![Len(pending)].chunks = Append(@, c)]
    PROVE  /\ pending' \in Seq(Entry) /\ Len(pending') = Len(pending)
           /\ pending'[Len(pending)].agent = pending[Len(pending)].agent
           /\ pending'[Len(pending)].chunks = Append(pending[Len(pending)].chunks, c)
           /\ pending[Len(pending)].chunks \in Seq(Chunk)
<1> DEFINE n == Len(pending)
           e == [pending[n] EXCEPT !.chunks = Append(pending[n].chunks, c)]
<1>1. pending \in Seq(Entry)
  BY DEF TypeOK, Entry
<1>2. n \in Nat /\ n \in 1..Len(pending) /\ pending[n] \in Entry
  BY <1>1
<1>3. pending' = [pending EXCEPT ![n] = e]
  OBVIOUS
<1> HIDE DEF n
<1>4. pending[n].chunks \in Seq(Chunk) /\ pending[n].agent \in Agent
  BY <1>2 DEF Entry
<1>5. Append(pending[n].chunks, c) \in Seq(Chunk)
  BY <1>4
<1>6. e \in Entry /\ e.agent = pending[n].agent /\ e.chunks = Append(pending[n].chunks, c)
  BY <1>2, <1>4, <1>5 DEF Entry
<1> HIDE DEF e
<1>7. pending' \in Seq(Entry) /\ Len(pending') = Len(pending) /\ pending'[n] = e
  <2>1. PICK p \in Seq(Entry) : p = pending
    BY <1>1
  <2>2. /\ [p EXCEPT ![n] = e] \in Seq(Entry) /\ Len([p EXCEPT ![n] = e]) = Len(p)
        /\ [p EXCEPT ![n] = e][n] = e
    BY <1>2, <1>6, <2>1, Replaced
  <2>3. QED
    BY <1>3, <2>1, <2>2
<1>8. QED
  BY <1>4, <1>6, <1>7 DEF n

LEMMA CommitType ==
    ASSUME TypeOK, pending # <<>>
    PROVE  /\ Tail(pending) \in Seq(Entry) /\ Head(pending) \in Entry
           /\ Head(pending).agent \in Agent /\ Head(pending).chunks \in Seq(Chunk)
           /\ Decoded(Head(pending).chunks) \subseteq Memory \cup {NoAgent, Garbage}
<1>1. pending \in Seq(Entry)
  BY DEF TypeOK, Entry
<1>2. Tail(pending) \in Seq(Entry) /\ Head(pending) \in Entry
  BY <1>1
<1>3. Head(pending).agent \in Agent /\ Head(pending).chunks \in Seq(Chunk)
  BY <1>2 DEF Entry
<1>4. PICK s \in Seq(Chunk) : s = Head(pending).chunks
  BY <1>3
<1>5. \A i \in 1..Len(s) : s[i].mem \in Memory
  <2>1. \A i \in 1..Len(s) : s[i] \in Chunk
    BY <1>4
  <2>2. QED
    BY <2>1 DEF Chunk
<1>6. Decoded(s) \subseteq Memory \cup {NoAgent, Garbage}
  BY <1>5 DEF Decoded
<1>7. QED
  BY <1>2, <1>3, <1>4, <1>6

-----------------------------------------------------------------------------
(***************************************************************************)
(* Every step preserves the types.                                         *)
(***************************************************************************)
Inv == TypeOK /\ Named

LEMMA NamedKept ==
    ASSUME Named, task' = task, wire' = wire
    PROVE  Named'
BY DEF Named, Active, MemoryOf

LEMMA NamedStep ==
    ASSUME Named, NEW r \in Request,
           \A q \in Request \ {r} : task'[q] = task[q] /\ wire'[q] = wire[q],
           task'[r].stage \in {"captured", "push", "sending", "purge"} \/ wire'[r].state = "sent"
              => MemoryOf(r)' \in Memory,
           task'[r].stage = "idle" => wire'[r] = Closed
    PROVE  Named'
<1> SUFFICES ASSUME NEW q \in Request
             PROVE  /\ Active(q)' \/ wire'[q].state = "sent" => MemoryOf(q)' \in Memory
                    /\ task'[q].stage = "idle" => wire'[q] = Closed
  BY DEF Named
<1>1. CASE q = r
  BY <1>1 DEF Active
<1>2. CASE q # r
  <2>1. task'[q] = task[q] /\ wire'[q] = wire[q]
    BY <1>2
  <2>2. QED
    BY <2>1 DEF Named, Active, MemoryOf
<1>3. QED
  BY <1>1, <1>2

LEMMA InvInit == Init => Inv
<1> SUFFICES ASSUME Init PROVE Inv
  OBVIOUS
<1>1. IdleTask \in Task /\ IdleTask.stage = "idle"
  BY DEF IdleTask, Task, Stages, None
<1>2. TypeOK
  BY <1>1, ClosedType DEF Init, TypeOK, None
<1>3. Named
  BY <1>1, ClosedType DEF Init, Named, Active
<1>4. QED
  BY <1>2, <1>3 DEF Inv

LEMMA InvStartRun == ASSUME Inv, NEW a \in Agent, StartRun(a) PROVE Inv'
<1>1. Named'
  BY NamedKept DEF Inv, StartRun
<1>2. TypeOK'
  BY DEF Inv, StartRun, TypeOK
<1>3. QED
  BY <1>1, <1>2 DEF Inv

LEMMA InvEndRun == ASSUME Inv, NEW a \in Agent, EndRun(a) PROVE Inv'
<1>1. Named'
  BY NamedKept DEF Inv, EndRun
<1>2. TypeOK'
  BY DEF Inv, EndRun, TypeOK, None
<1>3. QED
  BY <1>1, <1>2 DEF Inv

\* A request is made.
LEMMA CaptureStep ==
    ASSUME Inv, NEW r \in Request, Capture(r)
    PROVE  /\ task' \in [Request -> Task] /\ task'[r].path \in Path /\ task'[r].agent \in Agent
           /\ task'[r].n = source[task'[r].agent]
           /\ task'[r].stage = IF task'[r].n = None THEN "failed" ELSE "captured"
           /\ \A q \in Request \ {r} : task'[q] = task[q]
           /\ wire[r] = Closed
           /\ UNCHANGED <<source, running, runs, wire, tag, pending, forks, target>>
<1>1. PICK a \in Agent, p \in Path :
         task' = [task EXCEPT ![r] =
            [stage |-> IF source[a] = None THEN "failed" ELSE "captured",
             path |-> p, agent |-> a, n |-> source[a]]]
  BY DEF Capture
<1>2. PICK s \in Stages : s = IF source[a] = None THEN "failed" ELSE "captured"
  BY DEF Stages
<1>3. PICK t : t = [stage |-> s, path |-> p, agent |-> a, n |-> source[a]]
  OBVIOUS
<1>4. source[a] \in Nat /\ p \in {"stream", "registry"}
  BY TeleportAssumption DEF Inv, TypeOK
<1>5. t \in Task /\ t.stage = s /\ t.path = p /\ t.agent = a /\ t.n = source[a]
  BY <1>3, <1>4 DEF Task
<1>6. task' = [task EXCEPT ![r] = t]
  BY <1>1, <1>2, <1>3
<1>7. task' \in [Request -> Task] /\ task'[r] = t /\ \A q \in Request \ {r} : task'[q] = task[q]
  BY <1>5, <1>6 DEF Inv, TypeOK
<1>8. wire[r] = Closed /\ UNCHANGED <<source, running, runs, wire, tag, pending, forks, target>>
  BY DEF Inv, Named, Capture
<1>9. QED
  BY <1>2, <1>5, <1>7, <1>8

LEMMA InvCapture == ASSUME Inv, NEW r \in Request, Capture(r) PROVE Inv'
<1>1. TypeOK'
  BY CaptureStep DEF Inv, TypeOK
<1>2. PICK a \in Agent : task'[r].agent = a /\ task'[r].n = source[a] /\ source[a] \in Nat
  BY CaptureStep DEF Inv, TypeOK
<1>3. task'[r].stage # "failed" => MemoryOf(r)' \in Memory
  <2>1. MemoryOf(r)' = [of |-> a, n |-> source[a]]
    BY <1>2 DEF MemoryOf
  <2>2. QED
    BY <1>2, <2>1, CaptureStep DEF Memory, None
<1>4. Named'
  BY <1>3, CaptureStep, ClosedType, NamedStep DEF Inv
<1>5. QED
  BY <1>1, <1>4 DEF Inv

\* The source's steps: a request under way changes its stage or what it sends.
Turns(r, s, w) == /\ Active(r) /\ s \in Stages \ {"idle"} /\ w \in Wire
                  /\ task' = [task EXCEPT ![r].stage = s]
                  /\ wire' = [wire EXCEPT ![r] = w]

LEMMA SourceStep ==
    ASSUME Inv, NEW r \in Request, NEW s, NEW w, Turns(r, s, w)
    PROVE  /\ task' \in [Request -> Task] /\ wire' \in [Request -> Wire] /\ Named'
           /\ task'[r].stage = s /\ wire'[r] = w
           /\ \A q \in Request : /\ task'[q].path = task[q].path /\ task'[q].agent = task[q].agent
                                 /\ task'[q].n = task[q].n /\ MemoryOf(q)' = MemoryOf(q)
           /\ \A q \in Request \ {r} : task'[q] = task[q] /\ wire'[q] = wire[q]
<1>1. /\ TypeOK /\ Named /\ s \in Stages \ {"idle"} /\ w \in Wire /\ Active(r)
      /\ task' = [task EXCEPT ![r].stage = s]
      /\ wire' = [wire EXCEPT ![r] = w]
  BY DEF Inv, Turns
<1>2. /\ task' \in [Request -> Task] /\ task'[r].stage = s
      /\ \A q \in Request : /\ task'[q].path = task[q].path /\ task'[q].agent = task[q].agent
                            /\ task'[q].n = task[q].n /\ MemoryOf(q)' = MemoryOf(q)
      /\ \A q \in Request \ {r} : task'[q] = task[q]
  BY <1>1, TaskStep
<1>3. /\ wire' \in [Request -> Wire] /\ wire'[r] = w
      /\ \A q \in Request \ {r} : wire'[q] = wire[q]
  BY <1>1, WireStep
<1>4. MemoryOf(r)' \in Memory
  BY <1>1, <1>2 DEF Named
<1>5. Named'
  BY <1>1, <1>2, <1>3, <1>4, NamedStep
<1>6. QED
  BY <1>2, <1>3, <1>5

LEMMA InvCheck == ASSUME Inv, NEW r \in Request, Check(r) PROVE Inv'
<1>1. PICK s \in Stages \ {"idle"}, w \in Wire :
         task' = [task EXCEPT ![r].stage = s] /\ wire' = [wire EXCEPT ![r] = w]
  <2>1. wire = [wire EXCEPT ![r] = wire[r]] /\ wire[r] \in Wire
    BY DEF Inv, TypeOK
  <2>2. Sent("handshake", 0) \in Wire
    BY ClosedType DEF Command
  <2>3. QED
    BY <2>1, <2>2 DEF Check, Stages
<1>2. Turns(r, s, w)
  BY <1>1 DEF Check, Active, Turns
<1>3. task' \in [Request -> Task] /\ wire' \in [Request -> Wire] /\ Named'
  BY <1>2, SourceStep
<1>4. TypeOK'
  BY <1>3 DEF Inv, TypeOK, Check
<1>5. QED
  BY <1>3, <1>4 DEF Inv

LEMMA InvPush == ASSUME Inv, NEW r \in Request, Push(r) PROVE Inv'
<1>1. PICK s \in Stages \ {"idle"}, w \in Wire :
         task' = [task EXCEPT ![r].stage = s] /\ wire' = [wire EXCEPT ![r] = w]
  <2>1. wire = [wire EXCEPT ![r] = wire[r]] /\ wire[r] \in Wire
    BY DEF Inv, TypeOK
  <2>2. Sent("notice", 0) \in Wire
    BY ClosedType DEF Command
  <2>3. QED
    BY <2>1, <2>2 DEF Push, Stages
<1>2. Turns(r, s, w)
  BY <1>1 DEF Push, Active, Turns
<1>3. task' \in [Request -> Task] /\ wire' \in [Request -> Wire] /\ Named'
  BY <1>2, SourceStep
<1>4. tag' \in [Agent -> Nat]
  BY TaskParts DEF Push, Inv, TypeOK
<1>5. TypeOK'
  BY <1>3, <1>4 DEF Inv, TypeOK, Push
<1>6. QED
  BY <1>3, <1>5 DEF Inv

LEMMA InvAcked == ASSUME Inv, NEW r \in Request, Acked(r) PROVE Inv'
<1>1. PICK s \in Stages \ {"idle"} : s = IF Following(wire[r]) = Closed THEN "purge" ELSE "sending"
  BY DEF Stages
<1>2. PICK w \in Wire : w = Following(wire[r])
  BY WireParts, FollowingType DEF Inv
<1>3. Turns(r, s, w)
  BY <1>1, <1>2 DEF Acked, Active, Turns, Stages
<1>4. task' \in [Request -> Task] /\ wire' \in [Request -> Wire] /\ Named'
  BY <1>3, SourceStep
<1>5. TypeOK'
  BY <1>4 DEF Inv, TypeOK, Acked
<1>6. QED
  BY <1>4, <1>5 DEF Inv

LEMMA InvRefused == ASSUME Inv, NEW r \in Request, Refused(r) PROVE Inv'
<1>1. Turns(r, "failed", Closed)
  BY ClosedType DEF Refused, Active, Stages, Turns
<1>2. task' \in [Request -> Task] /\ wire' \in [Request -> Wire] /\ Named'
  BY <1>1, SourceStep
<1>3. TypeOK'
  BY <1>2 DEF Inv, TypeOK, Refused
<1>4. QED
  BY <1>2, <1>3 DEF Inv

LEMMA InvAbandon == ASSUME Inv, NEW r \in Request, Active(r), Abandon(r) PROVE Inv'
<1>1. PICK w \in Wire : wire' = [wire EXCEPT ![r] = w]
  <2>1. wire = [wire EXCEPT ![r] = wire[r]] /\ wire[r] \in Wire
    BY DEF Inv, TypeOK
  <2>2. QED
    BY <2>1, ClosedType DEF Abandon
<1>2. task' \in [Request -> Task] /\ wire' \in [Request -> Wire] /\ Named'
  <2>1. Turns(r, "failed", w)
    BY <1>1 DEF Abandon, Stages, Turns
  <2>2. QED
    BY <2>1, SourceStep
<1>3. TypeOK'
  BY <1>2 DEF Inv, TypeOK, Abandon
<1>4. QED
  BY <1>2, <1>3 DEF Inv

LEMMA InvPurge == ASSUME Inv, NEW r \in Request, Purge(r) PROVE Inv'
<1>1. Active(r) /\ task' = [task EXCEPT ![r].stage = "done"] /\ "done" \in Stages \ {"idle"}
  BY DEF Purge, Active, Stages
<1>2. wire' = [wire EXCEPT ![r] = wire[r]] /\ wire[r] \in Wire
  BY DEF Inv, TypeOK, Purge
<1>3. task' \in [Request -> Task] /\ wire' \in [Request -> Wire] /\ Named'
  <2>1. Turns(r, "done", wire[r])
    BY <1>1, <1>2 DEF Turns
  <2>2. QED
    BY <2>1, SourceStep
<1>4. TypeOK'
  BY <1>3 DEF Inv, TypeOK, Purge, None
<1>5. QED
  BY <1>3, <1>4 DEF Inv

\* A handler has answered.
LEMMA ReplyNamed ==
    ASSUME Inv, NEW r \in Request, NEW s \in {"acked", "refused"}, Reply(r, s),
           wire[r].state = "sent", UNCHANGED task
    PROVE  wire' \in [Request -> Wire] /\ Named'
<1>1. TypeOK /\ Named /\ s \in States
  BY DEF Inv, States
<1>2. /\ wire' \in [Request -> Wire] /\ wire'[r].state = s
      /\ \A q \in Request \ {r} : wire'[q] = wire[q]
  BY <1>1, ReplyStep
<1>3. MemoryOf(r)' = MemoryOf(r) /\ MemoryOf(r) \in Memory
  BY <1>1 DEF MemoryOf, Named
<1>4. task'[r].stage # "idle"
  BY <1>1, ClosedType DEF Named
<1>5. \A q \in Request \ {r} : task'[q] = task[q] /\ wire'[q] = wire[q]
  BY <1>2
<1>6. Named'
  BY <1>1, <1>2, <1>3, <1>4, <1>5, NamedStep
<1>7. QED
  BY <1>2, <1>6

\* What the command of r is about.
LEMMA HandleParts ==
    ASSUME Inv, NEW r \in Request, Handle(r)
    PROVE  /\ task[r].agent \in Agent /\ task[r].n \in Nat \ {0} /\ MemoryOf(r) \in Memory
           /\ [seq |-> wire[r].seq, mem |-> MemoryOf(r)] \in Chunk
           /\ wire[r].state = "sent"
           /\ UNCHANGED <<source, running, runs, task, tag, target>>
<1>1. wire[r].state = "sent" /\ UNCHANGED <<source, running, runs, task, tag, target>>
  BY DEF Handle
<1>2. task[r].agent \in Agent /\ task[r].n \in Nat \ {0} /\ MemoryOf(r) \in Memory
  BY <1>1, NamedParts DEF Inv
<1>3. [seq |-> wire[r].seq, mem |-> MemoryOf(r)] \in Chunk
  BY <1>2, WireParts DEF Inv, Chunk
<1>4. QED
  BY <1>1, <1>2, <1>3

LEMMA InvHandshake == ASSUME Inv, NEW r \in Request, Handle(r), HandleHandshake(r) PROVE Inv'
<1>1. UNCHANGED <<source, running, runs, task, tag, target, forks>>
  BY HandleParts DEF HandleHandshake
<1>2. wire' \in [Request -> Wire] /\ Named'
  BY <1>1, HandleParts, ReplyNamed DEF HandleHandshake
<1>3. PICK e : e = [agent |-> task[r].agent, chunks |-> <<>>]
  OBVIOUS
<1>4. e \in Entry
  <2>1. <<>> \in Seq(Chunk)
    OBVIOUS
  <2>2. QED
    BY <1>3, <2>1, HandleParts DEF Entry
<1>5. pending' \in Inserted(e)
  BY <1>3 DEF HandleHandshake
<1>6. pending' \in Seq(Entry)
  BY <1>4, <1>5, InsertedType DEF Inv
<1>7. TypeOK'
  BY <1>1, <1>2, <1>6 DEF Inv, TypeOK, Entry
<1>8. QED
  BY <1>2, <1>7 DEF Inv

LEMMA InvPayload == ASSUME Inv, NEW r \in Request, Handle(r), HandlePayload(r) PROVE Inv'
<1>1. UNCHANGED <<source, running, runs, task, tag, target, forks>>
  BY HandleParts DEF HandlePayload
<1>2. wire' \in [Request -> Wire] /\ Named'
  BY <1>1, HandleParts, ReplyNamed DEF HandlePayload
<1>3. pending' \in Seq(Entry)
  <2>1. PICK c \in Chunk : c = [seq |-> wire[r].seq, mem |-> MemoryOf(r)]
    BY HandleParts
  <2>2. CASE pending = <<>>
    BY <2>2 DEF HandlePayload, Inv, TypeOK, Entry
  <2>3. CASE pending # <<>>
    <3>1. pending' = [pending EXCEPT ![Len(pending)].chunks = Append(@, c)]
      BY <2>1, <2>3 DEF HandlePayload
    <3>2. QED
      BY <2>3, <3>1, PayloadType DEF Inv
  <2>4. QED
    BY <2>2, <2>3
<1>4. TypeOK'
  BY <1>1, <1>2, <1>3 DEF Inv, TypeOK, Entry
<1>5. QED
  BY <1>2, <1>4 DEF Inv

LEMMA InvCommit == ASSUME Inv, NEW r \in Request, Handle(r), HandleCommit(r) PROVE Inv'
<1>1. UNCHANGED <<source, running, runs, task, tag, target>> /\ wire[r].state = "sent"
  BY HandleParts
<1>2. PICK s \in {"acked", "refused"} : Reply(r, s)
  BY DEF HandleCommit
<1>3. wire' \in [Request -> Wire] /\ Named'
  BY <1>1, <1>2, ReplyNamed
<1>4. pending' \in Seq(Entry) /\ forks' \subseteq Fork
  <2>1. CASE pending = <<>>
    BY <2>1 DEF HandleCommit, Inv, TypeOK, Entry
  <2>2. CASE pending # <<>>
    <3>1. /\ Tail(pending) \in Seq(Entry) /\ Head(pending).agent \in Agent
          /\ Decoded(Head(pending).chunks) \subseteq Memory \cup {NoAgent, Garbage}
      BY <2>2, CommitType DEF Inv
    <3>2. PICK m \in Decoded(Head(pending).chunks) :
             IF m = NoAgent THEN UNCHANGED forks
             ELSE forks' = forks \cup {[by |-> r, agent |-> Head(pending).agent, mem |-> m]}
      BY <2>2 DEF HandleCommit
    <3>3. pending' \in Seq(Entry)
      BY <2>2, <3>1 DEF HandleCommit
    <3>4. m # NoAgent => [by |-> r, agent |-> Head(pending).agent, mem |-> m] \in Fork
      BY <3>1, <3>2 DEF Fork
    <3>5. QED
      BY <3>2, <3>3, <3>4 DEF Inv, TypeOK
  <2>3. QED
    BY <2>1, <2>2
<1>5. TypeOK'
  BY <1>1, <1>3, <1>4 DEF Inv, TypeOK, Entry
<1>6. QED
  BY <1>3, <1>5 DEF Inv

\* The registry has a memory of the agent under the tag, if anything.
LEMMA PulledType ==
    ASSUME TypeOK, NEW a \in Agent, NEW m \in Pulled(a)
    PROVE  m \in Memory /\ m.of = a /\ m.n = tag[a]
<1>1. m = [of |-> a, n |-> tag[a]] /\ tag[a] # None /\ tag[a] \in Nat
  BY DEF Pulled, TypeOK
<1>2. QED
  BY <1>1 DEF Memory, None

LEMMA InvNotice == ASSUME Inv, NEW r \in Request, Handle(r), HandleNotice(r) PROVE Inv'
<1>1. UNCHANGED <<source, running, runs, task, tag, target, pending>> /\ wire[r].state = "sent"
  BY HandleParts DEF HandleNotice
<1>2. PICK s \in {"acked", "refused"} : Reply(r, s)
  BY DEF HandleNotice
<1>3. wire' \in [Request -> Wire] /\ Named'
  BY <1>1, <1>2, ReplyNamed
<1>4. forks' \subseteq Fork
  <2>1. PICK a \in Agent : a = task[r].agent
    BY HandleParts
  <2>2. forks \subseteq Fork
    BY DEF Inv, TypeOK
  <2>3. CASE UNCHANGED forks
    BY <2>2, <2>3
  <2>4. ASSUME NEW m \in Pulled(a), forks' = forks \cup {[by |-> r, agent |-> a, mem |-> m]}
        PROVE  forks' \subseteq Fork
    <3>1. m \in Memory
      BY PulledType DEF Inv
    <3>2. [by |-> r, agent |-> a, mem |-> m] \in Fork
      BY <3>1 DEF Fork
    <3>3. QED
      BY <2>2, <2>4, <3>2
  <2>5. QED
    BY <2>1, <2>3, <2>4 DEF HandleNotice
<1>5. TypeOK'
  BY <1>1, <1>3, <1>4 DEF Inv, TypeOK
<1>6. QED
  BY <1>3, <1>5 DEF Inv

LEMMA InvHandle == ASSUME Inv, NEW r \in Request, Handle(r) PROVE Inv'
BY InvHandshake, InvPayload, InvCommit, InvNotice DEF Handle

LEMMA InvResurrect == ASSUME Inv, NEW f \in forks, Resurrect(f) PROVE Inv'
<1>1. Named'
  BY NamedKept DEF Inv, Resurrect
<1>2. PICK a \in Agent, m \in Memory \cup {Garbage} : f.agent = a /\ f.mem = m
  BY DEF Inv, TypeOK, Fork
<1>3. target' \in [Agent -> SUBSET (Memory \cup {Garbage})]
  <2>1. target' = target \/ target' = [target EXCEPT ![a] = target[a] \cup {m}]
    BY <1>2 DEF Resurrect
  <2>2. target \in [Agent -> SUBSET (Memory \cup {Garbage})]
    BY DEF Inv, TypeOK
  <2>3. target[a] \cup {m} \in SUBSET (Memory \cup {Garbage})
    BY <2>2
  <2>4. QED
    BY <2>1, <2>2, <2>3
<1>4. TypeOK'
  BY <1>3 DEF Inv, TypeOK, Resurrect
<1>5. QED
  BY <1>1, <1>4 DEF Inv

\* A restart cuts the connections with a command in them.
LEMMA RestartStep ==
    ASSUME TypeOK, Restart
    PROVE  /\ wire' \in [Request -> Wire]
           /\ \A r \in Request :
                 /\ wire'[r].cmd = wire[r].cmd /\ wire'[r].state # "sent"
                 /\ wire[r].state # "sent" => wire'[r] = wire[r]
                 /\ wire[r].state = "sent" => wire'[r].state = "refused"
<1> SUFFICES ASSUME NEW r \in Request
             PROVE  /\ wire'[r] \in Wire /\ wire'[r].cmd = wire[r].cmd /\ wire'[r].state # "sent"
                    /\ wire[r].state # "sent" => wire'[r] = wire[r]
                    /\ wire[r].state = "sent" => wire'[r].state = "refused"
  BY DEF Restart
<1>1. wire[r] \in Wire
  BY DEF TypeOK
<1>2. wire'[r] = IF wire[r].state = "sent" THEN [wire[r] EXCEPT !.state = "refused"] ELSE wire[r]
  BY DEF Restart
<1>3. QED
  BY <1>1, <1>2 DEF Wire

LEMMA InvRestart == ASSUME Inv, Restart PROVE Inv'
<1>1. TypeOK /\ Named
  BY DEF Inv
<1>2. Named'
  <2> SUFFICES ASSUME NEW r \in Request
               PROVE  /\ Active(r)' \/ wire'[r].state = "sent" => MemoryOf(r)' \in Memory
                      /\ task'[r].stage = "idle" => wire'[r] = Closed
    BY DEF Named
  <2>1. task' = task /\ wire'[r].state # "sent"
    BY <1>1, RestartStep DEF Restart
  <2>2. task[r].stage = "idle" => wire'[r] = Closed
    BY <1>1, RestartStep, ClosedType DEF Named
  <2>3. QED
    BY <1>1, <2>1, <2>2 DEF Named, Active, MemoryOf
<1>3. TypeOK'
  <2>1. wire' \in [Request -> Wire]
    BY <1>1, RestartStep
  <2>2. <<>> \in Seq(Entry)
    OBVIOUS
  <2>3. QED
    BY <1>1, <2>1, <2>2 DEF TypeOK, Restart, Entry
<1>4. QED
  BY <1>2, <1>3 DEF Inv

LEMMA InvNext == Inv /\ [Next]_vars => Inv'
<1> SUFFICES ASSUME Inv, [Next]_vars PROVE Inv'
  OBVIOUS
<1>1. ASSUME NEW a \in Agent, StartRun(a) \/ EndRun(a) PROVE Inv'
  BY <1>1, InvStartRun, InvEndRun
<1>2. ASSUME NEW r \in Request, Capture(r) \/ Teleporting(r) PROVE Inv'
  BY <1>2, InvCapture, InvCheck, InvPush, InvAcked, InvRefused, InvPurge DEF Teleporting
<1>3. ASSUME NEW r \in Request, Disconnect(r) \/ HangUp(r) PROVE Inv'
  <2>1. Active(r) /\ Abandon(r)
    BY <1>3 DEF Disconnect, HangUp, Active
  <2>2. QED
    BY <2>1, InvAbandon
<1>4. ASSUME NEW r \in Request, Handle(r) PROVE Inv'
  BY <1>4, InvHandle
<1>5. ASSUME NEW f \in forks, Resurrect(f) PROVE Inv'
  BY <1>5, InvResurrect
<1>6. CASE Restart
  BY <1>6, InvRestart
<1>7. CASE UNCHANGED vars
  <2>1. Named'
    BY <1>7, NamedKept DEF Inv, vars
  <2>2. TypeOK'
    BY <1>7 DEF Inv, TypeOK, vars
  <2>3. QED
    BY <2>1, <2>2 DEF Inv
<1>8. QED
  BY <1>1, <1>2, <1>3, <1>4, <1>5, <1>6, <1>7 DEF Next

\* The tasks, the connections, the table of migrations and the memories that arrive at
\* the target keep their types: whatever a commit decodes (hive.rs), it makes a fork.
THEOREM TypeCorrect == Spec => []TypeOK
<1>1. Spec => []Inv
  BY InvInit, InvNext, PTL DEF Spec
<1>2. Inv => TypeOK
  BY DEF Inv
<1>3. QED
  BY <1>1, <1>2, PTL

-----------------------------------------------------------------------------
(***************************************************************************)
(* What has arrived at the target.                                         *)
(***************************************************************************)
LEMMA ArrivedStays ==
    ASSUME UNCHANGED <<target, forks>>, NEW a
    PROVE  Arrived(a)' = Arrived(a)
BY DEF Arrived

\* The memory m arrives under the alias b.
Arrives(b, m) == /\ m \in Arrived(b)'
                 /\ \A a \in Agent : /\ Arrived(a) \subseteq Arrived(a)'
                                     /\ Arrived(a)' \subseteq Arrived(a) \cup {m}
                                     /\ a # b => Arrived(a)' = Arrived(a)

LEMMA ArrivedForked ==
    ASSUME NEW f, forks' = forks \cup {f}, UNCHANGED target
    PROVE  Arrives(f.agent, f.mem)
BY DEF Arrived, Arrives

\* A fork comes to life, or nothing comes of it.
LEMMA ArrivedResurrected ==
    ASSUME TypeOK, NEW f \in forks, Resurrect(f), NEW a \in Agent
    PROVE  /\ Arrived(a)' \subseteq Arrived(a)
           /\ "fork" \notin Circumstances /\ f.mem # Garbage => Arrived(a)' = Arrived(a)
<1>1. PICK b \in Agent, m \in Memory \cup {Garbage} : f.agent = b /\ f.mem = m
  BY DEF TypeOK, Fork
<1>2. target \in [Agent -> SUBSET (Memory \cup {Garbage})]
  BY DEF TypeOK
<1>3. forks' = forks \ {f}
  BY DEF Resurrect
<1>4. \A x : x \in {g.mem : g \in {h \in forks : h.agent = a}}
                 <=> \/ x \in {g.mem : g \in {h \in forks' : h.agent = a}}
                     \/ a = b /\ x = m
  BY <1>1, <1>3
<1>5. CASE UNCHANGED target
  <2>1. Arrived(a)' \subseteq Arrived(a)
    BY <1>4, <1>5 DEF Arrived
  <2>2. "fork" \notin Circumstances /\ f.mem # Garbage => target' = [target EXCEPT ![b] = target[b] \cup {m}]
    BY <1>1 DEF Resurrect
  <2>3. target' = [target EXCEPT ![b] = target[b] \cup {m}] => m \in target[b]
    BY <1>2, <1>5
  <2>4. "fork" \notin Circumstances /\ f.mem # Garbage => Arrived(a)' = Arrived(a)
    BY <1>4, <1>5, <2>2, <2>3 DEF Arrived
  <2>5. QED
    BY <2>1, <2>4
<1>6. CASE target' = [target EXCEPT ![b] = target[b] \cup {m}]
  <2>1. /\ a = b => target'[a] = target[a] \cup {m}
        /\ a # b => target'[a] = target[a]
    BY <1>2, <1>6
  <2>2. QED
    BY <1>4, <2>1 DEF Arrived
<1>7. QED
  BY <1>1, <1>5, <1>6 DEF Resurrect

\* A notice was handled.
LEMMA Noted ==
    ASSUME Inv, NEW r \in Request, Handle(r), HandleNotice(r)
    PROVE  \/ /\ Reply(r, "refused") /\ UNCHANGED forks /\ "network" \in Circumstances
              /\ \A a \in Agent : Arrived(a)' = Arrived(a)
           \/ /\ Reply(r, "acked")
              /\ \E a \in Agent, m \in Memory :
                    task[r].agent = a /\ m.of = a /\ m.n = tag[a] /\ Arrives(a, m)
<1>1. PICK b \in Agent : b = task[r].agent
  BY HandleParts
<1>2. UNCHANGED target
  BY HandleParts
<1>3. CASE Reply(r, "refused") /\ UNCHANGED forks /\ "network" \in Circumstances
  BY <1>2, <1>3, ArrivedStays
<1>4. CASE /\ Reply(r, "acked")
           /\ \E m \in Pulled(b) : forks' = forks \cup {[by |-> r, agent |-> b, mem |-> m]}
  <2>1. PICK m \in Pulled(b) : forks' = forks \cup {[by |-> r, agent |-> b, mem |-> m]}
    BY <1>4
  <2>2. m \in Memory /\ m.of = b /\ m.n = tag[b]
    BY PulledType DEF Inv
  <2>3. PICK f : f = [by |-> r, agent |-> b, mem |-> m]
    OBVIOUS
  <2>4. forks' = forks \cup {f} /\ f.agent = b /\ f.mem = m
    BY <2>1, <2>3
  <2>5. Arrives(b, m)
    BY <1>2, <2>4, ArrivedForked
  <2>6. QED
    BY <1>1, <1>4, <2>2, <2>5
<1>5. QED
  BY <1>1, <1>3, <1>4 DEF HandleNotice

-----------------------------------------------------------------------------
(***************************************************************************)
(* Transfers through the registry.                                         *)
(***************************************************************************)
\* The step of a request at the source: its stage becomes s, its connection w.
LEMMA SourceTurns ==
    ASSUME Inv, NEW r \in Request, Teleporting(r) \/ Disconnect(r) \/ HangUp(r)
    PROVE  /\ UNCHANGED <<running, runs, pending, forks, target>>
           /\ \E s \in Stages, w \in Wire :
                 /\ Turns(r, s, w)
                 /\ \/ s = "failed" /\ w \in {wire[r], Closed}
                    \/ s = "push" /\ w = wire[r] /\ task[r].path = "registry"
                    \/ /\ s = "sending" /\ w = Sent("handshake", 0)
                       /\ task[r].path # "registry" /\ task[r].stage = "captured"
                    \/ s = "sending" /\ w = Sent("notice", 0) /\ task[r].stage = "push"
                    \/ /\ s = IF Following(wire[r]) = Closed THEN "purge" ELSE "sending"
                       /\ w = Following(wire[r]) /\ wire[r].state = "acked"
                    \/ s = "done" /\ w = wire[r] /\ task[r].stage = "purge"
                 /\ s # "done" => UNCHANGED source
                 /\ s = "done" => source' = [source EXCEPT ![task[r].agent] = None]
<1> DEFINE Turned(s, w) ==
                 /\ Turns(r, s, w)
                 /\ \/ s = "failed" /\ w \in {wire[r], Closed}
                    \/ s = "push" /\ w = wire[r] /\ task[r].path = "registry"
                    \/ /\ s = "sending" /\ w = Sent("handshake", 0)
                       /\ task[r].path # "registry" /\ task[r].stage = "captured"
                    \/ s = "sending" /\ w = Sent("notice", 0) /\ task[r].stage = "push"
                    \/ /\ s = IF Following(wire[r]) = Closed THEN "purge" ELSE "sending"
                       /\ w = Following(wire[r]) /\ wire[r].state = "acked"
                    \/ s = "done" /\ w = wire[r] /\ task[r].stage = "purge"
                 /\ s # "done" => UNCHANGED source
                 /\ s = "done" => source' = [source EXCEPT ![task[r].agent] = None]
           Goal == \E s \in Stages, w \in Wire : Turned(s, w)
<1> HIDE DEF Turned
<1>1. UNCHANGED <<running, runs, pending, forks, target>>
  BY DEF Teleporting, Check, Push, Acked, Refused, Purge, Disconnect, HangUp, Abandon
<1> SUFFICES Goal
  BY <1>1 DEF Turned
<1>2. wire = [wire EXCEPT ![r] = wire[r]] /\ wire[r] \in Wire /\ Closed \in Wire
  BY ClosedType DEF Inv, TypeOK
<1>3. Sent("handshake", 0) \in Wire /\ Sent("notice", 0) \in Wire
  BY ClosedType DEF Command
<1>4. CASE Check(r)
  <2>1. CASE task' = [task EXCEPT ![r].stage = "failed"] /\ UNCHANGED wire
    <3>1. Turned("failed", wire[r])
      BY <1>2, <1>4, <2>1 DEF Check, Turns, Active, Stages, Turned
    <3>2. QED
      BY <1>2, <3>1 DEF Stages
  <2>2. CASE task[r].path = "registry" /\ task' = [task EXCEPT ![r].stage = "push"] /\ UNCHANGED wire
    <3>1. Turned("push", wire[r])
      BY <1>2, <1>4, <2>2 DEF Check, Turns, Active, Stages, Turned
    <3>2. QED
      BY <1>2, <3>1 DEF Stages
  <2>3. CASE /\ task[r].path # "registry" /\ task' = [task EXCEPT ![r].stage = "sending"]
             /\ wire' = [wire EXCEPT ![r] = Sent("handshake", 0)]
    <3>1. Turned("sending", Sent("handshake", 0))
      BY <1>3, <1>4, <2>3 DEF Check, Turns, Active, Stages, Turned
    <3>2. QED
      BY <1>3, <3>1 DEF Stages
  <2>4. QED
    BY <1>4, <2>1, <2>2, <2>3 DEF Check
<1>5. CASE Push(r)
  <2>1. CASE /\ task' = [task EXCEPT ![r].stage = "sending"]
             /\ wire' = [wire EXCEPT ![r] = Sent("notice", 0)]
    <3>1. Turned("sending", Sent("notice", 0))
      BY <1>3, <1>5, <2>1 DEF Push, Turns, Active, Stages, Turned
    <3>2. QED
      BY <1>3, <3>1 DEF Stages
  <2>2. CASE task' = [task EXCEPT ![r].stage = "failed"] /\ UNCHANGED wire
    <3>1. Turned("failed", wire[r])
      BY <1>2, <1>5, <2>2 DEF Push, Turns, Active, Stages, Turned
    <3>2. QED
      BY <1>2, <3>1 DEF Stages
  <2>3. QED
    BY <1>5, <2>1, <2>2 DEF Push
<1>6. CASE Acked(r)
  <2>1. PICK w \in Wire : w = Following(wire[r])
    BY <1>2, FollowingType
  <2>2. PICK s \in {"purge", "sending"} : s = IF w = Closed THEN "purge" ELSE "sending"
    OBVIOUS
  <2>3. Turned(s, w)
    BY <1>6, <2>1, <2>2 DEF Acked, Turns, Active, Stages, Turned
  <2>4. QED
    BY <2>3 DEF Stages
<1>7. CASE Refused(r)
  <2>1. Turned("failed", Closed)
    BY <1>2, <1>7 DEF Refused, Turns, Active, Stages, Turned
  <2>2. QED
    BY <1>2, <2>1 DEF Stages
<1>8. CASE Purge(r)
  <2>1. Turned("done", wire[r])
    BY <1>2, <1>8 DEF Purge, Turns, Active, Stages, Turned
  <2>2. QED
    BY <1>2, <2>1 DEF Stages
<1>9. CASE Disconnect(r) \/ HangUp(r)
  <2>1. Abandon(r) /\ Active(r)
    BY <1>9 DEF Disconnect, HangUp, Active
  <2>2. CASE wire' = [wire EXCEPT ![r] = Closed]
    <3>1. Turned("failed", Closed)
      BY <1>2, <2>1, <2>2 DEF Abandon, Turns, Stages, Turned
    <3>2. QED
      BY <1>2, <3>1 DEF Stages
  <2>3. CASE UNCHANGED wire
    <3>1. Turned("failed", wire[r])
      BY <1>2, <2>1, <2>3 DEF Abandon, Turns, Stages, Turned
    <3>2. QED
      BY <1>2, <3>1 DEF Stages
  <2>4. QED
    BY <2>1, <2>2, <2>3 DEF Abandon
<1>10. Goal
  BY <1>4, <1>5, <1>6, <1>7, <1>8, <1>9 DEF Teleporting
<1>11. QED
  BY <1>1, <1>10

LEMMA NoticedStep ==
    ASSUME Noticed, NEW r \in Request, pending' = pending,
           \A q \in Request \ {r} : task'[q] = task[q] /\ wire'[q] = wire[q],
           wire'[r].cmd \in {"none", "notice"},
           wire'[r].state \in {"sent", "acked"} => wire'[r].cmd = "notice",
           task'[r].path = "registry" \/ ~Active(r)'
    PROVE  Noticed'
<1> SUFFICES ASSUME NEW q \in Request
             PROVE  /\ wire'[q].cmd \in {"none", "notice"}
                    /\ wire'[q].state \in {"sent", "acked"} => wire'[q].cmd = "notice"
                    /\ Active(q)' => task'[q].path = "registry"
  BY DEF Noticed
<1>1. CASE q = r
  BY <1>1
<1>2. CASE q # r
  <2>1. task'[q] = task[q] /\ wire'[q] = wire[q]
    BY <1>2
  <2>2. QED
    BY <2>1 DEF Noticed, Active
<1>3. QED
  BY <1>1, <1>2

\* On the registry path there are notices only, and the table stays empty.
LEMMA NoticedNext ==
    ASSUME Path \subseteq {"registry"}, Inv, Noticed, [Next]_vars
    PROVE  Noticed'
<1>1. ASSUME UNCHANGED <<task, wire, pending>> PROVE Noticed'
  BY <1>1 DEF Noticed, Active
<1>2. ASSUME NEW r \in Request, Capture(r) PROVE Noticed'
  <2>1. /\ task'[r].path \in Path /\ \A q \in Request \ {r} : task'[q] = task[q]
        /\ UNCHANGED <<wire, pending>> /\ wire[r] = Closed
    BY <1>2, CaptureStep
  <2>2. /\ task'[r].path = "registry" /\ wire'[r].cmd = "none" /\ wire'[r].state = "closed"
        /\ pending' = pending
        /\ \A q \in Request \ {r} : task'[q] = task[q] /\ wire'[q] = wire[q]
    BY <2>1, ClosedType
  <2>3. QED
    BY <2>2, NoticedStep
<1>3. ASSUME NEW r \in Request, Teleporting(r) \/ Disconnect(r) \/ HangUp(r) PROVE Noticed'
  <2>1. /\ pending' = pending
        /\ \E s \in Stages, w \in Wire :
              /\ Turns(r, s, w)
              /\ \/ w = wire[r] \/ w = Closed
                 \/ task[r].path # "registry" /\ task[r].stage = "captured"
                 \/ w = Sent("notice", 0)
                 \/ w = Following(wire[r]) /\ wire[r].state = "acked"
    BY <1>3, SourceTurns
  <2>2. PICK s \in Stages, w \in Wire :
              /\ Turns(r, s, w)
              /\ \/ w = wire[r] \/ w = Closed
                 \/ task[r].path # "registry" /\ task[r].stage = "captured"
                 \/ w = Sent("notice", 0)
                 \/ w = Following(wire[r]) /\ wire[r].state = "acked"
    BY <2>1
  <2>3. Active(r)
    BY <2>2 DEF Turns
  <2>4. /\ wire'[r] = w /\ task'[r].path = task[r].path
        /\ \A q \in Request \ {r} : task'[q] = task[q] /\ wire'[q] = wire[q]
    BY <2>2, SourceStep
  <2>5. task[r].path = "registry" /\ wire[r].cmd \in {"none", "notice"}
    BY <2>3 DEF Noticed
  <2>6. w.cmd \in {"none", "notice"} /\ (w.state \in {"sent", "acked"} => w.cmd = "notice")
    <3>1. CASE w = wire[r]
      BY <3>1 DEF Noticed
    <3>2. CASE w = Closed
      BY <3>2, ClosedType
    <3>3. CASE w = Sent("notice", 0)
      BY <3>3, ClosedType DEF Command
    <3>4. CASE w = Following(wire[r])
      <4>1. w = Closed
        BY <2>5, <3>4, FollowingType, WireParts DEF Inv
      <4>2. QED
        BY <4>1, ClosedType
    <3>5. QED
      BY <2>2, <2>5, <3>1, <3>2, <3>3, <3>4
  <2>7. QED
    BY <2>1, <2>4, <2>5, <2>6, NoticedStep
<1>4. ASSUME NEW r \in Request, Handle(r) PROVE Noticed'
  <2>1. wire[r].state = "sent" /\ wire[r].cmd = "notice"
    BY <1>4, HandleParts DEF Noticed
  <2>2. HandleNotice(r) /\ UNCHANGED <<task, pending>>
    BY <1>4, <2>1 DEF Handle, HandleHandshake, HandlePayload, HandleCommit, HandleNotice
  <2>3. PICK s \in States : Reply(r, s)
    BY <2>2 DEF HandleNotice, States
  <2>4. /\ wire'[r].cmd = wire[r].cmd
        /\ \A q \in Request \ {r} : wire'[q] = wire[q]
    BY <2>3, ReplyStep DEF Inv
  <2>5. task'[r].path = "registry" \/ ~Active(r)'
    BY <2>2 DEF Noticed, Active
  <2>6. QED
    BY <2>1, <2>2, <2>4, <2>5, NoticedStep
<1>5. ASSUME NEW f \in forks, Resurrect(f) PROVE Noticed'
  BY <1>1, <1>5 DEF Resurrect
<1>6. CASE Restart
  <2>1. \A r \in Request : /\ wire'[r].cmd = wire[r].cmd /\ wire'[r].state # "sent"
                           /\ wire[r].state # "sent" => wire'[r] = wire[r]
                           /\ wire[r].state = "sent" => wire'[r].state = "refused"
    BY <1>6, RestartStep DEF Inv
  <2>2. UNCHANGED task /\ pending' = <<>>
    BY <1>6 DEF Restart
  <2>3. QED
    BY <2>1, <2>2 DEF Noticed, Active
<1>7. QED
  BY <1>1, <1>2, <1>3, <1>4, <1>5, <1>6 DEF Next, Teleporting, StartRun, EndRun, vars

\* Only the notices bring memories to the target.
LEMMA GenuineNext ==
    ASSUME Inv, Noticed, Genuine, [Next]_vars
    PROVE  Genuine'
<1>1. ASSUME UNCHANGED <<target, forks>> PROVE Genuine'
  BY <1>1, ArrivedStays DEF Genuine
<1>2. ASSUME NEW r \in Request, Teleporting(r) \/ Disconnect(r) \/ HangUp(r) PROVE Genuine'
  BY <1>1, <1>2, SourceTurns
<1>3. ASSUME NEW r \in Request, Handle(r) PROVE Genuine'
  <2>1. wire[r].cmd = "notice"
    BY <1>3, HandleParts DEF Noticed
  <2>2. HandleNotice(r)
    BY <1>3, <2>1 DEF Handle, HandleHandshake, HandlePayload, HandleCommit
  <2>3. CASE \A a \in Agent : Arrived(a)' = Arrived(a)
    BY <2>3 DEF Genuine
  <2>4. ASSUME NEW b \in Agent, NEW m \in Memory, m.of = b, Arrives(b, m)
        PROVE  Genuine'
    BY <2>4 DEF Genuine, Arrives
  <2>5. QED
    BY <1>3, <2>2, <2>3, <2>4, Noted
<1>4. ASSUME NEW f \in forks, Resurrect(f) PROVE Genuine'
  BY <1>4, ArrivedResurrected DEF Inv, Genuine
<1>5. QED
  BY <1>1, <1>2, <1>3, <1>4 DEF Next, Teleporting, StartRun, EndRun, Capture, Restart, vars

LEMMA GenuineInit == Init => Genuine
<1> SUFFICES ASSUME Init, NEW a \in Agent PROVE Arrived(a) = {}
  BY DEF Genuine
<1>1. QED
  BY DEF Init, Arrived

LEMMA NoticedInit == Init => Noticed
<1> SUFFICES ASSUME Init PROVE Noticed
  OBVIOUS
<1>1. pending = <<>> /\ \A r \in Request : wire[r] = Closed /\ task[r] = IdleTask
  BY DEF Init
<1>2. QED
  BY <1>1, ClosedType DEF Noticed, Active, IdleTask

\* What is resumed under an alias is that agent's memory, as long as the moves go through
\* the registry: whatever fails, and however the requests overlap (teleport.rs, hive.rs).
THEOREM RegistryMovesAreGenuine ==
    ASSUME Path \subseteq {"registry"}
    PROVE  Spec => []Authentic
<1>1. Init => Inv /\ Noticed /\ Genuine
  BY InvInit, NoticedInit, GenuineInit
<1>2. Inv /\ Noticed /\ Genuine /\ [Next]_vars => (Inv /\ Noticed /\ Genuine)'
  BY InvNext, NoticedNext, GenuineNext
<1>3. Genuine => Authentic
  BY TeleportAssumption DEF Genuine, Authentic
<1>4. QED
  BY <1>1, <1>2, <1>3, PTL DEF Spec

-----------------------------------------------------------------------------
\* As long as every fork succeeds, what has arrived stays.
LEMMA SettledStays ==
    ASSUME "fork" \notin Circumstances, Inv, Noticed, Genuine, [Next]_vars, NEW a \in Agent
    PROVE  Arrived(a) \subseteq Arrived(a)'
<1>1. ASSUME UNCHANGED <<target, forks>> PROVE Arrived(a) \subseteq Arrived(a)'
  BY <1>1, ArrivedStays
<1>2. ASSUME NEW r \in Request, Teleporting(r) \/ Disconnect(r) \/ HangUp(r)
      PROVE  Arrived(a) \subseteq Arrived(a)'
  BY <1>1, <1>2, SourceTurns
<1>3. ASSUME NEW r \in Request, Handle(r) PROVE Arrived(a) \subseteq Arrived(a)'
  <2>1. wire[r].cmd = "notice"
    BY <1>3, HandleParts DEF Noticed
  <2>2. HandleNotice(r)
    BY <1>3, <2>1 DEF Handle, HandleHandshake, HandlePayload, HandleCommit
  <2>3. QED
    BY <1>3, <2>2, Noted DEF Arrives
<1>4. ASSUME NEW f \in forks, Resurrect(f) PROVE Arrived(a) \subseteq Arrived(a)'
  <2>1. PICK b, m : b \in Agent /\ f.agent = b /\ f.mem = m
    BY DEF Inv, TypeOK, Fork
  <2>2. m \in Arrived(b)
    BY <2>1 DEF Arrived
  <2>3. m # Garbage
    BY <2>1, <2>2, TeleportAssumption DEF Genuine
  <2>5. f.mem # Garbage
    BY <2>1, <2>3
  <2>4. QED
    BY <1>4, <2>5, ArrivedResurrected DEF Inv
<1>5. QED
  BY <1>1, <1>2, <1>3, <1>4 DEF Next, Teleporting, StartRun, EndRun, Capture, Restart, vars

LEMMA HandedStep ==
    ASSUME Handed, NEW r \in Request, \A a \in Agent : Settled(a) => Settled(a)',
           \A q \in Request \ {r} : task'[q] = task[q] /\ wire'[q] = wire[q],
           \A a \in Agent : task'[r].agent = a /\ (wire'[r].state = "acked" \/ task'[r].stage = "purge")
                            => Settled(a)'
    PROVE  Handed'
<1> SUFFICES ASSUME NEW q \in Request, NEW a \in Agent,
                    task'[q].agent = a, wire'[q].state = "acked" \/ task'[q].stage = "purge"
             PROVE  Settled(a)'
  BY DEF Handed
<1>1. CASE q = r
  BY <1>1
<1>2. CASE q # r
  <2>1. task'[q] = task[q] /\ wire'[q] = wire[q]
    BY <1>2
  <2>2. Settled(a)
    BY <2>1 DEF Handed
  <2>3. QED
    BY <2>2
<1>3. QED
  BY <1>1, <1>2

LEMMA HandedNext ==
    ASSUME "fork" \notin Circumstances, Inv, Noticed, Genuine, Handed, [Next]_vars
    PROVE  Handed'
<1>1. \A a \in Agent : Settled(a) => Settled(a)'
  BY SettledStays DEF Settled
<1>2. ASSUME UNCHANGED <<task, wire>> PROVE Handed'
  BY <1>1, <1>2 DEF Handed
<1>3. ASSUME NEW r \in Request, Capture(r) PROVE Handed'
  <2>1. /\ task'[r].stage \in {"failed", "captured"} /\ UNCHANGED wire /\ wire[r] = Closed
        /\ \A q \in Request \ {r} : task'[q] = task[q]
    BY <1>3, CaptureStep
  <2>2. QED
    BY <1>1, <2>1, ClosedType, HandedStep
<1>4. ASSUME NEW r \in Request, Teleporting(r) \/ Disconnect(r) \/ HangUp(r) PROVE Handed'
  <2>1. PICK s \in Stages, w \in Wire :
              /\ Turns(r, s, w)
              /\ s = "purge" => wire[r].state = "acked"
              /\ w.state = "acked" => w = wire[r]
    <3>1. \A w \in Wire : Following(w).state # "acked"
      BY DEF Following, Sent, Closed
    <3>2. Sent("handshake", 0).state # "acked" /\ Sent("notice", 0).state # "acked"
          /\ Closed.state # "acked"
      BY ClosedType DEF Command
    <3>3. wire[r] \in Wire
      BY WireParts DEF Inv
    <3>4. PICK s \in Stages, w \in Wire :
                 /\ Turns(r, s, w)
                 /\ \/ s = "failed" /\ w \in {wire[r], Closed}
                    \/ s = "push" /\ w = wire[r]
                    \/ s = "sending" /\ w = Sent("handshake", 0)
                    \/ s = "sending" /\ w = Sent("notice", 0)
                    \/ /\ s = IF Following(wire[r]) = Closed THEN "purge" ELSE "sending"
                       /\ w = Following(wire[r]) /\ wire[r].state = "acked"
                    \/ s = "done" /\ w = wire[r] /\ task[r].stage = "purge"
      BY <1>4, SourceTurns
    <3>5. QED
      BY <3>1, <3>2, <3>3, <3>4
  <2>2. /\ wire'[r] = w /\ task'[r].stage = s /\ task'[r].agent = task[r].agent
        /\ \A q \in Request \ {r} : task'[q] = task[q] /\ wire'[q] = wire[q]
    BY <2>1, SourceStep
  <2>3. ASSUME NEW a \in Agent, task'[r].agent = a, wire'[r].state = "acked" \/ task'[r].stage = "purge"
        PROVE  Settled(a)'
    BY <1>1, <2>1, <2>2, <2>3 DEF Handed
  <2>4. QED
    BY <1>1, <2>2, <2>3, HandedStep
<1>5. ASSUME NEW r \in Request, Handle(r) PROVE Handed'
  <2>1. UNCHANGED task /\ wire[r].cmd = "notice"
    BY <1>5, HandleParts DEF Noticed
  <2>2. HandleNotice(r)
    BY <1>5, <2>1 DEF Handle, HandleHandshake, HandlePayload, HandleCommit
  <2>3. PICK b \in Agent : b = task[r].agent
    BY <1>5, HandleParts
  <2>4. \/ Reply(r, "refused")
        \/ Reply(r, "acked") /\ \E m \in Memory : m.of = b /\ Arrives(b, m)
    BY <1>5, <2>2, <2>3, Noted
  <2>5. PICK s \in States : Reply(r, s) /\ (s = "acked" => Settled(b)')
    BY <2>4 DEF Settled, States, Arrives
  <2>6. /\ wire'[r].state = s
        /\ \A q \in Request \ {r} : wire'[q] = wire[q]
    BY <2>5, ReplyStep DEF Inv
  <2>7. ASSUME NEW a \in Agent, task'[r].agent = a, wire'[r].state = "acked" \/ task'[r].stage = "purge"
        PROVE  Settled(a)'
    BY <1>1, <2>1, <2>3, <2>5, <2>6, <2>7 DEF Handed
  <2>8. QED
    BY <1>1, <2>1, <2>6, <2>7, HandedStep
<1>6. CASE Restart
  BY <1>1, <1>6, RestartStep DEF Inv, Restart, Handed
<1>7. QED
  BY <1>2, <1>3, <1>4, <1>5, <1>6 DEF Next, Teleporting, StartRun, EndRun, Resurrect, vars

\* Somebody has the agent.
Somewhere == \A a \in Agent : source[a] # None \/ running[a] # None \/ Settled(a)

LEMMA SomewhereNext ==
    ASSUME "fork" \notin Circumstances, Inv, Noticed, Genuine, Handed, Somewhere, [Next]_vars
    PROVE  Somewhere'
<1>1. \A a \in Agent : Settled(a) => Settled(a)'
  BY SettledStays DEF Settled
<1>2. ASSUME UNCHANGED <<source, running>> PROVE Somewhere'
  BY <1>1, <1>2 DEF Somewhere
<1>3. ASSUME NEW a \in Agent, StartRun(a) PROVE Somewhere'
  <2>1. /\ source' = source /\ running'[a] = source[a] /\ source[a] # None
        /\ \A b \in Agent \ {a} : running'[b] = running[b]
    BY <1>3 DEF StartRun, Inv, TypeOK
  <2>2. QED
    BY <1>1, <2>1 DEF Somewhere
<1>4. ASSUME NEW a \in Agent, EndRun(a) PROVE Somewhere'
  <2>1. /\ source'[a] # None
        /\ \A b \in Agent \ {a} : running'[b] = running[b] /\ source'[b] = source[b]
    BY <1>4 DEF EndRun, Inv, TypeOK, None
  <2>2. QED
    BY <1>1, <2>1 DEF Somewhere
<1>5. ASSUME NEW r \in Request, Teleporting(r) \/ Disconnect(r) \/ HangUp(r) PROVE Somewhere'
  <2>1. PICK s \in Stages, w \in Wire :
           /\ UNCHANGED running
           /\ s = "done" => task[r].stage = "purge"
           /\ s # "done" => UNCHANGED source
           /\ s = "done" => source' = [source EXCEPT ![task[r].agent] = None]
    BY <1>5, SourceTurns
  <2>2. CASE s # "done"
    BY <1>2, <2>1, <2>2
  <2>3. CASE s = "done"
    <3>1. PICK b \in Agent : b = task[r].agent
      BY <2>1, <2>3, NamedParts DEF Inv, Active
    <3>2. Settled(b)
      BY <2>1, <2>3, <3>1 DEF Handed
    <3>3. \A a \in Agent \ {b} : source'[a] = source[a]
      BY <2>1, <2>3, <3>1 DEF Inv, TypeOK
    <3>4. QED
      BY <1>1, <2>1, <3>2, <3>3 DEF Somewhere
  <2>4. QED
    BY <2>2, <2>3
<1>6. QED
  BY <1>2, <1>3, <1>4, <1>5
  DEF Next, Teleporting, Capture, Handle, Resurrect, Restart, vars

\* A move through the registry loses no agent, whatever the network, the clients and the
\* executions do, unless the resurrection itself fails (teleport.rs purges the source on
\* the acknowledgement; hive.rs looks at no result of the fork).
THEOREM RegistryMovesLoseNobody ==
    ASSUME Path \subseteq {"registry"}, "fork" \notin Circumstances
    PROVE  Spec => []Survives
<1> DEFINE RInv == Inv /\ Noticed /\ Genuine /\ Handed /\ Somewhere
<1>1. Init => RInv
  <2> SUFFICES ASSUME Init PROVE Handed /\ Somewhere
    BY InvInit, NoticedInit, GenuineInit
  <2>1. Handed
    BY ClosedType DEF Init, Handed, IdleTask
  <2>2. Somewhere
    BY DEF Init, Somewhere, None
  <2>3. QED
    BY <2>1, <2>2
<1>2. RInv /\ [Next]_vars => RInv'
  BY InvNext, NoticedNext, GenuineNext, HandedNext, SomewhereNext
<1>3. RInv => Survives
  BY TeleportAssumption DEF Somewhere, Survives, Settled
<1>4. QED
  BY <1>1, <1>2, <1>3, PTL DEF Spec

-----------------------------------------------------------------------------
(***************************************************************************)
(* Transfers that nothing disturbs, on both paths.                         *)
(***************************************************************************)
QInv == Genuine /\ Alone /\ Quiet /\ Still /\ Moved

\* The step of the only request under way.
LEMMA QuietStep ==
    ASSUME Quiet, NEW r \in Request,
           \A q \in Request \ {r} : ~Active(q) /\ task'[q] = task[q] /\ wire'[q] = wire[q],
           Undisturbed(r)'
    PROVE  Alone' /\ Quiet'
<1>1. \A q \in Request \ {r} : ~Active(q)'
  BY DEF Active
<1>2. Alone'
  BY <1>1 DEF Alone
<1>3. ASSUME NEW q \in Request, q # r PROVE Undisturbed(q)'
  <2>1. ~Active(q) /\ task'[q] = task[q] /\ wire'[q] = wire[q]
    BY <1>3
  <2>2. task[q].stage \notin {"sending", "purge"} /\ wire[q] = Closed
    BY <2>1 DEF Active, Quiet, Undisturbed
  <2>3. QED
    BY <1>1, <1>3, <2>1, <2>2 DEF Undisturbed
<1>4. QED
  BY <1>2, <1>3 DEF Quiet

LEMMA StillStep ==
    ASSUME Still, NEW r \in Request, pending' = pending,
           \A q \in Request \ {r} : ~Active(q) /\ task'[q] = task[q] /\ wire'[q] = wire[q],
           task[r].stage = "sending" => task'[r].stage = "sending" \/ pending = <<>>
    PROVE  Still'
<1>1. ASSUME \A q \in Request : task'[q].stage # "sending", pending # <<>> PROVE FALSE
  <2>1. PICK q \in Request : task[q].stage = "sending"
    BY <1>1 DEF Still
  <2>2. q = r
    BY <2>1 DEF Active
  <2>3. QED
    BY <1>1, <2>1, <2>2
<1>2. QED
  BY <1>1 DEF Still

\* Nothing arrives and nothing leaves; what is about to leave still is.
LEMMA MovedStep ==
    ASSUME Moved, NEW r \in Request, UNCHANGED <<source, running, runs>>,
           \A q \in Request \ {r} : ~Active(q),
           \A a \in Agent : Arrived(a)' = Arrived(a),
           Final(r) => Final(r)' /\ task'[r].agent = task[r].agent
    PROVE  Moved'
<1>1. \A q \in Request : Final(q) => q = r
  BY DEF Final, Active
<1>2. \A a \in Agent : (\E q \in Request : Final(q) /\ task[q].agent = a)
                          => (\E q \in Request : Final(q) /\ task[q].agent = a)'
  <2> SUFFICES ASSUME NEW a \in Agent, NEW q \in Request, Final(q), task[q].agent = a
               PROVE  Final(r)' /\ task'[r].agent = a
    OBVIOUS
  <2>1. QED
    BY <1>1
<1>3. QED
  BY <1>2 DEF Moved

\* The memory of the only request under way arrives.
LEMMA MovedArrives ==
    ASSUME Moved, NEW r \in Request, UNCHANGED <<source, running, runs>>,
           \A q \in Request \ {r} : ~Active(q), ~Final(r),
           NEW b \in Agent, NEW m, Arrives(b, m), Final(r)', task'[r].agent = b
    PROVE  Moved'
<1>1. \A q \in Request : ~Final(q)
  BY DEF Final, Active
<1>2. ASSUME NEW a \in Agent, source[a] # None, Arrived(a)' # {} PROVE a = b
  BY <1>1, <1>2 DEF Moved, Arrives
<1>3. \A a \in Agent : Arrived(a) \subseteq Arrived(a)'
  BY DEF Arrives
<1>4. \A a \in Agent : /\ source[a] \in {None, runs[a]}
                       /\ source[a] = None => running[a] = None /\ [of |-> a, n |-> runs[a]] \in Arrived(a)'
  BY <1>3 DEF Moved
<1>5. \A a \in Agent : Arrived(a)' # {}
                          => source[a] = None \/ (\E q \in Request : Final(q) /\ task[q].agent = a)'
  BY <1>2
<1>6. QED
  BY <1>4, <1>5 DEF Moved

LEMMA QuietInit == Init => QInv
<1> SUFFICES ASSUME Init PROVE QInv
  OBVIOUS
<1>1. \A r \in Request : task[r].stage = "idle" /\ wire[r] = Closed
  BY DEF Init, IdleTask
<1>2. \A a \in Agent : Arrived(a) = {} /\ source[a] = 1 /\ runs[a] = 1
  BY DEF Init, Arrived
<1>3. Alone /\ Quiet
  BY <1>1 DEF Alone, Quiet, Undisturbed, Active
<1>4. Moved
  BY <1>2 DEF Moved, None
<1>5. Still
  BY DEF Init, Still
<1>6. QED
  BY <1>3, <1>4, <1>5, GenuineInit DEF QInv

LEMMA QuietStartRun ==
    ASSUME Circumstances = {}, Inv, QInv, NEW a \in Agent, StartRun(a)
    PROVE  QInv'
<1>1. /\ source[a] # None /\ \A q \in Request : ~Active(q)
      /\ running' = [running EXCEPT ![a] = source[a]]
      /\ UNCHANGED <<source, runs, task, wire, tag, pending, forks, target>>
  BY DEF StartRun, Active
<1>2. \A b \in Agent : Arrived(b)' = Arrived(b)
  BY <1>1, ArrivedStays
<1>3. Genuine' /\ Alone' /\ Still'
  BY <1>1, <1>2 DEF QInv, Genuine, Alone, Active, Still
<1>4. Quiet'
  <2> SUFFICES ASSUME NEW r \in Request PROVE Undisturbed(r)'
    BY DEF Quiet
  <2>1. task'[r] = task[r] /\ wire'[r] = wire[r] /\ ~Active(r) /\ Undisturbed(r)
    BY <1>1 DEF QInv, Quiet
  <2>2. QED
    BY <2>1 DEF Undisturbed, Active
<1>5. \A b \in Agent : b = a \/ running'[b] = running[b]
  BY <1>1 DEF Inv, TypeOK
<1>6. Moved'
  <2>1. \A q \in Request : ~Final(q) 
    BY <1>1 DEF Final, Active
  <2>2. QED
    BY <1>1, <1>2, <1>5, <2>1 DEF QInv, Moved
<1>7. QED
  BY <1>3, <1>4, <1>6 DEF QInv

LEMMA QuietEndRun ==
    ASSUME Inv, QInv, NEW a \in Agent, EndRun(a)
    PROVE  QInv'
<1>1. /\ running[a] # None /\ runs[a] \in Nat
      /\ source'[a] = runs[a] + 1 /\ runs'[a] = runs[a] + 1
      /\ \A b \in Agent \ {a} : source'[b] = source[b] /\ runs'[b] = runs[b] /\ running'[b] = running[b]
      /\ UNCHANGED <<task, wire, tag, pending, forks, target>>
  BY DEF EndRun, Inv, TypeOK
<1>2. \A b \in Agent : Arrived(b)' = Arrived(b)
  BY <1>1, ArrivedStays
<1>3. Genuine' /\ Alone' /\ Still'
  BY <1>1, <1>2 DEF QInv, Genuine, Alone, Active, Still
<1>4. ASSUME NEW r \in Request, Active(r) PROVE task[r].agent \in Agent \ {a}
  BY <1>1, <1>4, NamedParts DEF Inv, QInv, Quiet, Undisturbed
<1>5. Quiet'
  <2> SUFFICES ASSUME NEW r \in Request PROVE Undisturbed(r)'
    BY DEF Quiet
  <2>1. PICK b : b = task[r].agent
    OBVIOUS
  <2>2. task'[r] = task[r] /\ wire'[r] = wire[r] /\ (Active(r) => b \in Agent \ {a}) /\ Undisturbed(r)
    BY <1>1, <1>4, <2>1 DEF QInv, Quiet
  <2>3. task[r].stage \in {"sending", "purge"} => Arrived(b)' = Arrived(b)
    BY <1>2, <2>2 DEF Active
  <2>4. OnTheWay(r) /\ task[r].stage = "sending" => OnTheWay(r)'
    BY <1>1, <2>1, <2>2, <2>3 DEF OnTheWay, Collected, Delivered, MemoryOf
  <2>5. task[r].stage = "purge" /\ Delivered(r) => Delivered(r)'
    BY <2>1, <2>2, <2>3 DEF Delivered, MemoryOf
  <2>6. Active(r) => /\ source'[b] = task[r].n /\ running'[b] = None
    BY <1>1, <2>1, <2>2 DEF Undisturbed
  <2>7. QED
    BY <2>1, <2>2, <2>4, <2>5, <2>6 DEF Undisturbed, Active
<1>6. Moved'
  <2>1. Arrived(a) = {}
    <3>1. source[a] # None
      BY <1>1 DEF QInv, Moved
    <3>2. \A r \in Request : ~(Final(r) /\ task[r].agent = a)
      BY <1>4 DEF Final, Active
    <3>3. QED
      BY <3>1, <3>2 DEF QInv, Moved
  <2>2. source'[a] \in {None, runs'[a]} /\ source'[a] # None /\ Arrived(a)' = {}
    BY <1>1, <1>2, <2>1 DEF None
  <2>3. \A r \in Request : Final(r)' <=> Final(r)
    BY <1>1 DEF Final
  <2>4. QED
    BY <1>1, <1>2, <2>2, <2>3 DEF QInv, Moved
<1>7. QED
  BY <1>3, <1>5, <1>6 DEF QInv

LEMMA QuietCapture ==
    ASSUME Circumstances = {}, Inv, QInv, NEW r \in Request, Capture(r)
    PROVE  QInv'
<1>1. \A q \in Request : ~Active(q)
  BY DEF Capture, Idle, Active
<1>2. /\ UNCHANGED <<source, running, runs, wire, tag, pending, forks, target>>
      /\ wire[r] = Closed /\ \A q \in Request \ {r} : task'[q] = task[q]
  BY CaptureStep
<1>3. PICK a \in Agent : task'[r].agent = a
  BY CaptureStep
<1>4. task'[r].n = source[a] /\ task'[r].stage \in {"failed", "captured"}
  BY <1>3, CaptureStep
<1>5. running[a] = None
  <2>1. PICK b \in Agent, p \in Path :
           /\ running[b] = None
           /\ task' = [task EXCEPT ![r] = [stage |-> IF source[b] = None THEN "failed" ELSE "captured",
                                           path |-> p, agent |-> b, n |-> source[b]]]
    BY DEF Capture
  <2>2. task'[r] = [stage |-> IF source[b] = None THEN "failed" ELSE "captured",
                    path |-> p, agent |-> b, n |-> source[b]]
    BY <2>1 DEF Inv, TypeOK
  <2>3. task'[r].agent = b
    BY <2>2
  <2>4. QED
    BY <1>3, <2>1, <2>3
<1>6. Undisturbed(r)'
  BY <1>2, <1>3, <1>4, <1>5 DEF Undisturbed
<1>7. Alone' /\ Quiet'
  BY <1>1, <1>2, <1>6, QuietStep DEF QInv
<1>8. Still'
  BY <1>1, <1>2, StillStep DEF QInv, Active
<1>9. \A b \in Agent : Arrived(b)' = Arrived(b)
  BY <1>2, ArrivedStays
<1>10. Genuine'
  BY <1>9 DEF QInv, Genuine
<1>11. ~Final(r)
  BY <1>1 DEF Final, Active
<1>12. Moved'
  BY <1>1, <1>2, <1>9, <1>11, MovedStep DEF QInv
<1>13. QED
  BY <1>7, <1>8, <1>10, <1>12 DEF QInv

\* The request under way is the only one; its agent waits at the source.
LEMMA OnlyOne ==
    ASSUME Inv, QInv, NEW r \in Request, Active(r)
    PROVE  /\ \A q \in Request \ {r} : ~Active(q) /\ wire[q] = Closed
           /\ task[r].agent \in Agent /\ MemoryOf(r) \in Memory /\ task[r].n \in Nat \ {0}
           /\ source[task[r].agent] = task[r].n /\ running[task[r].agent] = None
           /\ Undisturbed(r)
<1>1. Undisturbed(r) /\ \A q \in Request \ {r} : ~Active(q)
  BY DEF QInv, Alone, Quiet
<1>2. \A q \in Request \ {r} : wire[q] = Closed
  BY <1>1 DEF QInv, Quiet, Undisturbed, Active
<1>3. QED
  BY <1>1, <1>2, NamedParts DEF Inv, Undisturbed

\* A step at the source that neither moves nor deregisters the agent.
LEMMA QuietTurn ==
    ASSUME Inv, QInv, NEW r \in Request, NEW s, NEW w, Turns(r, s, w),
           UNCHANGED <<source, running, runs, pending, forks, target>>,
           Undisturbed(r)', Final(r) => Final(r)',
           task[r].stage = "sending" => s = "sending" \/ pending = <<>>
    PROVE  QInv'
<1>1. Active(r)
  BY DEF Turns
<1>2. \A q \in Request \ {r} : ~Active(q)
  BY <1>1, OnlyOne
<1>3. /\ task'[r].stage = s /\ task'[r].agent = task[r].agent
      /\ \A q \in Request \ {r} : task'[q] = task[q] /\ wire'[q] = wire[q]
  BY SourceStep
<1>4. Alone' /\ Quiet'
  BY <1>2, <1>3, QuietStep DEF QInv
<1>5. Still'
  BY <1>2, <1>3, StillStep DEF QInv
<1>6. \A b \in Agent : Arrived(b)' = Arrived(b)
  BY ArrivedStays
<1>7. Genuine'
  BY <1>6 DEF QInv, Genuine
<1>8. Moved'
  BY <1>2, <1>3, <1>6, MovedStep DEF QInv
<1>9. QED
  BY <1>4, <1>5, <1>7, <1>8 DEF QInv

LEMMA NobodySends ==
    ASSUME Inv, QInv, NEW r \in Request, Active(r), task[r].stage # "sending"
    PROVE  pending = <<>>
BY OnlyOne DEF QInv, Still, Active

LEMMA QuietCheck ==
    ASSUME Inv, QInv, NEW r \in Request, Check(r)
    PROVE  QInv'
<1>1. /\ task[r].stage = "captured" /\ Active(r) /\ ~Final(r)
      /\ UNCHANGED <<source, running, runs, pending, forks, target>>
  BY DEF Check, Active, Final
<1>2. pending = <<>> /\ wire[r] = Closed
  BY <1>1, NobodySends, OnlyOne DEF Undisturbed
<1>3. PICK s \in Stages, w \in Wire :
         /\ Turns(r, s, w)
         /\ \/ s \in {"failed", "push"} /\ w = wire[r]
            \/ s = "sending" /\ w = Sent("handshake", 0)
  <2>1. Teleporting(r)
    BY DEF Teleporting
  <2>2. PICK s \in Stages, w \in Wire :
           /\ Turns(r, s, w)
           /\ \/ s = "failed" /\ w \in {wire[r], Closed}
              \/ s = "push" /\ w = wire[r]
              \/ s = "sending" /\ w = Sent("handshake", 0)
              \/ s = "sending" /\ w = Sent("notice", 0) /\ task[r].stage = "push"
              \/ wire[r].state = "acked"
              \/ s = "done" /\ w = wire[r] /\ task[r].stage = "purge"
    BY <2>1, SourceTurns
  <2>3. QED
    BY <1>1, <1>2, <2>2, ClosedType
<1>4. PICK a : task[r].agent = a
  OBVIOUS
<1>5. /\ task'[r].stage = s /\ task'[r].agent = a /\ task'[r].n = task[r].n /\ wire'[r] = w
  BY <1>3, <1>4, SourceStep
<1>6. source[a] = task[r].n /\ running[a] = None
  BY <1>1, <1>4, OnlyOne
<1>7. Undisturbed(r)'
  <2>1. Active(r)' => source'[a] = task'[r].n /\ running'[a] = None
    BY <1>1, <1>5, <1>6
  <2>2. s = "sending" => OnTheWay(r)'
    BY <1>1, <1>2, <1>3, <1>5 DEF OnTheWay, Sent
  <2>3. s # "sending" => wire'[r] = Closed
    BY <1>2, <1>3, <1>5
  <2>4. QED
    BY <1>3, <1>5, <2>1, <2>2, <2>3 DEF Undisturbed
<1>8. QED
  BY <1>1, <1>3, <1>7, QuietTurn

LEMMA QuietPush ==
    ASSUME Circumstances = {}, Inv, QInv, NEW r \in Request, Push(r)
    PROVE  QInv'
<1>1. /\ task[r].stage = "push" /\ Active(r) /\ ~Final(r)
      /\ UNCHANGED <<source, running, runs, pending, forks, target>>
      /\ task' = [task EXCEPT ![r].stage = "sending"]
      /\ wire' = [wire EXCEPT ![r] = Sent("notice", 0)]
      /\ tag' = [tag EXCEPT ![task[r].agent] = task[r].n]
  BY DEF Push, Active, Final
<1>2. pending = <<>>
  BY <1>1, NobodySends
<1>3. Turns(r, "sending", Sent("notice", 0))
  BY <1>1, ClosedType DEF Turns, Stages, Command
<1>4. PICK a \in Agent : task[r].agent = a
  BY <1>1, OnlyOne
<1>5. /\ task'[r].stage = "sending" /\ task'[r].agent = a /\ task'[r].n = task[r].n
      /\ wire'[r] = Sent("notice", 0)
  BY <1>3, <1>4, SourceStep
<1>6. source[a] = task[r].n /\ running[a] = None
  BY <1>1, <1>4, OnlyOne
<1>7. tag'[a] = task[r].n
  BY <1>1, <1>4 DEF Inv, TypeOK
<1>8. OnTheWay(r)'
  BY <1>1, <1>2, <1>5, <1>7 DEF OnTheWay
<1>9. Undisturbed(r)'
  BY <1>1, <1>5, <1>6, <1>8 DEF Undisturbed
<1>10. QED
  BY <1>1, <1>3, <1>9, QuietTurn

\* The answers r may have got, and what the target has then.
LEMMA Answers ==
    ASSUME NEW r \in Request, OnTheWay(r), wire[r].state # "sent"
    PROVE  \/ wire[r] = [Sent("handshake", 0) EXCEPT !.state = "acked"] /\ Collected(r, 0)
           \/ \E k \in 0..Chunks - 1 :
                 wire[r] = [Sent("payload", k) EXCEPT !.state = "acked"] /\ Collected(r, k + 1)
           \/ /\ wire[r].cmd \in {"commit", "notice"} /\ wire[r].state = "acked"
              /\ pending = <<>> /\ Delivered(r)
<1>1. \A c, k : Sent(c, k).state = "sent"
  BY DEF Sent
<1>2. QED
  BY <1>1 DEF OnTheWay

LEMMA QuietAcked ==
    ASSUME Inv, QInv, NEW r \in Request, Acked(r)
    PROVE  QInv'
<1>1. /\ task[r].stage = "sending" /\ Active(r) /\ wire[r].state = "acked" /\ wire[r] \in Wire
      /\ UNCHANGED <<source, running, runs, tag, pending, forks, target>>
  BY WireParts DEF Acked, Active, Inv
<1>2. PICK w \in Wire : w = Following(wire[r])
  BY <1>1, FollowingType
<1>3. PICK s \in {"purge", "sending"} : s = IF w = Closed THEN "purge" ELSE "sending"
  OBVIOUS
<1>4. Turns(r, s, w)
  BY <1>1, <1>2, <1>3 DEF Acked, Turns, Stages
<1>5. PICK a \in Agent, n \in Nat : task[r].agent = a /\ task[r].n = n
  BY <1>1, OnlyOne
<1>6. /\ task'[r].stage = s /\ task'[r].agent = a /\ task'[r].n = n
      /\ wire'[r] = w /\ MemoryOf(r)' = MemoryOf(r)
  BY <1>4, <1>5, SourceStep
<1>7. source'[a] = n /\ running'[a] = None
  BY <1>1, <1>5, OnlyOne
<1>8. ASSUME NEW k, Collected(r, k) PROVE Collected(r, k)'
  BY <1>1, <1>5, <1>6, <1>8 DEF Collected
<1>9. Closed # Sent("payload", 0) /\ Closed # Sent("commit", 0)
      /\ \A k : Closed # Sent("payload", k)
  BY DEF Closed, Sent
<1>10. CASE wire[r] = [Sent("handshake", 0) EXCEPT !.state = "acked"] /\ Collected(r, 0)
  <2>1. wire[r].cmd = "handshake"
    BY <1>10 DEF Sent
  <2>2. w = Sent("payload", 0) /\ s = "sending" /\ 0 \in 0..Chunks - 1
    BY <1>1, <1>2, <1>3, <1>9, <2>1, FollowingType, ClosedType
  <2>3. OnTheWay(r)'
    BY <1>6, <1>8, <1>10, <2>2 DEF OnTheWay
  <2>4. Undisturbed(r)' /\ ~Final(r)
    BY <1>6, <1>7, <2>1, <2>2, <2>3, <1>1 DEF Undisturbed, Final
  <2>5. QED
    BY <1>1, <1>4, <2>2, <2>4, QuietTurn
<1>11. ASSUME NEW k \in 0..Chunks - 1,
              wire[r] = [Sent("payload", k) EXCEPT !.state = "acked"], Collected(r, k + 1)
       PROVE  QInv'
  <2>1. wire[r].cmd = "payload" /\ wire[r].seq = k
    BY <1>11 DEF Sent
  <2>2. CASE k + 1 < Chunks
    <3>1. PICK l \in 0..Chunks - 1 : l = k + 1
      BY <2>2, ClosedType
    <3>2. w = Sent("payload", l) /\ s = "sending"
      BY <1>1, <1>2, <1>3, <1>9, <2>1, <2>2, <3>1, FollowingType
    <3>3. OnTheWay(r)'
      BY <1>6, <1>8, <1>11, <3>1, <3>2 DEF OnTheWay
    <3>4. Undisturbed(r)' /\ ~Final(r)
      BY <1>1, <1>6, <1>7, <2>1, <3>2, <3>3 DEF Undisturbed, Final
    <3>5. QED
      BY <1>1, <1>4, <3>2, <3>4, QuietTurn
  <2>3. CASE k + 1 >= Chunks
    <3>1. k + 1 = Chunks
      BY <2>3, ClosedType
    <3>2. w = Sent("commit", 0) /\ s = "sending"
      BY <1>1, <1>2, <1>3, <1>9, <2>1, <2>3, FollowingType
    <3>3. OnTheWay(r)'
      BY <1>6, <1>8, <1>11, <3>1, <3>2 DEF OnTheWay
    <3>4. Undisturbed(r)' /\ ~Final(r)
      BY <1>1, <1>6, <1>7, <2>1, <3>2, <3>3 DEF Undisturbed, Final
    <3>5. QED
      BY <1>1, <1>4, <3>2, <3>4, QuietTurn
  <2>4. QED
    BY <2>2, <2>3, ClosedType
<1>12. CASE /\ wire[r].cmd \in {"commit", "notice"} /\ wire[r].state = "acked"
            /\ pending = <<>> /\ Delivered(r)
  <2>1. w = Closed /\ s = "purge"
    BY <1>1, <1>2, <1>3, <1>12, FollowingType
  <2>2. Delivered(r)'
    <3>1. Arrived(a)' = Arrived(a)
      BY <1>1, ArrivedStays
    <3>2. QED
      BY <1>5, <1>6, <1>12, <3>1 DEF Delivered
  <2>3. Undisturbed(r)' /\ Final(r)'
    BY <1>6, <1>7, <2>1, <2>2 DEF Undisturbed, Final
  <2>4. QED
    BY <1>1, <1>4, <1>12, <2>3, QuietTurn
<1>13. OnTheWay(r)
  BY <1>1, OnlyOne DEF Undisturbed
<1>14. QED
  BY <1>1, <1>10, <1>11, <1>12, <1>13, Answers

LEMMA QuietRefused ==
    ASSUME Inv, QInv, NEW r \in Request, Refused(r)
    PROVE  FALSE
<1>1. Active(r) /\ task[r].stage = "sending" /\ wire[r].state = "refused"
  BY DEF Refused, Active
<1>2. OnTheWay(r)
  BY <1>1, OnlyOne DEF Undisturbed
<1>3. \A c, k : [Sent(c, k) EXCEPT !.state = "acked"].state = "acked"
  BY DEF Sent
<1>4. QED
  BY <1>1, <1>2, <1>3, Answers

LEMMA QuietPurge ==
    ASSUME Inv, QInv, NEW r \in Request, Purge(r)
    PROVE  QInv'
<1>1. /\ task[r].stage = "purge" /\ Active(r)
      /\ source' = [source EXCEPT ![task[r].agent] = None]
      /\ task' = [task EXCEPT ![r].stage = "done"]
      /\ UNCHANGED <<running, runs, wire, tag, pending, forks, target>>
  BY DEF Purge, Active
<1>2. PICK a \in Agent, n \in Nat \ {0} : task[r].agent = a /\ task[r].n = n
  BY <1>1, OnlyOne
<1>3. /\ source[a] = n /\ running[a] = None /\ wire[r] = Closed /\ pending = <<>>
      /\ \A q \in Request \ {r} : ~Active(q)
      /\ [of |-> a, n |-> n] \in Arrived(a)
  BY <1>1, <1>2, OnlyOne, NobodySends DEF Undisturbed, Delivered, MemoryOf
<1>4. /\ task'[r].stage = "done"
      /\ \A q \in Request \ {r} : task'[q] = task[q] /\ wire'[q] = wire[q]
  BY <1>1, TaskStep DEF Inv, Stages
<1>5. Undisturbed(r)'
  BY <1>1, <1>3, <1>4 DEF Undisturbed, Active
<1>6. Alone' /\ Quiet'
  BY <1>3, <1>4, <1>5, QuietStep DEF QInv
<1>7. Still'
  BY <1>1, <1>3 DEF Still
<1>8. \A b \in Agent : Arrived(b)' = Arrived(b)
  BY <1>1, ArrivedStays
<1>9. Genuine'
  BY <1>8 DEF QInv, Genuine
<1>10. n = runs[a]
  BY <1>3 DEF QInv, Moved, None
<1>11. source'[a] = None /\ \A b \in Agent \ {a} : source'[b] = source[b]
  BY <1>1, <1>2 DEF Inv, TypeOK
<1>12. ASSUME NEW b \in Agent, b # a, Arrived(b) # {} PROVE source[b] = None
  <2>1. ASSUME NEW q \in Request, Final(q), task[q].agent = b PROVE FALSE
    BY <1>2, <1>3, <1>12, <2>1 DEF Final, Active
  <2>2. QED
    BY <1>12, <2>1 DEF QInv, Moved
<1>13. Moved'
  BY <1>1, <1>3, <1>8, <1>10, <1>11, <1>12 DEF QInv, Moved
<1>14. QED
  BY <1>6, <1>7, <1>9, <1>13 DEF QInv

\* The chunks of one memory decode to it.
LEMMA DecodedWhole ==
    ASSUME NEW m, NEW s, Len(s) = Chunks, \A i \in 1..Chunks : s[i] = [seq |-> i - 1, mem |-> m]
    PROVE  Decoded(s) = {m}
<1>1. Chunks \in Nat \ {0}
  BY TeleportAssumption
<1>2. \A i \in 1..Len(s) : s[i].seq = i - 1 /\ s[i].mem = m
  OBVIOUS
<1>3. {s[i].mem : i \in 1..Len(s)} = {m}
  <2>1. 1 \in 1..Len(s)
    BY <1>1
  <2>2. QED
    BY <1>2, <2>1
<1>4. ASSUME NEW k \in 0..(Chunks - 1) PROVE k + 1 \in 1..Len(s) /\ Numbered(s, k) = {k + 1}
  <2>1. \A i \in 1..Len(s) : s[i].seq = k <=> i = k + 1
    BY <1>1, <1>2
  <2>2. k + 1 \in 1..Len(s)
    BY <1>1
  <2>3. QED
    BY <2>1, <2>2 DEF Numbered
<1>5. \A k \in 0..(Chunks - 2) : \E i \in 1..Len(s) : Numbered(s, k) = {i} /\ s[i].mem = m
  <2> SUFFICES ASSUME NEW k \in 0..(Chunks - 2)
               PROVE  \E i \in 1..Len(s) : Numbered(s, k) = {i} /\ s[i].mem = m
    OBVIOUS
  <2>1. k \in 0..(Chunks - 1)
    BY <1>1
  <2>2. k + 1 \in 1..Len(s) /\ Numbered(s, k) = {k + 1}
    BY <1>4, <2>1
  <2>3. QED
    BY <1>2, <2>2
<1>6. \E i \in Numbered(s, Chunks - 1) :
         s[i].mem = m /\ \A j \in Numbered(s, Chunks - 1) : i <= j
  <2>1. PICK k \in 0..(Chunks - 1) : k = Chunks - 1
    BY <1>1
  <2>2. PICK i \in 1..Len(s) : Numbered(s, k) = {i}
    BY <1>4
  <2>3. s[i].mem = m /\ i <= i
    BY <1>2
  <2>4. QED
    BY <2>1, <2>2, <2>3
<1>7. StartsWith(s, m)
  BY <1>5, <1>6 DEF StartsWith
<1>8. QED
  BY <1>3, <1>7 DEF Decoded

\* The target answers the only request under way, and the agent does not arrive yet.
LEMMA QuietAnswer ==
    ASSUME Inv, QInv, NEW r \in Request, Handle(r), UNCHANGED forks,
           \A q \in Request \ {r} : wire'[q] = wire[q],
           OnTheWay(r)', ~Final(r)
    PROVE  QInv'
<1>1. /\ UNCHANGED <<source, running, runs, task, tag, target>> /\ wire[r].state = "sent"
  BY HandleParts
<1>2. task[r].stage = "sending"
  BY <1>1, ClosedType DEF QInv, Quiet, Undisturbed
<1>3. PICK a \in Agent : task[r].agent = a
  BY HandleParts
<1>4. /\ \A q \in Request \ {r} : ~Active(q) /\ task'[q] = task[q] /\ wire'[q] = wire[q]
      /\ source[a] = task[r].n /\ running[a] = None
  BY <1>1, <1>2, <1>3, OnlyOne DEF Active
<1>5. Undisturbed(r)'
  BY <1>1, <1>2, <1>3, <1>4 DEF Undisturbed
<1>6. Alone' /\ Quiet'
  BY <1>4, <1>5, QuietStep DEF QInv
<1>7. Still'
  BY <1>1, <1>2 DEF Still
<1>8. \A b \in Agent : Arrived(b)' = Arrived(b)
  BY <1>1, ArrivedStays
<1>9. Genuine'
  BY <1>8 DEF QInv, Genuine
<1>10. Moved'
  BY <1>1, <1>4, <1>8, MovedStep DEF QInv
<1>11. QED
  BY <1>6, <1>7, <1>9, <1>10 DEF QInv

\* The target answers it and has the agent's memory.
LEMMA QuietArrival ==
    ASSUME Inv, QInv, NEW r \in Request, Handle(r), pending' = <<>>,
           \A q \in Request \ {r} : wire'[q] = wire[q],
           wire'[r].cmd \in {"commit", "notice"}, wire'[r].state = "acked",
           NEW a \in Agent, NEW m \in Memory, task[r].agent = a, m = MemoryOf(r), Arrives(a, m)
    PROVE  QInv'
<1>1. /\ UNCHANGED <<source, running, runs, task, tag, target>> /\ wire[r].state = "sent"
  BY HandleParts
<1>2. task[r].stage = "sending" /\ ~Final(r)
  BY <1>1, ClosedType DEF QInv, Quiet, Undisturbed, Final
<1>3. /\ \A q \in Request \ {r} : ~Active(q) /\ task'[q] = task[q] /\ wire'[q] = wire[q]
      /\ source[a] = task[r].n /\ running[a] = None
  BY <1>1, <1>2, OnlyOne DEF Active
<1>4. MemoryOf(r)' = m /\ m.of = a /\ Delivered(r)'
  <2>1. MemoryOf(r)' = m /\ m.of = a
    BY <1>1 DEF MemoryOf
  <2>2. m \in Arrived(a)' /\ task'[r].agent = a
    BY <1>1 DEF Arrives
  <2>3. QED
    BY <2>1, <2>2 DEF Delivered
<1>5. OnTheWay(r)'
  BY <1>4 DEF OnTheWay
<1>6. Undisturbed(r)' /\ Final(r)'
  BY <1>1, <1>2, <1>3, <1>5 DEF Undisturbed, Final
<1>7. Alone' /\ Quiet'
  BY <1>3, <1>6, QuietStep DEF QInv
<1>8. Still'
  BY DEF Still
<1>9. Genuine'
  BY <1>4 DEF QInv, Genuine, Arrives
<1>10. Moved'
  BY <1>1, <1>2, <1>3, <1>6, MovedArrives DEF QInv
<1>11. QED
  BY <1>7, <1>8, <1>9, <1>10 DEF QInv

\* What a command that r has sent finds at the target.
LEMMA Commands ==
    ASSUME Inv, QInv, NEW r \in Request, wire[r].state = "sent"
    PROVE  \/ wire[r] = Sent("handshake", 0) /\ pending = <<>>
           \/ \E k \in 0..Chunks - 1 : wire[r] = Sent("payload", k) /\ Collected(r, k)
           \/ wire[r] = Sent("commit", 0) /\ Collected(r, Chunks)
           \/ wire[r] = Sent("notice", 0) /\ pending = <<>> /\ tag[task[r].agent] = task[r].n
<1>1. OnTheWay(r)
  BY ClosedType DEF QInv, Quiet, Undisturbed
<1>2. \A c, k : [Sent(c, k) EXCEPT !.state = "acked"].state = "acked"
  BY DEF Sent
<1>3. QED
  BY <1>1, <1>2 DEF OnTheWay

LEMMA SentFields == \A c, k : /\ Sent(c, k).cmd = c /\ Sent(c, k).seq = k
                              /\ Sent(c, k).state = "sent"
BY DEF Sent

LEMMA NotFinal ==
    ASSUME QInv, NEW r \in Request, wire[r].state = "sent"
    PROVE  ~Final(r)
BY ClosedType DEF QInv, Quiet, Undisturbed, Final

LEMMA OneEntry ==
    ASSUME pending \in Seq(Entry), Len(pending) = 1
    PROVE  pending # <<>> /\ Head(pending) = pending[1] /\ Tail(pending) = <<>>
<1>1. pending # <<>>
  <2>1. Len(<<>>) = 0
    OBVIOUS
  <2>2. SUFFICES ASSUME pending = <<>> PROVE FALSE
    OBVIOUS
  <2>3. Len(pending) = 0
    BY <2>1, <2>2
  <2>4. QED
    BY <2>3
<1>2. Tail(pending) \in Seq(Entry) /\ Len(Tail(pending)) = 0 /\ Head(pending) = pending[1]
  BY <1>1
<1>3. \A s \in Seq(Entry) : Len(s) = 0 => s = <<>>
  OBVIOUS
<1>4. QED
  BY <1>1, <1>2, <1>3

LEMMA QuietHandshake ==
    ASSUME Inv, QInv, NEW r \in Request, Handle(r), HandleHandshake(r)
    PROVE  QInv'
<1>1. wire[r].cmd = "handshake" /\ wire[r].state = "sent"
  BY HandleParts DEF HandleHandshake
<1>2. wire[r] = Sent("handshake", 0) /\ pending = <<>> /\ ~Final(r)
  BY <1>1, Commands, SentFields, NotFinal DEF QInv
<1>3. PICK a \in Agent : task[r].agent = a
  BY HandleParts
<1>4. PICK e : e = [agent |-> a, chunks |-> <<>>]
  OBVIOUS
<1>5. e \in Entry
  <2>1. <<>> \in Seq(Chunk)
    OBVIOUS
  <2>2. QED
    BY <1>4, <2>1 DEF Entry
<1>6. PICK p \in Inserted(e) : pending' = p
  BY <1>3, <1>4 DEF HandleHandshake
<1>7. Len(p) = 1 /\ p[1] = e
  BY <1>2, <1>5, <1>6, InsertedType DEF Inv
<1>8. UNCHANGED <<task, forks>> /\ e.agent = a /\ Len(e.chunks) = 0
  BY <1>4, HandleParts DEF HandleHandshake
<1>9. Collected(r, 0)'
  BY <1>3, <1>6, <1>7, <1>8 DEF Collected
<1>10. /\ wire'[r] = [wire[r] EXCEPT !.state = "acked"]
       /\ \A q \in Request \ {r} : wire'[q] = wire[q]
  BY ReplyStep DEF HandleHandshake, States, Inv
<1>11. OnTheWay(r)'
  BY <1>2, <1>9, <1>10 DEF OnTheWay
<1>12. QED
  BY <1>2, <1>8, <1>10, <1>11, QuietAnswer

LEMMA QuietPayload ==
    ASSUME Inv, QInv, NEW r \in Request, Handle(r), HandlePayload(r)
    PROVE  QInv'
<1>1. wire[r].cmd = "payload" /\ wire[r].state = "sent"
  BY HandleParts DEF HandlePayload
<1>2. PICK k \in 0..Chunks - 1 : wire[r] = Sent("payload", k) /\ Collected(r, k)
  BY <1>1, Commands, SentFields
<1>3. wire[r].seq = k /\ ~Final(r) /\ k \in Nat
  BY <1>1, <1>2, ClosedType, SentFields, NotFinal
<1>4. PICK a \in Agent, m \in Memory : task[r].agent = a /\ MemoryOf(r) = m
  BY HandleParts
<1>5. PICK c \in Chunk : c = [seq |-> k, mem |-> m]
  BY <1>3, <1>4, HandleParts
<1>6. Len(pending) = 1 /\ pending[1].agent = a /\ Len(pending[1].chunks) = k
      /\ \A i \in 1..k : pending[1].chunks[i] = [seq |-> i - 1, mem |-> m]
  BY <1>2, <1>4 DEF Collected
<1>7. pending # <<>> /\ pending' = [pending EXCEPT ![Len(pending)].chunks = Append(@, c)]
  <2>1. pending \in Seq(Entry)
    BY DEF Inv, TypeOK, Entry
  <2>2. pending # <<>>
    BY <1>6, <2>1, OneEntry
  <2>3. QED
    BY <1>3, <1>4, <1>5, <2>2 DEF HandlePayload
<1>8. /\ Len(pending') = 1 /\ pending'[1].agent = a
      /\ pending'[1].chunks = Append(pending[1].chunks, c)
      /\ pending[1].chunks \in Seq(Chunk)
  BY <1>6, <1>7, PayloadType DEF Inv
<1>9. PICK s \in Seq(Chunk) : s = pending[1].chunks
  BY <1>8
<1>10. Len(Append(s, c)) = k + 1 /\ \A i \in 1..k + 1 : Append(s, c)[i] = [seq |-> i - 1, mem |-> m]
  <2>1. Len(s) = k /\ \A i \in 1..k : s[i] = [seq |-> i - 1, mem |-> m]
    BY <1>6, <1>9
  <2>2. Len(Append(s, c)) = k + 1 /\ Append(s, c)[k + 1] = c
        /\ \A i \in 1..k : Append(s, c)[i] = s[i]
    BY <1>3, <1>9, <2>1
  <2>3. \A i \in 1..k + 1 : i \in 1..k \/ i = k + 1
    BY <1>3
  <2>4. (k + 1) - 1 = k
    BY <1>3
  <2>5. QED
    BY <1>5, <2>1, <2>2, <2>3, <2>4
<1>11. UNCHANGED <<task, forks>> /\ MemoryOf(r)' = m
  BY <1>4, HandleParts DEF HandlePayload, MemoryOf
<1>12. Collected(r, k + 1)'
  <2>1. task'[r].agent = a /\ pending'[1].chunks = Append(s, c)
    BY <1>4, <1>8, <1>9, <1>11
  <2>2. QED
    BY <1>8, <1>10, <1>11, <2>1 DEF Collected
<1>13. /\ wire'[r] = [wire[r] EXCEPT !.state = "acked"]
       /\ \A q \in Request \ {r} : wire'[q] = wire[q]
  BY ReplyStep DEF HandlePayload, States, Inv
<1>14. OnTheWay(r)'
  BY <1>2, <1>12, <1>13 DEF OnTheWay
<1>15. QED
  BY <1>3, <1>11, <1>13, <1>14, QuietAnswer

LEMMA QuietCommit ==
    ASSUME Inv, QInv, NEW r \in Request, Handle(r), HandleCommit(r)
    PROVE  QInv'
<1>1. wire[r].cmd = "commit" /\ wire[r].state = "sent" /\ UNCHANGED target
  BY HandleParts DEF HandleCommit
<1>2. Collected(r, Chunks)
  BY <1>1, Commands, SentFields
<1>3. PICK a \in Agent, m \in Memory : task[r].agent = a /\ MemoryOf(r) = m
  BY HandleParts
<1>4. /\ pending # <<>> /\ Head(pending) = pending[1] /\ Tail(pending) = <<>>
      /\ Head(pending).agent = a
  <2>1. Len(pending) = 1 /\ pending \in Seq(Entry)
    BY <1>2 DEF Collected, Inv, TypeOK, Entry
  <2>2. pending # <<>> /\ Head(pending) = pending[1] /\ Tail(pending) = <<>>
    BY <2>1, OneEntry
  <2>3. QED
    BY <1>2, <1>3, <2>2 DEF Collected
<1>5. Decoded(Head(pending).chunks) = {m}
  <2>1. PICK s : s = pending[1].chunks
    OBVIOUS
  <2>2. Len(s) = Chunks /\ \A i \in 1..Chunks : s[i] = [seq |-> i - 1, mem |-> m]
    BY <1>2, <1>3, <2>1 DEF Collected
  <2>3. Decoded(s) = {m}
    BY <2>2, DecodedWhole
  <2>4. QED
    BY <1>4, <2>1, <2>3
<1>6. m # NoAgent
  BY <1>3, TeleportAssumption
<1>7. /\ pending' = <<>> /\ Reply(r, "acked")
      /\ forks' = forks \cup {[by |-> r, agent |-> a, mem |-> m]}
  BY <1>4, <1>5, <1>6 DEF HandleCommit
<1>8. PICK f : f = [by |-> r, agent |-> a, mem |-> m]
  OBVIOUS
<1>9. f.agent = a /\ f.mem = m /\ forks' = forks \cup {f}
  BY <1>7, <1>8
<1>10. Arrives(a, m)
  BY <1>1, <1>9, ArrivedForked
<1>11. /\ wire'[r].cmd = "commit" /\ wire'[r].state = "acked"
       /\ \A q \in Request \ {r} : wire'[q] = wire[q]
  BY <1>1, <1>7, ReplyStep DEF States, Inv
<1>12. QED
  BY <1>3, <1>7, <1>10, <1>11, QuietArrival

LEMMA QuietNotice ==
    ASSUME Circumstances = {}, Inv, QInv, NEW r \in Request, Handle(r), HandleNotice(r)
    PROVE  QInv'
<1>1. wire[r].cmd = "notice" /\ wire[r].state = "sent" /\ UNCHANGED pending
  BY HandleParts DEF HandleNotice
<1>2. pending = <<>> /\ tag[task[r].agent] = task[r].n
  BY <1>1, Commands, SentFields
<1>3. PICK a \in Agent, m \in Memory :
         /\ Reply(r, "acked") /\ task[r].agent = a /\ m.of = a /\ m.n = tag[a] /\ Arrives(a, m)
  BY Noted
<1>4. m = MemoryOf(r)
  BY <1>2, <1>3 DEF Memory, MemoryOf
<1>5. /\ wire'[r].cmd = "notice" /\ wire'[r].state = "acked"
      /\ \A q \in Request \ {r} : wire'[q] = wire[q]
  BY <1>1, <1>3, ReplyStep DEF States, Inv
<1>6. QED
  BY <1>1, <1>2, <1>3, <1>4, <1>5, QuietArrival

LEMMA QuietResurrect ==
    ASSUME Circumstances = {}, Inv, QInv, NEW f \in forks, Resurrect(f)
    PROVE  QInv'
<1>1. UNCHANGED <<source, running, runs, task, wire, tag, pending>>
  BY DEF Resurrect
<1>2. f.mem # Garbage
  <2>1. PICK b, m : b \in Agent /\ f.agent = b /\ f.mem = m
    BY DEF Inv, TypeOK, Fork
  <2>2. m \in Arrived(b)
    BY <2>1 DEF Arrived
  <2>3. QED
    BY <2>1, <2>2, TeleportAssumption DEF QInv, Genuine
<1>3. \A a \in Agent : Arrived(a)' = Arrived(a)
  BY <1>2, ArrivedResurrected DEF Inv
<1>4. QInv'
  <2>1. Genuine' /\ Alone' /\ Still'
    BY <1>1, <1>3 DEF QInv, Genuine, Alone, Still, Active
  <2>2. Moved'
    <3>1. \A q \in Request : Final(q)' <=> Final(q)
      BY <1>1 DEF Final
    <3>2. QED
      BY <1>1, <1>3, <3>1 DEF QInv, Moved
  <2>3. ASSUME NEW r \in Request PROVE Undisturbed(r)'
    <3>1. PICK b : b = task[r].agent
      OBVIOUS
    <3>2. Active(r) => b \in Agent
      BY <3>1, NamedParts DEF Inv
    <3>3. task[r].stage \in {"sending", "purge"} => Arrived(b)' = Arrived(b)
      BY <1>3, <3>2 DEF Active
    <3>4. OnTheWay(r) /\ task[r].stage = "sending" => OnTheWay(r)'
      BY <1>1, <3>1, <3>3 DEF OnTheWay, Collected, Delivered, MemoryOf
    <3>5. task[r].stage = "purge" /\ Delivered(r) => Delivered(r)'
      BY <1>1, <3>1, <3>3 DEF Delivered, MemoryOf
    <3>6. Undisturbed(r)
      BY DEF QInv, Quiet
    <3>7. QED
      BY <1>1, <3>4, <3>5, <3>6 DEF Undisturbed, Active
  <2>4. QED
    BY <2>1, <2>2, <2>3 DEF QInv, Quiet
<1>5. QED
  BY <1>4

LEMMA QuietNext ==
    ASSUME Circumstances = {}, Inv, QInv, [Next]_vars
    PROVE  QInv'
<1>1. ASSUME NEW a \in Agent, StartRun(a) \/ EndRun(a) PROVE QInv'
  BY <1>1, QuietStartRun, QuietEndRun
<1>2. ASSUME NEW r \in Request, Capture(r) \/ Teleporting(r) PROVE QInv'
  BY <1>2, QuietCapture, QuietCheck, QuietPush, QuietAcked, QuietRefused, QuietPurge
  DEF Teleporting
<1>3. ASSUME NEW r \in Request, Disconnect(r) \/ HangUp(r) PROVE QInv'
  BY <1>3 DEF Disconnect, HangUp
<1>4. ASSUME NEW r \in Request, Handle(r) PROVE QInv'
  BY <1>4, QuietHandshake, QuietPayload, QuietCommit, QuietNotice DEF Handle
<1>5. ASSUME NEW f \in forks, Resurrect(f) PROVE QInv'
  BY <1>5, QuietResurrect
<1>6. CASE Restart
  BY <1>6 DEF Restart
<1>7. CASE UNCHANGED vars
  <2>1. /\ UNCHANGED <<source, running, runs, task, wire, tag, pending>>
        /\ \A a : Arrived(a)' = Arrived(a)
    BY <1>7, ArrivedStays DEF vars
  <2>2. Genuine' /\ Alone' /\ Still'
    BY <2>1 DEF QInv, Genuine, Alone, Still, Active
  <2>3. Moved'
    <3>1. \A q \in Request : Final(q)' <=> Final(q)
      BY <2>1 DEF Final
    <3>2. QED
      BY <2>1, <3>1 DEF QInv, Moved
  <2>4. ASSUME NEW r \in Request PROVE Undisturbed(r)'
    <3>1. PICK b : b = task[r].agent
      OBVIOUS
    <3>2. Arrived(b)' = Arrived(b) /\ Undisturbed(r)
      BY <2>1 DEF QInv, Quiet
    <3>3. OnTheWay(r) => OnTheWay(r)'
      BY <2>1, <3>1, <3>2 DEF OnTheWay, Collected, Delivered, MemoryOf
    <3>4. Delivered(r) => Delivered(r)'
      BY <2>1, <3>1, <3>2 DEF Delivered, MemoryOf
    <3>5. QED
      BY <2>1, <3>2, <3>3, <3>4 DEF Undisturbed, Active
  <2>5. QED
    BY <2>2, <2>3, <2>4 DEF QInv, Quiet
<1>8. QED
  BY <1>1, <1>2, <1>3, <1>4, <1>5, <1>6, <1>7 DEF Next

\* At rest nothing is on its way.
LEMMA Landed ==
    ASSUME QInv, AtRest
    PROVE  /\ \A a \in Agent : Arrived(a) = target[a]
           /\ \A r \in Request : ~Final(r)
<1>1. \A a \in Agent : Arrived(a) = target[a]
  BY DEF AtRest, Arrived
<1>2. \A r \in Request : ~Final(r)
  BY DEF AtRest, Idle, Final
<1>3. QED
  BY <1>1, <1>2

LEMMA QuietEnds ==
    ASSUME Inv, QInv
    PROVE  /\ Authentic /\ NoSplitBrain /\ LastStateMoves
           /\ Survives
<1>1. Authentic
  BY TeleportAssumption DEF QInv, Genuine, Authentic
<1>2. NoSplitBrain
  <2> SUFFICES ASSUME AtRest, NEW a \in Agent PROVE source[a] = None \/ target[a] = {}
    BY DEF NoSplitBrain
  <2>1. QED
    BY Landed DEF QInv, Moved
<1>3. LastStateMoves
  <2> SUFFICES ASSUME AtRest, NEW a \in Agent, source[a] = None
               PROVE  [of |-> a, n |-> runs[a]] \in target[a]
    BY DEF LastStateMoves
  <2>1. QED
    BY Landed DEF QInv, Moved
<1>4. Survives
  <2> SUFFICES ASSUME NEW a \in Agent, source[a] = None
               PROVE  \E m \in Arrived(a) : m # Garbage /\ m.of = a
    BY DEF Survives
  <2>1. PICK m \in Arrived(a) : m = [of |-> a, n |-> runs[a]]
    BY DEF QInv, Moved
  <2>2. m \in Memory /\ m.of = a
    BY DEF QInv, Genuine
  <2>3. QED
    BY <2>2, TeleportAssumption
<1>5. QED
  BY <1>1, <1>2, <1>3, <1>4

\* Moves on both paths, one after the other and without trouble, for any number of agents
\* and chunks: what arrives is the agent's memory, at rest no agent is on both nodes, and
\* one that left was resumed from its last execution (teleport.rs, hive.rs).
THEOREM QuietMoves ==
    ASSUME Circumstances = {}
    PROVE  Spec => [](Authentic /\ Survives /\ NoSplitBrain /\ LastStateMoves)
<1>1. Init => Inv /\ QInv
  BY InvInit, QuietInit
<1>2. Inv /\ QInv /\ [Next]_vars => (Inv /\ QInv)'
  BY InvNext, QuietNext
<1>3. Inv /\ QInv => Authentic /\ Survives /\ NoSplitBrain /\ LastStateMoves
  BY QuietEnds
<1>4. QED
  BY <1>1, <1>2, <1>3, PTL DEF Spec

\* The same for the quiet scene of the specification that TLC runs.
THEOREM QuietHandoffs ==
    ASSUME Circumstances = {}
    PROVE  SceneSpec => []QuietHandoff
<1> DEFINE Scene == scene = "quiet" => Inv /\ QInv
<1>1. SceneInit => Scene
  BY InvInit, QuietInit DEF SceneInit
<1>2. Scene /\ [SceneNext]_<<vars, scene>> => Scene'
  <2> SUFFICES ASSUME Scene, [SceneNext]_<<vars, scene>>, scene' = "quiet"
               PROVE  Inv' /\ QInv'
    OBVIOUS
  <2>1. scene = "quiet" /\ [Next]_vars
    BY DEF SceneNext
  <2>2. QED
    BY <2>1, InvNext, QuietNext
<1>3. Scene => QuietHandoff
  BY QuietEnds DEF QuietHandoff
<1>4. QED
  BY <1>1, <1>2, <1>3, PTL DEF SceneSpec
=============================================================================
