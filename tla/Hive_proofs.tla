---------------------------- MODULE Hive_proofs -----------------------------
(* Theorems about the parts of a node that deal with its peers and with     *)
(* requests from outside, for every number of nodes, connections, commands, *)
(* agents and requests, every clock and all limits; and that a node has the *)
(* properties of all its parts.                                             *)
EXTENDS MCNode, Economy_proofs, Requests_proofs, Artifacts_proofs, SequenceTheorems, TLAPS

-----------------------------------------------------------------------------
(* Vitality: verdicts follow the silence of a node.                         *)

\* A sweep visits nodes that were heard of.
SweepsKnown == \A p \in sweeping.left : vital[p] # Unknown

VitalityInv == VitalityTypeOK /\ SweepsKnown /\ VerdictsFollowSilence

LEMMA InitVitalityInv == ASSUME VitalityAssumption, VitalityInit PROVE VitalityInv
<1>1. VitalityTypeOK
  BY DEF VitalityAssumption, VitalityInit, VitalityTypeOK, Unknown, Resting
<1>2. QED
  BY <1>1 DEF VitalityInit, VitalityInv, SweepsKnown, VerdictsFollowSilence, Resting

LEMMA ClockKeepsVitalityInv == ASSUME VitalityInv, SetClock PROVE VitalityInv'
BY DEF VitalityInv, SetClock, VitalityTypeOK, SweepsKnown, VerdictsFollowSilence

LEMMA HeartbeatKeepsVitalityInv ==
    ASSUME VitalityAssumption, VitalityInv, NEW p \in Peer, RecordHeartbeat(p)
    PROVE  VitalityInv'
<1>1. /\ VitalityTypeOK /\ UNCHANGED <<clock, sweeping>> /\ clock \in 0..MaxClock
      /\ vital' = [vital EXCEPT ![p] = [status |-> "Active", seen |-> clock]]
      /\ silence' = [silence EXCEPT ![p] = 0] /\ obituaries' = [obituaries EXCEPT ![p] = 0]
  BY DEF VitalityInv, VitalityTypeOK, RecordHeartbeat
<1>2. /\ vital'[p] = [status |-> "Active", seen |-> clock] /\ silence'[p] = 0 /\ obituaries'[p] = 0
      /\ \A q \in Peer \ {p} : /\ vital'[q] = vital[q]
                               /\ silence'[q] = silence[q] /\ obituaries'[q] = obituaries[q]
  BY <1>1 DEF VitalityTypeOK
<1>3. VitalityTypeOK'
  BY <1>1 DEF VitalityTypeOK, VitalityAssumption
<1>4. vital'[p] # Unknown /\ vital'[p].status = "Active"
  BY <1>2 DEF Unknown
<1>5. SweepsKnown'
  BY <1>1, <1>2, <1>4 DEF VitalityInv, SweepsKnown, VitalityTypeOK
<1>6. VerdictsFollowSilence'
  BY <1>2, <1>4 DEF VitalityInv, VerdictsFollowSilence
<1>7. QED
  BY <1>3, <1>5, <1>6 DEF VitalityInv

LEMMA StartSweepKeepsVitalityInv == ASSUME VitalityInv, StartSweep PROVE VitalityInv'
<1>1. VitalityTypeOK'
  BY DEF VitalityInv, StartSweep, VitalityTypeOK
<1>2. SweepsKnown'
  BY DEF StartSweep, SweepsKnown
<1>3. QED
  BY <1>1, <1>2 DEF VitalityInv, StartSweep, VerdictsFollowSilence

\* What a status is by the longest silence that was seen.
Verdict(longest) == CASE longest >= 3 -> "Dead" [] longest \in 1..2 -> "Suspect"
                      [] OTHER -> "Active"

\* A status that follows the longest silence follows the longest one after the sweep.
LEMMA AfterFollows ==
    ASSUME NEW longest \in Nat, NEW elapsed \in Nat
    PROVE  After(Verdict(longest), elapsed) = Verdict(IF elapsed > longest THEN elapsed ELSE longest)
<1>1. CASE longest >= 3
  BY <1>1 DEF After, Verdict
<1>2. CASE longest \in 1..2
  BY <1>2 DEF After, Verdict
<1>3. CASE longest = 0
  BY <1>3 DEF After, Verdict
<1>4. QED
  BY <1>1, <1>2, <1>3

LEMMA SweepKeepsVitalityInv ==
    ASSUME VitalityAssumption, VitalityInv, NEW p \in Peer, SweepEntry(p)
    PROVE  VitalityInv'
<1> DEFINE earlier == vital[p]
           elapsed == Elapsed(p)
           status == After(earlier.status, elapsed)
           longest == IF elapsed > silence[p] THEN elapsed ELSE silence[p]
<1>1. /\ VitalityTypeOK /\ p \in sweeping.left /\ UNCHANGED clock
      /\ vital' = [vital EXCEPT ![p].status = status]
      /\ obituaries' = [obituaries EXCEPT
            ![p] = @ + IF status = "Dead" /\ earlier.status # "Dead" THEN 1 ELSE 0]
      /\ silence' = [silence EXCEPT ![p] = longest]
  BY DEF VitalityInv, SweepEntry
<1>2. elapsed \in 0..MaxClock /\ silence[p] \in 0..MaxClock /\ longest \in 0..MaxClock
  BY <1>1 DEF VitalityTypeOK, VitalityAssumption, Elapsed
<1>3. earlier # Unknown
  BY <1>1 DEF VitalityInv, SweepsKnown
<1>4. /\ earlier.status = Verdict(silence[p])
      /\ obituaries[p] = IF earlier.status = "Dead" THEN 1 ELSE 0
  BY <1>3 DEF VitalityInv, VerdictsFollowSilence, Verdict
<1>5. status = Verdict(longest) /\ (earlier.status = "Dead" => status = "Dead")
  <2>1. silence[p] \in Nat /\ elapsed \in Nat
    BY <1>2 DEF VitalityAssumption
  <2>2. status = Verdict(longest)
    BY <1>4, <2>1, AfterFollows
  <2>3. earlier.status = "Dead" => status = "Dead"
    BY DEF After
  <2>4. QED
    BY <2>2, <2>3
<1>6. /\ vital'[p] = [earlier EXCEPT !.status = status] /\ silence'[p] = longest
      /\ obituaries'[p] = IF status = "Dead" THEN 1 ELSE 0
      /\ \A q \in Peer \ {p} : /\ vital'[q] = vital[q]
                               /\ silence'[q] = silence[q] /\ obituaries'[q] = obituaries[q]
  BY <1>1, <1>4, <1>5 DEF VitalityTypeOK
<1>7. status \in {"Active", "Suspect", "Dead"}
  BY <1>2, <1>5 DEF Verdict
<1>8. vital'[p].status = status /\ vital'[p] # Unknown
  <2>1. earlier \in [status : {"unknown", "Active", "Suspect", "Dead"}, seen : 0..MaxClock]
    BY <1>1 DEF VitalityTypeOK
  <2>2. QED
    BY <1>6, <1>7, <2>1 DEF Unknown
<1>9. VitalityTypeOK'
  <2>1. vital' \in [Peer -> [status : {"unknown", "Active", "Suspect", "Dead"}, seen : 0..MaxClock]]
    BY <1>1, <1>7 DEF VitalityTypeOK
  <2>2. obituaries' \in [Peer -> 0..1]
    BY <1>1, <1>6 DEF VitalityTypeOK
  <2>3. silence' \in [Peer -> 0..MaxClock]
    BY <1>1, <1>2 DEF VitalityTypeOK
  <2>4. sweeping' \in [left : SUBSET Peer, now : 0..MaxClock]
    BY <1>1 DEF VitalityTypeOK, SweepEntry, Resting, VitalityAssumption
  <2>5. QED
    BY <1>1, <2>1, <2>2, <2>3, <2>4 DEF VitalityTypeOK
<1>10. SweepsKnown'
  <2>1. sweeping'.left \subseteq sweeping.left /\ sweeping.left \subseteq Peer
    BY <1>1 DEF SweepEntry, Resting, VitalityTypeOK
  <2>2. QED
    BY <1>6, <1>8, <2>1 DEF VitalityInv, SweepsKnown
<1>11. VerdictsFollowSilence'
  BY <1>5, <1>6, <1>8 DEF VitalityInv, VerdictsFollowSilence, Verdict
<1>12. QED
  BY <1>9, <1>10, <1>11 DEF VitalityInv

(* Statuses follow silences; for that, sweeps only visit known nodes.        *)
THEOREM VitalityInvariance == ASSUME VitalityAssumption PROVE VitalitySpec => []VitalityInv
<1>1. VitalityInit => VitalityInv
  BY InitVitalityInv
<1>2. VitalityInv /\ [VitalityNext]_vitalityVars => VitalityInv'
  <2> SUFFICES ASSUME VitalityInv, [VitalityNext]_vitalityVars PROVE VitalityInv'
    OBVIOUS
  <2>1. CASE UNCHANGED vitalityVars
    BY <2>1 DEF vitalityVars, VitalityInv, VitalityTypeOK, SweepsKnown, VerdictsFollowSilence
  <2>2. CASE SetClock \/ StartSweep
    BY <2>2, ClockKeepsVitalityInv, StartSweepKeepsVitalityInv
  <2>3. CASE \E p \in Peer : RecordHeartbeat(p) \/ SweepEntry(p)
    BY <2>3, HeartbeatKeepsVitalityInv, SweepKeepsVitalityInv
  <2>4. QED
    BY <2>1, <2>2, <2>3 DEF VitalityNext
<1>3. QED
  BY <1>1, <1>2, PTL DEF VitalitySpec

(* However heartbeats and the steps of sweeps interleave, and however the    *)
(* clock is set: a node's status is what the longest silence since its last  *)
(* heartbeat calls for, and each death is reported once (record_heartbeat,   *)
(* calculate_unresponsive).                                                  *)
THEOREM VerdictsAreRight ==
    ASSUME VitalityAssumption PROVE VitalitySpec => []VerdictsFollowSilence
<1>1. VitalityInv => VerdictsFollowSilence
  BY DEF VitalityInv
<1>2. QED
  BY <1>1, VitalityInvariance, PTL

-----------------------------------------------------------------------------
(* Tunnel: answers are true, and the ends never wait for each other.        *)

SealedCommand(k) == [what |-> "sealed", size |-> SealedSize(k.size)]

\* At most one frame is on its way in each direction.
Link == [client : {"new", "greeting", "waiting"} \cup Closed,
         server : {"accepting", "listening", "working", "ok", "failed"},
         command : Command \cup {NoCommand}, rpc : BOOLEAN,
         up : {<<>>, <<Hello>>} \cup {<<SealedCommand(k)>> : k \in Command},
         down : {<<>>, <<Hello>>} \cup {<<Response(k)>> : k \in Command},
         broken : BOOLEAN, carriedOut : BOOLEAN]

WithinLimits(k) == SealedSize(k.size) <= MaxPayload /\ k.size <= MaxTransfer

(* What a connection looks like by the state of its server; what is not      *)
(* broken is at one point of the exchange.                                   *)

Accepting(l) ==
    /\ l.down = <<>> /\ l.client \in {"new", "greeting", "failed"}
    /\ l.up \in {<<>>, <<Hello>>} /\ (l.up # <<>> => l.client # "new")
    /\ ~l.broken => IF l.client = "new" THEN l.up = <<>>
                    ELSE l.client = "greeting" /\ l.up = <<Hello>>

Listening(l) ==
    /\ l.client \in {"greeting", "waiting", "failed"}
    /\ l.up # <<>> => /\ l.up = <<SealedCommand(l.command)>> /\ l.command.size <= MaxTransfer
                      /\ l.client # "greeting" /\ l.down = <<>>
    /\ l.down # <<>> => l.down = <<Hello>> /\ l.client = "greeting"
    /\ ~l.broken => /\ l.client = "greeting" => l.down = <<Hello>>
                    /\ l.client = "waiting" <=> l.up # <<>>

Working(l) ==
    /\ l.up = <<>> /\ l.down = <<>> /\ WithinLimits(l.command)
    /\ l.client \in {"waiting", "failed"}
    /\ ~l.broken => l.client = "waiting"

Ended(l) ==
    /\ l.up = <<>> /\ WithinLimits(l.command) /\ l.client \notin {"new", "greeting"}
    /\ Answered(l.command, l.carriedOut)
    /\ l.down # <<>> => l.down = <<Response(l.command)>> /\ l.client = "waiting"

Failed(l) ==
    /\ l.up = <<>>
    /\ l.down # <<>> => l.down = <<Hello>> /\ l.client = "greeting"
    /\ l.client \in {"new", "greeting"} => l.broken
    /\ l.client \in {"new", "greeting", "waiting", "failed"}

Orderly(l) ==
    /\ l.server = "accepting" => Accepting(l)
    /\ l.server = "listening" => Listening(l)
    /\ l.server = "working" => Working(l)
    /\ l.server = "ok" => Ended(l)
    /\ l.server = "failed" => Failed(l)
    /\ l.client # "new" => l.command \in Command
    /\ l.carriedOut => l.server = "ok"
    /\ l.client = "answer" => l.command.answer = "sealed"
    /\ l.client = "pulse" => l.command.answer = "empty"

TunnelInv == link \in [Conn -> Link] /\ \A x \in Conn : Orderly(link[x])

-----------------------------------------------------------------------------
(* Frames *)

LEMMA OneFrame ==
    ASSUME NEW f
    PROVE  /\ Head(<<f>>) = f /\ Tail(<<f>>) = <<>> /\ Len(<<f>>) = 1 /\ <<f>> # <<>>
           /\ <<>> \o <<f>> = <<f>>
           /\ \A i \in 0..1 : SubSeq(<<f>>, 1, i) \in {<<>>, <<f>>}
<1>1. Head(<<f>>) = f /\ Tail(<<f>>) = <<>> /\ Len(<<f>>) = 1 /\ <<f>> # <<>>
  OBVIOUS
<1>2. <<>> \o <<f>> = <<f>>
  OBVIOUS
<1>3. SubSeq(<<f>>, 1, 0) = <<>>
  BY SubSeqEmpty
<1>4. SubSeq(<<f>>, 1, 1) = <<f>>
  <2>1. <<f>> \in Seq({f}) /\ Len(<<f>>) = 1
    OBVIOUS
  <2>2. QED
    BY <2>1, SubSeqFull
<1>5. QED
  BY <1>1, <1>2, <1>3, <1>4

LEMMA NoFrame == Len(<<>>) = 0 /\ SubSeq(<<>>, 1, 0) = <<>>
OBVIOUS

LEMMA PrefixOfFrames ==
    ASSUME NEW way, way = <<>> \/ \E f : way = <<f>>, NEW i \in 0..Len(way)
    PROVE  SubSeq(way, 1, i) \in {<<>>, way}
<1>1. CASE way = <<>>
  BY <1>1, NoFrame
<1>2. CASE \E f : way = <<f>>
  <2>1. PICK f : way = <<f>>
    BY <1>2
  <2>2. i \in 0..1
    BY <2>1, OneFrame
  <2>3. QED
    BY <2>1, <2>2, OneFrame
<1>3. QED
  BY <1>1, <1>2

LEMMA Frames ==
    ASSUME NEW l \in Link
    PROVE  /\ l.up = <<>> \/ \E f : l.up = <<f>>
           /\ l.down = <<>> \/ \E f : l.down = <<f>>
BY DEF Link

-----------------------------------------------------------------------------
(* One step *)

LEMMA InitTunnelInv == ASSUME TunnelAssumption, TunnelInit PROVE TunnelInv
<1>1. NewLink \in Link
  BY DEF NewLink, Link
<1>2. Orderly(NewLink)
  BY DEF NewLink, Orderly, Accepting
<1>3. QED
  BY <1>1, <1>2 DEF TunnelInit, TunnelInv

\* A step changes one connection.
LEMMA StepKeepsTunnelInv ==
    ASSUME TunnelInv, NEW x \in Conn, NEW m \in Link, Orderly(m), link' = [link EXCEPT ![x] = m]
    PROVE  TunnelInv'
BY DEF TunnelInv

LEMMA DialKeepsTunnelInv ==
    ASSUME TunnelInv, NEW x \in Conn, NEW k \in Command, NEW rpc \in BOOLEAN, Dial(x, k, rpc)
    PROVE  TunnelInv'
<1> DEFINE l == link[x]
           m == [l EXCEPT !.client = "greeting", !.command = k, !.rpc = rpc,
                          !.up = Written(l, @, <<Hello>>)]
<1>1. l \in Link /\ Orderly(l) /\ l.client = "new" /\ link' = [link EXCEPT ![x] = m]
  BY DEF TunnelInv, Dial
<1>2. l.up = <<>> /\ l.down = <<>> /\ l.server \in {"accepting", "failed"}
  BY <1>1 DEF Orderly, Link, Accepting, Listening, Working, Ended, Failed
<1>3. m.up = IF l.broken THEN <<>> ELSE <<Hello>>
  BY <1>1, <1>2, OneFrame DEF Written, Link
<1>4. m \in Link
  BY <1>1, <1>3 DEF Link
<1>5. Orderly(m)
  BY <1>1, <1>2, <1>3, OneFrame DEF Orderly, Link, Accepting, Failed
<1>6. QED
  BY <1>1, <1>4, <1>5, StepKeepsTunnelInv

LEMMA GreetKeepsTunnelInv ==
    ASSUME TunnelInv, NEW x \in Conn, Greet(x)
    PROVE  TunnelInv'
<1> DEFINE l == link[x]
           m == [l EXCEPT !.server = "listening", !.up = Tail(@),
                          !.down = Written(l, @, <<Hello>>)]
<1>1. /\ l \in Link /\ Orderly(l) /\ l.server = "accepting" /\ l.up # <<>>
      /\ link' = [link EXCEPT ![x] = m]
  BY DEF TunnelInv, Greet
<1>2. /\ l.up = <<Hello>> /\ l.down = <<>> /\ l.client \in {"greeting", "failed"}
      /\ l.broken \/ l.client = "greeting"
  BY <1>1 DEF Orderly, Accepting
<1>3. m.up = <<>> /\ m.down = IF l.broken THEN <<>> ELSE <<Hello>>
  BY <1>1, <1>2, OneFrame DEF Written, Link
<1>4. m \in Link
  BY <1>1, <1>3 DEF Link
<1>5. Orderly(m)
  BY <1>1, <1>2, <1>3 DEF Orderly, Link, Listening
<1>6. QED
  BY <1>1, <1>4, <1>5, StepKeepsTunnelInv

LEMMA SendKeepsTunnelInv ==
    ASSUME TunnelAssumption, TunnelInv, NEW x \in Conn, SendCommand(x)
    PROVE  TunnelInv'
<1> DEFINE l == link[x]
           frame == SealedCommand(l.command)
           sent == [l EXCEPT !.client = "waiting", !.down = Tail(@), !.up = Written(l, @, <<frame>>)]
           m == IF l.command.size > MaxTransfer
                THEN [l EXCEPT !.client = "failed", !.down = Tail(@)] ELSE sent
<1>1. /\ l \in Link /\ Orderly(l) /\ l.client = "greeting" /\ l.down # <<>>
      /\ link' = [link EXCEPT ![x] = m]
  BY DEF TunnelInv, SendCommand, SealedCommand
<1>2. /\ l.up = <<>> /\ l.down = <<Hello>> /\ l.command \in Command
      /\ l.server \in {"listening", "failed"} /\ (l.server = "failed" => l.broken)
  BY <1>1, OneFrame DEF Orderly, Link, Accepting, Listening, Working, Ended, Failed
<1>3. l.command.size \in Nat /\ MaxTransfer \in Nat
  BY <1>2 DEF TunnelAssumption
<1>4. CASE l.command.size > MaxTransfer
  <2>1. m = [l EXCEPT !.client = "failed", !.down = <<>>]
    BY <1>1, <1>2, <1>4, OneFrame
  <2>2. m \in Link /\ Orderly(m)
    BY <1>1, <1>2, <2>1 DEF Orderly, Link, Listening, Failed, Closed
  <2>3. QED
    BY <1>1, <2>2, StepKeepsTunnelInv
<1>5. CASE ~(l.command.size > MaxTransfer)
  <2>1. m = [l EXCEPT !.client = "waiting", !.down = <<>>,
                      !.up = IF l.broken THEN <<>> ELSE <<frame>>]
    BY <1>1, <1>2, <1>5, OneFrame DEF Written
  <2>2. l.command.size <= MaxTransfer
    BY <1>3, <1>5
  <2>3. CASE l.broken
    <3>1. m = [l EXCEPT !.client = "waiting", !.down = <<>>, !.up = <<>>]
      BY <2>1, <2>3
    <3>2. m \in Link /\ Orderly(m)
      BY <1>1, <1>2, <2>3, <3>1 DEF Orderly, Link, Listening, Failed
    <3>3. QED
      BY <1>1, <3>2, StepKeepsTunnelInv
  <2>4. CASE ~l.broken
    <3>1. m = [l EXCEPT !.client = "waiting", !.down = <<>>, !.up = <<frame>>]
      BY <2>1, <2>4
    <3>2. <<frame>> \in {<<SealedCommand(k)>> : k \in Command} /\ <<frame>> # <<>>
      BY <1>2, OneFrame
    <3>3. m \in Link
      BY <1>1, <3>1, <3>2 DEF Link
    <3>4. Orderly(m)
      BY <1>1, <1>2, <2>2, <2>4, <3>1, <3>2 DEF Orderly, Link, Listening
    <3>5. QED
      BY <1>1, <3>3, <3>4, StepKeepsTunnelInv
  <2>5. QED
    BY <2>3, <2>4
<1>6. QED
  BY <1>4, <1>5

LEMMA TakeCommandKeepsTunnelInv ==
    ASSUME TunnelAssumption, TunnelInv, NEW x \in Conn, TakeCommand(x)
    PROVE  TunnelInv'
<1> DEFINE l == link[x]
           m == [l EXCEPT !.up = Tail(@),
                          !.server = IF Head(l.up).size > MaxPayload THEN "failed" ELSE "working"]
<1>1. /\ l \in Link /\ Orderly(l) /\ l.server = "listening" /\ l.up # <<>>
      /\ link' = [link EXCEPT ![x] = m]
  BY DEF TunnelInv, TakeCommand
<1>2. /\ l.up = <<SealedCommand(l.command)>> /\ l.command.size <= MaxTransfer
      /\ l.client \in {"waiting", "failed"} /\ l.down = <<>> /\ l.command \in Command
      /\ l.broken \/ l.client = "waiting"
  BY <1>1 DEF Orderly, Listening
<1>3. SealedSize(l.command.size) \in Int /\ MaxPayload \in Int
  BY <1>2 DEF TunnelAssumption, SealedSize
<1>4. /\ m.up = <<>>
      /\ m.server = IF SealedSize(l.command.size) > MaxPayload THEN "failed" ELSE "working"
  BY <1>1, <1>2, OneFrame DEF SealedCommand, Link
<1>5. m \in Link
  BY <1>1, <1>4 DEF Link
<1>6. Orderly(m)
  BY <1>1, <1>2, <1>3, <1>4 DEF Orderly, Link, Working, Failed, WithinLimits
<1>7. QED
  BY <1>1, <1>5, <1>6, StepKeepsTunnelInv

LEMMA ProcessKeepsTunnelInv ==
    ASSUME TunnelInv, NEW x \in Conn, ProcessCommand(x)
    PROVE  TunnelInv'
<1> DEFINE l == link[x]
<1> DEFINE frames(a) == IF a THEN <<Response(l.command)>> ELSE <<>>
           after(ok) == [l EXCEPT
               !.server = IF Answered(l.command, ok) THEN "ok" ELSE "failed", !.carriedOut = ok,
               !.down = Written(l, @, frames(Answered(l.command, ok)))]
<1>1. PICK ok \in BOOLEAN : link' = [link EXCEPT ![x] = after(ok)]
  BY DEF ProcessCommand
<1> DEFINE answered == Answered(l.command, ok)
           m == after(ok)
<1>2. l \in Link /\ Orderly(l) /\ l.server = "working"
  BY DEF TunnelInv, ProcessCommand
<1>3. /\ l.up = <<>> /\ l.down = <<>> /\ WithinLimits(l.command)
      /\ l.command \in Command /\ l.client \in {"waiting", "failed"}
      /\ l.broken \/ l.client = "waiting"
  BY <1>2 DEF Orderly, Working
<1>4. m.down = IF l.broken \/ ~answered THEN <<>> ELSE <<Response(l.command)>>
  <2>1. m.down = Written(l, <<>>, frames(answered))
    BY <1>2, <1>3 DEF Link
  <2>2. CASE l.broken
    BY <2>1, <2>2 DEF Written
  <2>3. CASE ~l.broken /\ answered
    BY <2>1, <2>3, OneFrame DEF Written
  <2>4. CASE ~l.broken /\ ~answered
    BY <2>1, <2>4 DEF Written
  <2>5. QED
    BY <2>2, <2>3, <2>4
<1>5. m \in Link
  BY <1>2, <1>3, <1>4 DEF Link
<1>6. Orderly(m)
  <2>1. CASE answered
    BY <1>2, <1>3, <1>4, <2>1 DEF Orderly, Link, Ended
  <2>2. CASE ~answered
    BY <1>2, <1>3, <1>4, <2>2 DEF Orderly, Link, Failed, Answered
  <2>3. QED
    BY <2>1, <2>2
<1>7. QED
  BY <1>1, <1>5, <1>6, StepKeepsTunnelInv

LEMMA TakeAnswerKeepsTunnelInv ==
    ASSUME TunnelAssumption, TunnelInv, NEW x \in Conn, TakeAnswer(x)
    PROVE  TunnelInv'
<1> DEFINE l == link[x]
           client == IF ~l.rpc THEN "ok"
                     ELSE IF Head(l.down).what = "empty" THEN "pulse" ELSE Decrypted(Head(l.down))
           m == [l EXCEPT !.down = Tail(@), !.client = client]
<1>1. /\ l \in Link /\ Orderly(l) /\ l.client = "waiting" /\ l.down # <<>>
      /\ link' = [link EXCEPT ![x] = m]
  BY DEF TunnelInv, TakeAnswer
<1>2. /\ l.server = "ok" /\ l.up = <<>> /\ WithinLimits(l.command) /\ l.command \in Command
      /\ l.down = <<Response(l.command)>> /\ Answered(l.command, l.carriedOut)
  BY <1>1 DEF Orderly, Link, Accepting, Listening, Working, Ended, Failed
<1>3. m.down = <<>> /\ Head(l.down).what = l.command.answer
  BY <1>1, <1>2, OneFrame DEF Response, Link
<1>4. /\ client \in Closed
      /\ client = "answer" => l.command.answer = "sealed"
      /\ client = "pulse" => l.command.answer = "empty"
  BY <1>3 DEF Decrypted, Closed
<1>5. m \in Link
  BY <1>1, <1>3, <1>4 DEF Link
<1>6. Orderly(m)
  BY <1>1, <1>2, <1>3, <1>4 DEF Orderly, Link, Ended, Closed
<1>7. QED
  BY <1>1, <1>5, <1>6, StepKeepsTunnelInv

\* Whatever of a frame is cut off.
LEMMA BreakKeepsTunnelInv ==
    ASSUME TunnelInv, NEW x \in Conn, Break(x)
    PROVE  TunnelInv'
<1> DEFINE l == link[x]
<1>1. PICK i \in 0..Len(l.up), j \in 0..Len(l.down) :
          link' = [link EXCEPT ![x] = [l EXCEPT !.broken = TRUE, !.up = SubSeq(@, 1, i),
                                                !.down = SubSeq(@, 1, j)]]
  BY DEF Break
<1> DEFINE m == [l EXCEPT !.broken = TRUE, !.up = SubSeq(@, 1, i), !.down = SubSeq(@, 1, j)]
<1>2. l \in Link /\ Orderly(l)
  BY DEF TunnelInv
<1>3. m.up \in {<<>>, l.up} /\ m.down \in {<<>>, l.down}
  <2>1. m.up = SubSeq(l.up, 1, i) /\ m.down = SubSeq(l.down, 1, j)
    BY <1>2 DEF Link
  <2>2. SubSeq(l.up, 1, i) \in {<<>>, l.up}
    BY <1>2, PrefixOfFrames, Frames
  <2>3. SubSeq(l.down, 1, j) \in {<<>>, l.down}
    BY <1>2, PrefixOfFrames, Frames
  <2>4. QED
    BY <2>1, <2>2, <2>3
<1>4. m \in Link
  BY <1>2, <1>3 DEF Link
<1>5. Orderly(m)
  BY <1>2, <1>3 DEF Orderly, Link, Accepting, Listening, Working, Ended, Failed
<1>6. QED
  BY <1>1, <1>4, <1>5, StepKeepsTunnelInv

LEMMA ClientFailsKeepsTunnelInv ==
    ASSUME TunnelInv, NEW x \in Conn, ClientReadFails(x)
    PROVE  TunnelInv'
<1> DEFINE l == link[x]
           m == [l EXCEPT !.client = "failed"]
<1>1. /\ l \in Link /\ Orderly(l) /\ l.client \in {"greeting", "waiting"} /\ l.down = <<>>
      /\ l.broken \/ l.server \in Closed
      /\ link' = [link EXCEPT ![x] = m]
  BY DEF TunnelInv, ClientReadFails
<1>2. m \in Link
  BY <1>1 DEF Link, Closed
<1>3. Orderly(m)
  BY <1>1 DEF Orderly, Link, Closed, Accepting, Listening, Working, Ended, Failed
<1>4. QED
  BY <1>1, <1>2, <1>3, StepKeepsTunnelInv

LEMMA ServerFailsKeepsTunnelInv ==
    ASSUME TunnelInv, NEW x \in Conn, ServerReadFails(x)
    PROVE  TunnelInv'
<1> DEFINE l == link[x]
           m == [l EXCEPT !.server = "failed"]
<1>1. /\ l \in Link /\ Orderly(l) /\ l.server \in {"accepting", "listening"} /\ l.up = <<>>
      /\ l.broken \/ l.client \in Closed
      /\ link' = [link EXCEPT ![x] = m]
  BY DEF TunnelInv, ServerReadFails
<1>2. m \in Link
  BY <1>1 DEF Link
<1>3. Orderly(m)
  BY <1>1 DEF Orderly, Link, Closed, Accepting, Listening, Failed
<1>4. QED
  BY <1>1, <1>2, <1>3, StepKeepsTunnelInv

-----------------------------------------------------------------------------
(* Theorems about the tunnel *)

(* The inductive invariant: what the two ends of a connection and the frames *)
(* between them look like, at each point of the exchange.                    *)
THEOREM TunnelInvariance == ASSUME TunnelAssumption PROVE TunnelSpec => []TunnelInv
<1>1. TunnelInit => TunnelInv
  BY InitTunnelInv
<1>2. TunnelInv /\ [TunnelNext]_link => TunnelInv'
  <2> SUFFICES ASSUME TunnelInv, [TunnelNext]_link PROVE TunnelInv'
    OBVIOUS
  <2>1. CASE UNCHANGED link
    BY <2>1 DEF TunnelInv
  <2>2. CASE \E x \in Conn, k \in Command, rpc \in BOOLEAN : Dial(x, k, rpc)
    BY <2>2, DialKeepsTunnelInv
  <2>3. CASE \E x \in Conn : Greet(x) \/ SendCommand(x) \/ TakeCommand(x)
    BY <2>3, GreetKeepsTunnelInv, SendKeepsTunnelInv, TakeCommandKeepsTunnelInv
  <2>4. CASE \E x \in Conn : ProcessCommand(x) \/ TakeAnswer(x)
    BY <2>4, ProcessKeepsTunnelInv, TakeAnswerKeepsTunnelInv
  <2>5. CASE \E x \in Conn : Break(x) \/ ClientReadFails(x) \/ ServerReadFails(x)
    BY <2>5, BreakKeepsTunnelInv, ClientFailsKeepsTunnelInv, ServerFailsKeepsTunnelInv
  <2>6. QED
    BY <2>1, <2>2, <2>3, <2>4, <2>5 DEF TunnelNext
<1>3. QED
  BY <1>1, <1>2, PTL DEF TunnelSpec

(* Whenever the connection breaks: a client that reports success had its     *)
(* command carried out without an error, unless it is one whose failures are *)
(* acknowledged, its answer is the server's, and nothing over a limit is     *)
(* carried out or reported (send_command, rpc_call, handle_connection).      *)
THEOREM EveryAnswerTrue == ASSUME TunnelAssumption PROVE TunnelSpec => []AnswersAreTrue
<1>1. TunnelInv => AnswersAreTrue
  <2> SUFFICES ASSUME TunnelInv, NEW x \in Conn, NEW l, l = link[x]
               PROVE  /\ l.client \in Closed \ {"failed"} => l.carriedOut \/ l.command.acksFailure
                      /\ l.client = "answer" => l.command.answer = "sealed"
                      /\ l.client = "pulse" => l.command.answer = "empty"
                      /\ l.carriedOut \/ l.client \in Closed \ {"failed"} => WithinLimits(l.command)
    BY DEF AnswersAreTrue, WithinLimits
  <2>1. l \in Link /\ Orderly(l)
    BY DEF TunnelInv
  <2>2. l.carriedOut \/ l.client \in Closed \ {"failed"} => l.server = "ok"
    BY <2>1 DEF Orderly, Link, Closed, Accepting, Listening, Working, Failed
  <2>3. l.server = "ok" => WithinLimits(l.command) /\ (l.carriedOut \/ l.command.acksFailure)
    BY <2>1 DEF Orderly, Ended, Answered
  <2>4. QED
    BY <2>1, <2>2, <2>3 DEF Orderly
<1>2. QED
  BY <1>1, TunnelInvariance, PTL

(* Without a timeout anywhere, the two ends of a connection that is not      *)
(* broken never wait for each other (rpc_call, handle_connection).           *)
THEOREM NoDeadlock == ASSUME TunnelAssumption PROVE TunnelSpec => []NeverBothWait
<1>1. TunnelInv => NeverBothWait
  <2> SUFFICES ASSUME TunnelInv, NEW x \in Conn, NEW l, l = link[x],
                      l.client \in {"greeting", "waiting"}, l.down = <<>>,
                      l.server \in {"accepting", "listening"}, l.up = <<>>, ~l.broken
               PROVE  FALSE
    BY DEF NeverBothWait
  <2>1. l \in Link /\ Orderly(l)
    BY DEF TunnelInv
  <2>2. QED
    BY <2>1, OneFrame DEF Orderly, Link, Accepting, Listening
<1>2. QED
  BY <1>1, TunnelInvariance, PTL

-----------------------------------------------------------------------------
(* Ingress: types of guests and requests.                                   *)

GuestState == [stage : {"idle", "running", "listening"}, by : Hit \cup {Nothing},
               path : Path \cup {<<>>}, handler : Handler \cup {Nothing}]
HitState == [stage : {"new", "calling", "resolving", "proxying", "ok", "failed", "notFound", "unreachable"},
             agent : Agent \cup {Nothing}, path : Path \cup {<<>>}]

GuestsTyped ==
    \A a \in Agent : /\ guest[a].stage \in {"idle", "running", "listening"}
                     /\ guest[a].by \in Hit \cup {Nothing}
                     /\ guest[a].stage = "listening" =>
                           guest[a].path \in Path /\ guest[a].handler \in Handler
HitsTyped ==
    \A h \in Hit : hit[h].stage \in {"new", "calling", "resolving", "proxying",
                                     "ok", "failed", "notFound", "unreachable"}

IngressInv ==
    /\ IngressTypeOK
    /\ guest \in [Agent -> GuestState] /\ hit \in [Hit -> HitState]

LEMMA GuestFields ==
    ASSUME NEW g \in GuestState
    PROVE  /\ g.stage \in {"idle", "running", "listening"} /\ g.by \in Hit \cup {Nothing}
           /\ g.path \in Path \cup {<<>>} /\ g.handler \in Handler \cup {Nothing}
BY DEF GuestState

LEMMA GuestStep ==
    ASSUME IngressInv, NEW a \in Agent, NEW g \in GuestState, guest' = [guest EXCEPT ![a] = g],
           g.stage = "listening" => g.path \in Path /\ g.handler \in Handler
    PROVE  /\ guest' \in [Agent -> GuestState]
           /\ GuestsTyped'
<1>1. guest' \in [Agent -> GuestState]
  BY DEF IngressInv
<1>2. ASSUME NEW b \in Agent
      PROVE  guest'[b].stage = "listening" => guest'[b].path \in Path /\ guest'[b].handler \in Handler
  <2>1. CASE b = a
    BY <2>1 DEF IngressInv
  <2>2. CASE b # a
    <3>1. guest'[b] = guest[b]
      BY <2>2 DEF IngressInv
    <3>2. QED
      BY <3>1 DEF IngressInv, IngressTypeOK
  <2>3. QED
    BY <2>1, <2>2
<1>3. \A b \in Agent : guest'[b] \in GuestState
  BY <1>1
<1>4. QED
  BY <1>1, <1>2, <1>3, GuestFields DEF GuestsTyped

LEMMA HitStep ==
    ASSUME IngressInv, NEW h \in Hit, NEW s \in HitState, hit' = [hit EXCEPT ![h] = s]
    PROVE  /\ hit' \in [Hit -> HitState]
           /\ HitsTyped'
<1>1. hit' \in [Hit -> HitState]
  BY DEF IngressInv
<1>2. QED
  BY <1>1 DEF HitState, HitsTyped

LEMMA AnswerStep ==
    ASSUME IngressInv, NEW h \in Hit, NEW outcome, Answer(h, outcome),
           outcome \in {"proxying", "ok", "failed", "notFound", "unreachable"}
    PROVE  /\ hit' \in [Hit -> HitState]
           /\ HitsTyped'
<1>1. PICK s : s = [hit[h] EXCEPT !.stage = outcome] /\ hit' = [hit EXCEPT ![h] = s]
  BY DEF Answer
<1>2. hit[h] \in HitState
  BY DEF IngressInv
<1>3. s \in HitState
  BY <1>1, <1>2 DEF HitState
<1>4. QED
  BY <1>1, <1>3, HitStep

LEMMA StutterKeepsIngress ==
    ASSUME IngressInv, UNCHANGED <<routes, guest, hit, onWorker, wiring, registry, runs, due>>,
           aliasStatus' \in [Agent -> {"none", "committed", "locked"}]
    PROVE  IngressInv'
BY DEF IngressInv, IngressTypeOK

LEMMA RunsKeepIngress ==
    ASSUME IngressAssumption, IngressInv, NEW a \in Agent,
           StartRun(a) \/ EndRun(a) \/ \E p \in Path, f \in Handler : Listen(a, p, f)
    PROVE  IngressInv'
<1>1. IdleGuest \in GuestState /\ IdleGuest.stage = "idle"
  BY DEF IdleGuest, GuestState
<1>2. guest[a] \in GuestState
  BY DEF IngressInv
<1>3. CASE StartRun(a)
  <2>1. PICK g : g = [guest[a] EXCEPT !.stage = "running"] /\ guest' = [guest EXCEPT ![a] = g]
    BY <1>3 DEF StartRun
  <2>2. g \in GuestState /\ g.stage = "running"
    BY <1>2, <2>1 DEF GuestState
  <2>3. runs' \in 0..MaxRuns
    BY <1>3 DEF StartRun, IngressInv, IngressTypeOK, IngressAssumption
  <2>4. guest' \in [Agent -> GuestState] /\ GuestsTyped'
    BY <2>1, <2>2, GuestStep
  <2>5. QED
    BY <1>3, <2>3, <2>4 DEF StartRun, IngressInv, IngressTypeOK, GuestsTyped
<1>4. CASE EndRun(a)
  <2>1. /\ guest' \in [Agent -> GuestState]
        /\ GuestsTyped'
    BY <1>1, <1>4, GuestStep DEF EndRun
  <2>2. CASE UNCHANGED <<hit, onWorker>>
    BY <1>4, <2>1, <2>2 DEF EndRun, IngressInv, IngressTypeOK, GuestsTyped
  <2>3. CASE guest[a].by # Nothing /\ onWorker' = Nothing /\ \E outcome \in {"ok", "failed"} : Answer(guest[a].by, outcome)
    <3>1. PICK h \in Hit : h = guest[a].by
      BY <1>2, <2>3, GuestFields
    <3>2. PICK outcome \in {"ok", "failed"} : Answer(h, outcome)
      BY <2>3, <3>1
    <3>3. /\ hit' \in [Hit -> HitState]
          /\ HitsTyped'
      BY <3>2, AnswerStep
    <3>4. QED
      BY <1>4, <2>1, <2>3, <3>3 DEF EndRun, IngressInv, IngressTypeOK, GuestsTyped, HitsTyped
  <2>4. QED
    BY <1>4, <2>2, <2>3 DEF EndRun
<1>5. ASSUME NEW p \in Path, NEW f \in Handler, Listen(a, p, f) PROVE IngressInv'
  <2>1. PICK g : /\ g = [guest[a] EXCEPT !.stage = "listening", !.path = p, !.handler = f]
                 /\ guest' = [guest EXCEPT ![a] = g]
    BY <1>5 DEF Listen
  <2>2. g \in GuestState /\ g.path \in Path /\ g.handler \in Handler
    BY <1>2, <2>1 DEF GuestState
  <2>3. guest' \in [Agent -> GuestState] /\ GuestsTyped'
    BY <2>1, <2>2, GuestStep
  <2>4. QED
    BY <1>5, <2>3 DEF Listen, IngressInv, IngressTypeOK, GuestsTyped
<1>6. QED
  BY <1>3, <1>4, <1>5

LEMMA RegisterKeepsIngress ==
    ASSUME IngressInv, NEW a \in Agent, RegisterRoute(a)
    PROVE  IngressInv'
<1>1. guest[a] \in GuestState /\ guest[a].stage = "listening" /\ guest[a].path \in Path /\ guest[a].handler \in Handler
  BY DEF IngressInv, IngressTypeOK, RegisterRoute
<1>2. PICK g : g = [IdleGuest EXCEPT !.stage = "running", !.by = guest[a].by] /\ guest' = [guest EXCEPT ![a] = g]
  BY DEF RegisterRoute
<1>3. g \in GuestState /\ g.stage = "running"
  BY <1>1, <1>2 DEF GuestState, IdleGuest
<1>4. routes' \in [{"sandbox", "server"} -> [Agent -> Seq([path : Path, handler : Handler])]]
  <2>1. PICK e : e = [path |-> guest[a].path, handler |-> guest[a].handler]
    OBVIOUS
  <2>2. e \in [path : Path, handler : Handler]
    BY <1>1, <2>1
  <2>3. PICK w \in {"sandbox", "server"} : routes' = routes \/ routes' = [routes EXCEPT ![w][a] = Append(@, e)]
    BY <2>1 DEF RegisterRoute, GatewayOfGuests
  <2>4. routes[w][a] \in Seq([path : Path, handler : Handler])
    BY DEF IngressInv, IngressTypeOK
  <2>5. Append(routes[w][a], e) \in Seq([path : Path, handler : Handler])
    BY <2>2, <2>4
  <2>6. PICK t : t = Append(routes[w][a], e)
    OBVIOUS
  <2>7. routes' = routes \/ routes' = [routes EXCEPT ![w] = [routes[w] EXCEPT ![a] = t]]
    BY <2>3, <2>6
  <2>8. PICK q : q = [routes[w] EXCEPT ![a] = t]
    OBVIOUS
  <2>9. q \in [Agent -> Seq([path : Path, handler : Handler])]
    <3>1. routes[w] \in [Agent -> Seq([path : Path, handler : Handler])]
      BY DEF IngressInv, IngressTypeOK
    <3>2. QED
      BY <2>5, <2>6, <2>8, <3>1
  <2>10. routes' = routes \/ routes' = [routes EXCEPT ![w] = q]
    BY <2>7, <2>8
  <2>11. QED
    BY <2>9, <2>10 DEF IngressInv, IngressTypeOK
<1>5. guest' \in [Agent -> GuestState] /\ GuestsTyped'
  BY <1>2, <1>3, GuestStep
<1>6. QED
  BY <1>4, <1>5 DEF RegisterRoute, IngressInv, IngressTypeOK, GuestsTyped

LEMMA HitsKeepIngress ==
    ASSUME IngressAssumption, IngressInv, NEW h \in Hit,
           \/ \E a \in Agent, p \in Path : HandleRequest(h, a, p)
           \/ WorkerTakes(h) \/ CallFails(h) \/ Resolve(h) \/ Proxy(h)
    PROVE  IngressInv'
<1>1. ASSUME NEW a \in Agent, NEW p \in Path, HandleRequest(h, a, p) PROVE IngressInv'
  <2>1. PICK s : /\ s = [stage |-> IF Matching(GatewayOfIngress, a, p) # {} THEN "calling" ELSE "resolving",
                         agent |-> a, path |-> p]
                 /\ hit' = [hit EXCEPT ![h] = s]
    BY <1>1 DEF HandleRequest
  <2>2. s \in HitState
    BY <2>1 DEF HitState
  <2>3. due' \in [Hit -> BOOLEAN]
    BY <1>1 DEF HandleRequest, IngressInv, IngressTypeOK
  <2>4. hit' \in [Hit -> HitState] /\ HitsTyped'
    BY <2>1, <2>2, HitStep
  <2>5. QED
    BY <1>1, <2>3, <2>4 DEF HandleRequest, IngressInv, IngressTypeOK, HitsTyped
<1>2. CASE WorkerTakes(h)
  <2>1. PICK a : a = hit[h].agent
    OBVIOUS
  <2>2. CASE a \in Agent
    <3>1. PICK g : g = [guest[a] EXCEPT !.stage = "running", !.by = h] /\ guest' = [guest EXCEPT ![a] = g]
      BY <1>2, <2>1 DEF WorkerTakes
    <3>2. guest[a] \in GuestState
      BY <2>2 DEF IngressInv
    <3>3. g \in GuestState /\ g.stage = "running"
      BY <3>1, <3>2 DEF GuestState
    <3>4. guest' \in [Agent -> GuestState] /\ GuestsTyped'
      BY <2>2, <3>1, <3>3, GuestStep
    <3>5. QED
      BY <1>2, <3>4 DEF WorkerTakes, IngressInv, IngressTypeOK, GuestsTyped
  <2>3. CASE a \notin Agent
    <3>1. guest' = guest
      BY <1>2, <2>1, <2>3 DEF WorkerTakes, IngressInv
    <3>2. QED
      BY <1>2, <3>1 DEF WorkerTakes, IngressInv, IngressTypeOK
  <2>4. QED
    BY <2>2, <2>3
<1>3. CASE CallFails(h) \/ Resolve(h) \/ Proxy(h)
  <2>1. registry \in {"noop", "hive", "quorum"}
    BY DEF IngressAssumption, IngressInv, IngressTypeOK
  <2>2. \A a : Resolution(a) \in {"proxying", "failed", "notFound"}
    BY <2>1 DEF Resolution
  <2>3. PICK outcome : Answer(h, outcome) /\ outcome \in {"proxying", "ok", "failed", "notFound", "unreachable"}
    <3>1. CASE CallFails(h)
      BY <3>1 DEF CallFails
    <3>2. CASE Resolve(h)
      <4>1. PICK o : o = Resolution(hit[h].agent)
        OBVIOUS
      <4>2. Answer(h, o)
        BY <3>2, <4>1 DEF Resolve
      <4>3. o \in {"proxying", "failed", "notFound"}
        BY <2>2, <4>1
      <4>4. QED
        BY <4>2, <4>3
    <3>3. CASE Proxy(h)
      BY <3>3 DEF Proxy
    <3>4. QED
      BY <1>3, <3>1, <3>2, <3>3
  <2>4. hit' \in [Hit -> HitState] /\ HitsTyped'
    BY <2>3, AnswerStep
  <2>5. UNCHANGED <<routes, guest, onWorker, wiring, registry, aliasStatus, runs, due>>
    BY <1>3 DEF CallFails, Resolve, Proxy
  <2>6. QED
    BY <2>4, <2>5 DEF IngressInv, IngressTypeOK, HitsTyped
<1>4. QED
  BY <1>1, <1>2, <1>3

\* Guests and requests keep their types, with any number of agents, paths and requests.
THEOREM IngressTypeCorrect == ASSUME IngressAssumption PROVE IngressSpec => []IngressTypeOK
<1>1. IngressInit => IngressInv
  <2> SUFFICES ASSUME IngressInit PROVE IngressInv
    OBVIOUS
  <2>1. IdleGuest \in GuestState /\ IdleGuest.stage = "idle" /\ NoHit \in HitState /\ NoHit.stage = "new"
    BY DEF IdleGuest, GuestState, NoHit, HitState
  <2>2. guest \in [Agent -> GuestState] /\ hit \in [Hit -> HitState]
    BY <2>1 DEF IngressInit
  <2>3. <<>> \in Seq([path : Path, handler : Handler])
    OBVIOUS
  <2>4. routes \in [{"sandbox", "server"} -> [Agent -> Seq([path : Path, handler : Handler])]]
    BY <2>3 DEF IngressInit
  <2>5. \A a \in Agent : guest[a].stage = "idle" /\ guest[a].by \in Hit \cup {Nothing}
    BY <2>1, <2>2, GuestFields DEF IngressInit
  <2>6. \A h \in Hit : hit[h].stage = "new"
    BY <2>1 DEF IngressInit
  <2>7. runs \in 0..MaxRuns
    BY DEF IngressInit, IngressAssumption
  <2>8. QED
    BY <2>2, <2>4, <2>5, <2>6, <2>7 DEF IngressInit, IngressInv, IngressTypeOK
<1>2. IngressInv /\ [IngressNext]_ingressVars => IngressInv'
  <2> SUFFICES ASSUME IngressInv, [IngressNext]_ingressVars PROVE IngressInv'
    OBVIOUS
  <2>1. ASSUME UNCHANGED ingressVars \/ \E a \in Agent : UpdateRoute(a) \/ LockAlias(a) PROVE IngressInv'
    <3>1. aliasStatus' \in [Agent -> {"none", "committed", "locked"}]
      BY <2>1 DEF ingressVars, UpdateRoute, LockAlias, IngressInv, IngressTypeOK
    <3>2. QED
      BY <2>1, <3>1, StutterKeepsIngress DEF ingressVars, UpdateRoute, LockAlias
  <2>2. CASE \E a \in Agent : StartRun(a) \/ EndRun(a) \/ \E p \in Path, f \in Handler : Listen(a, p, f)
    BY <2>2, RunsKeepIngress
  <2>3. CASE \E a \in Agent : RegisterRoute(a)
    BY <2>3, RegisterKeepsIngress
  <2>4. CASE \E h \in Hit : \/ \E a \in Agent, p \in Path : HandleRequest(h, a, p)
                            \/ WorkerTakes(h) \/ CallFails(h) \/ Resolve(h) \/ Proxy(h)
    BY <2>4, HitsKeepIngress
  <2>5. QED
    BY <2>1, <2>2, <2>3, <2>4 DEF IngressNext
<1>3. IngressInv => IngressTypeOK
  BY DEF IngressInv
<1>4. QED
  BY <1>1, <1>2, <1>3, PTL DEF IngressSpec

-----------------------------------------------------------------------------
(* The node: each part takes its own steps.                                 *)

\* A step of the node is a step of one part and leaves the others alone.
LEMMA NodeSteps ==
    [MCNext]_<<vars, voucherVars, marketVars, vitalityVars, ingressVars, keysVars, ociVars,
               storeVars, toolVars, contextVars, link, snapshotVars, focus>>
       => /\ [Next]_vars
          /\ [VoucherNext]_voucherVars
          /\ [MarketNext]_marketVars
          /\ [VitalityNext]_vitalityVars
          /\ [IngressNext]_ingressVars
          /\ [KeysNext]_keysVars
          /\ [OciNext]_ociVars
          /\ [StoresNext]_storeVars
          /\ [ToolsNext]_toolVars
          /\ [TunnelNext]_link
          /\ [SnapshotsNext]_snapshotVars
<1>1. [MCNext]_<<vars, voucherVars, marketVars, vitalityVars, ingressVars, keysVars, ociVars,
               storeVars, toolVars, contextVars, link, snapshotVars, focus>> => [Next]_vars
  <2>1. \A part : part # "ledger" /\ Only(part) => UNCHANGED vars
    BY DEF Only
  <2>2. QED
    BY <2>1 DEF MCNext
<1>2. [MCNext]_<<vars, voucherVars, marketVars, vitalityVars, ingressVars, keysVars, ociVars,
               storeVars, toolVars, contextVars, link, snapshotVars, focus>> => [VoucherNext]_voucherVars
  <2>1. \A part : part # "vouchers" /\ Only(part) => UNCHANGED voucherVars
    BY DEF Only
  <2>2. QED
    BY <2>1 DEF MCNext
<1>3. [MCNext]_<<vars, voucherVars, marketVars, vitalityVars, ingressVars, keysVars, ociVars,
               storeVars, toolVars, contextVars, link, snapshotVars, focus>> => [MarketNext]_marketVars
  <2>1. \A part : part # "market" /\ Only(part) => UNCHANGED marketVars
    BY DEF Only
  <2>2. QED
    BY <2>1 DEF MCNext
<1>4. [MCNext]_<<vars, voucherVars, marketVars, vitalityVars, ingressVars, keysVars, ociVars,
               storeVars, toolVars, contextVars, link, snapshotVars, focus>> => [VitalityNext]_vitalityVars
  <2>1. \A part : part # "vitality" /\ Only(part) => UNCHANGED vitalityVars
    BY DEF Only
  <2>2. QED
    BY <2>1 DEF MCNext
<1>5. [MCNext]_<<vars, voucherVars, marketVars, vitalityVars, ingressVars, keysVars, ociVars,
               storeVars, toolVars, contextVars, link, snapshotVars, focus>> => [IngressNext]_ingressVars
  <2>1. \A part : part # "ingress" /\ Only(part) => UNCHANGED ingressVars
    BY DEF Only
  <2>2. QED
    BY <2>1 DEF MCNext
<1>6. [MCNext]_<<vars, voucherVars, marketVars, vitalityVars, ingressVars, keysVars, ociVars,
               storeVars, toolVars, contextVars, link, snapshotVars, focus>> => [KeysNext]_keysVars
  <2>1. \A part : part # "keys" /\ Only(part) => UNCHANGED keysVars
    BY DEF Only
  <2>2. QED
    BY <2>1 DEF MCNext
<1>7. [MCNext]_<<vars, voucherVars, marketVars, vitalityVars, ingressVars, keysVars, ociVars,
               storeVars, toolVars, contextVars, link, snapshotVars, focus>> => [OciNext]_ociVars
  <2>1. \A part : part # "oci" /\ Only(part) => UNCHANGED ociVars
    BY DEF Only
  <2>2. QED
    BY <2>1 DEF MCNext
<1>8. [MCNext]_<<vars, voucherVars, marketVars, vitalityVars, ingressVars, keysVars, ociVars,
               storeVars, toolVars, contextVars, link, snapshotVars, focus>> => [StoresNext]_storeVars
  <2>1. \A part : part # "stores" /\ Only(part) => UNCHANGED storeVars
    BY DEF Only
  <2>2. QED
    BY <2>1 DEF MCNext
<1>9. [MCNext]_<<vars, voucherVars, marketVars, vitalityVars, ingressVars, keysVars, ociVars,
               storeVars, toolVars, contextVars, link, snapshotVars, focus>> => [ToolsNext]_toolVars
  <2>1. \A part : part # "tools" /\ Only(part) => UNCHANGED toolVars
    BY DEF Only
  <2>2. QED
    BY <2>1 DEF MCNext
<1>10. [MCNext]_<<vars, voucherVars, marketVars, vitalityVars, ingressVars, keysVars, ociVars,
               storeVars, toolVars, contextVars, link, snapshotVars, focus>> => [TunnelNext]_link
  <2>1. \A part : part # "tunnel" /\ Only(part) => UNCHANGED link
    BY DEF Only
  <2>2. QED
    BY <2>1 DEF MCNext
<1>11. [MCNext]_<<vars, voucherVars, marketVars, vitalityVars, ingressVars, keysVars, ociVars,
               storeVars, toolVars, contextVars, link, snapshotVars, focus>> => [SnapshotsNext]_snapshotVars
  <2>1. \A part : part # "snapshots" /\ Only(part) => UNCHANGED snapshotVars
    BY DEF Only
  <2>2. QED
    BY <2>1 DEF MCNext
<1>12. QED
  BY <1>1, <1>2, <1>3, <1>4, <1>5, <1>6, <1>7, <1>8, <1>9, <1>10, <1>11

\* Every behaviour of the node is one of each part, however the parts take turns: the
\* properties of a part are properties of the node.
THEOREM NodeIsItsParts ==
    MCSpec => /\ Spec
              /\ VoucherSpec
              /\ MarketSpec
              /\ VitalitySpec
              /\ IngressSpec
              /\ KeysSpec
              /\ OciSpec
              /\ StoresSpec
              /\ ToolsSpec
              /\ TunnelSpec
              /\ SnapshotsSpec
<1>1. MCSpec => Spec
  BY NodeSteps, PTL DEF MCSpec, MCInit, Spec
<1>2. MCSpec => VoucherSpec
  BY NodeSteps, PTL DEF MCSpec, MCInit, VoucherSpec
<1>3. MCSpec => MarketSpec
  BY NodeSteps, PTL DEF MCSpec, MCInit, MarketSpec
<1>4. MCSpec => VitalitySpec
  BY NodeSteps, PTL DEF MCSpec, MCInit, VitalitySpec
<1>5. MCSpec => IngressSpec
  BY NodeSteps, PTL DEF MCSpec, MCInit, IngressSpec
<1>6. MCSpec => KeysSpec
  BY NodeSteps, PTL DEF MCSpec, MCInit, KeysSpec
<1>7. MCSpec => OciSpec
  BY NodeSteps, PTL DEF MCSpec, MCInit, OciSpec
<1>8. MCSpec => StoresSpec
  BY NodeSteps, PTL DEF MCSpec, MCInit, StoresSpec
<1>9. MCSpec => ToolsSpec
  BY NodeSteps, PTL DEF MCSpec, MCInit, ToolsSpec
<1>10. MCSpec => TunnelSpec
  BY NodeSteps, PTL DEF MCSpec, MCInit, TunnelSpec
<1>11. MCSpec => SnapshotsSpec
  BY NodeSteps, PTL DEF MCSpec, MCInit, SnapshotsSpec
<1>12. QED
  BY <1>1, <1>2, <1>3, <1>4, <1>5, <1>6, <1>7, <1>8, <1>9, <1>10, <1>11

(* The router is at rest in a state of its own, called on no session, while   *)
(* another part takes steps.                                                  *)
RouterInv == IF focus = "context" THEN ContextInv ELSE report = "called"

LEMMA NodeRouter == MCSpec => [](focus \in Part /\ RouterInv)
<1>1. MCInit => focus \in Part /\ RouterInv
  <2>1. MCInit => focus \in Part
    BY DEF MCInit
  <2>2. MCInit /\ focus = "context" => ContextInv
    BY ContextStarts DEF MCInit
  <2>3. MCInit /\ focus # "context" => report = "called"
    BY DEF MCInit
  <2>4. QED
    BY <2>1, <2>2, <2>3 DEF RouterInv
<1>2. focus \in Part /\ RouterInv
         /\ [MCNext]_<<vars, voucherVars, marketVars, vitalityVars, ingressVars, keysVars, ociVars,
               storeVars, toolVars, contextVars, link, snapshotVars, focus>>
       => (focus \in Part /\ RouterInv)'
  <2> SUFFICES ASSUME focus \in Part, RouterInv,
                      [MCNext]_<<vars, voucherVars, marketVars, vitalityVars, ingressVars, keysVars, ociVars,
               storeVars, toolVars, contextVars, link, snapshotVars, focus>>
               PROVE  focus' \in Part /\ RouterInv'
    OBVIOUS
  <2>1. focus' = focus
    BY DEF MCNext, Only
  <2>2. CASE focus = "context"
    <3>1. [ContextNext]_contextVars
      BY <2>2 DEF MCNext
    <3>2. ContextInv'
      BY <2>2, <3>1, ContextKept DEF RouterInv
    <3>3. QED
      BY <2>1, <2>2, <3>2 DEF RouterInv
  <2>3. CASE focus # "context"
    <3>1. \A part : part # "context" /\ Only(part) => UNCHANGED contextVars
      BY DEF Only
    <3>2. UNCHANGED contextVars
      BY <2>3, <3>1 DEF MCNext
    <3>3. QED
      BY <2>1, <2>3, <3>2 DEF RouterInv, contextVars
  <2>4. QED
    BY <2>2, <2>3
<1>3. QED
  BY <1>1, <1>2, PTL DEF MCSpec

LEMMA TunnelTyped == TunnelInv => TunnelTypeOK
<1> SUFFICES ASSUME TunnelInv, NEW x \in Conn, NEW l, l = link[x]
             PROVE  /\ l.client \in {"new", "greeting", "waiting"} \cup Closed
                    /\ l.server \in {"accepting", "listening", "working", "ok", "failed"}
                    /\ l.command \in Command \cup {NoCommand}
                    /\ {l.rpc, l.broken, l.carriedOut} \subseteq BOOLEAN
                    /\ Len(l.up) <= 1 /\ Len(l.down) <= 1
  BY DEF TunnelTypeOK
<1>1. l \in Link
  BY DEF TunnelInv
<1>2. PICK up, down : up = l.up /\ down = l.down
  OBVIOUS
<1>3. Len(up) <= 1 /\ Len(down) <= 1
  <2>1. /\ up = <<>> \/ \E f : up = <<f>>
        /\ down = <<>> \/ \E f : down = <<f>>
    <3>1. up \in {<<>>, <<Hello>>} \cup {<<SealedCommand(k)>> : k \in Command}
      BY <1>1, <1>2 DEF Link
    <3>2. down \in {<<>>, <<Hello>>} \cup {<<Response(k)>> : k \in Command}
      BY <1>1, <1>2 DEF Link
    <3>3. up = <<>> \/ \E f : up = <<f>>
      BY <3>1, Zenon
    <3>4. down = <<>> \/ \E f : down = <<f>>
      BY <3>2, Zenon
    <3>5. QED
      BY <3>3, <3>4
  <2>2. \A f : Len(<<f>>) = 1
    BY OneFrame
  <2>3. Len(up) \in {0, 1}
    <3>1. CASE up = <<>>
      BY <3>1, NoFrame
    <3>2. CASE \E f : up = <<f>>
      BY <2>2, <3>2, Zenon
    <3>3. QED
      BY <2>1, <3>1, <3>2
  <2>4. Len(down) \in {0, 1}
    <3>1. CASE down = <<>>
      BY <3>1, NoFrame
    <3>2. CASE \E f : down = <<f>>
      BY <2>2, <3>2, Zenon
    <3>3. QED
      BY <2>1, <3>1, <3>2
  <2>5. PICK m, n : m = Len(up) /\ n = Len(down)
    OBVIOUS
  <2>6. m \in {0, 1} /\ n \in {0, 1}
    BY <2>3, <2>4, <2>5, Zenon
  <2>7. m <= 1 /\ n <= 1
    BY <2>6
  <2>8. QED
    BY <2>5, <2>7, Zenon
<1>4. QED
  BY <1>1, <1>2, <1>3 DEF Link

\* Whichever part takes steps, and however many, its state has the types it is to have.
THEOREM NodeTypeCorrect == MCSpec => []NodeTypeOK
<1>1. MCSpec => []TypeOK
  <2>1. Spec => []TypeOK
    BY LedgerTypeCorrect, FuelLedgerAssumption
  <2>2. QED
    BY <2>1, NodeIsItsParts, PTL
<1>2. MCSpec => []VoucherTypeOK
  <2>1. VoucherInv => VoucherTypeOK
    BY DEF VoucherInv
  <2>2. VoucherSpec => []VoucherInv
    BY VoucherInvariance, VouchersAssumption
  <2>3. QED
    BY <2>1, <2>2, NodeIsItsParts, PTL
<1>3. MCSpec => []MarketTypeOK
  <2>1. MarketSpec => []MarketTypeOK
    BY MarketTypeCorrect, MarketAssumption
  <2>2. QED
    BY <2>1, NodeIsItsParts, PTL
<1>4. MCSpec => []VitalityTypeOK
  <2>1. VitalityInv => VitalityTypeOK
    BY DEF VitalityInv
  <2>2. VitalitySpec => []VitalityInv
    BY VitalityInvariance, VitalityAssumption
  <2>3. QED
    BY <2>1, <2>2, NodeIsItsParts, PTL
<1>5. MCSpec => []IngressTypeOK
  <2>1. IngressSpec => []IngressTypeOK
    BY IngressTypeCorrect, IngressAssumption
  <2>2. QED
    BY <2>1, NodeIsItsParts, PTL
<1>6. MCSpec => []KeysTypeOK
  <2>1. KeysInv => KeysTypeOK
    BY DEF KeysInv
  <2>2. KeysSpec => []KeysInv
    BY KeysInvariance
  <2>3. QED
    BY <2>1, <2>2, NodeIsItsParts, PTL
<1>7. MCSpec => []OciTypeOK
  <2>1. OciSpec => []OciTypeOK
    BY OciTypeCorrect, OciAssumption
  <2>2. QED
    BY <2>1, NodeIsItsParts, PTL
<1>8. MCSpec => []StoresTypeOK
  <2>1. StoresSpec => []StoresTypeOK
    BY StoresTypeCorrect
  <2>2. QED
    BY <2>1, NodeIsItsParts, PTL
<1>9. MCSpec => []ToolsTypeOK
  <2>1. ToolsInv => ToolsTypeOK
    BY DEF ToolsInv
  <2>2. ToolsSpec => []ToolsInv
    BY ToolsInvariance
  <2>3. QED
    BY <2>1, <2>2, NodeIsItsParts, PTL
<1>10. MCSpec => []TunnelTypeOK
  <2>1. TunnelInv => TunnelTypeOK
    BY TunnelTyped
  <2>2. TunnelSpec => []TunnelInv
    BY TunnelInvariance, TunnelAssumption
  <2>3. QED
    BY <2>1, <2>2, NodeIsItsParts, PTL
<1>11. MCSpec => []SnapshotsTypeOK
  <2>1. SnapshotsSpec => []SnapshotsTypeOK
    BY SnapshotsTypeCorrect, SnapshotsAssumption
  <2>2. QED
    BY <2>1, NodeIsItsParts, PTL
<1>12. focus \in Part /\ RouterInv => (focus = "context" => ContextTypeOK)
  BY ContextSafe DEF RouterInv
<1>13. focus \in Part /\ (focus = "context" => ContextTypeOK)
        /\ TypeOK /\ VoucherTypeOK /\ MarketTypeOK /\ VitalityTypeOK /\ IngressTypeOK /\ KeysTypeOK
        /\ OciTypeOK /\ StoresTypeOK /\ ToolsTypeOK /\ TunnelTypeOK /\ SnapshotsTypeOK
       => NodeTypeOK
  BY DEF Part, NodeTypeOK
<1>14. QED
  BY <1>1, <1>2, <1>3, <1>4, <1>5, <1>6, <1>7, <1>8, <1>9, <1>10, <1>11, <1>12, <1>13, NodeRouter, PTL

-----------------------------------------------------------------------------
(* The node keeps what its parts promise.                                   *)

\* What each part promises on its own, the node keeps, whichever parts take steps in
\* whatever order: what the run of the node checks of a small one.
THEOREM NodeKeepsItsPromises ==
    MCSpec => /\ []NodeTypeOK /\ []NeverBothWait /\ []BalancesFollowLog
              /\ ImplementsLedger /\ []PaidOncePerLife /\ []ExecutionsAreFunded
              /\ NoFlapping /\ []VerdictsFollowSilence /\ []AnswersAreTrue
              /\ []HibernatingIsFound /\ []AdmissionsJustified /\ []ArtifactsWhole
              /\ []CacheBounded /\ []QuietPulls /\ []MissesAreGenuine
              /\ []PrunedAsSpecified
<1>1. MCSpec => []NodeTypeOK
  BY NodeTypeCorrect
<1>2. TunnelSpec => []NeverBothWait
  BY NoDeadlock, TunnelAssumption
<1>3. Spec => []BalancesFollowLog
  BY BalancesAreExplained, FuelLedgerAssumption
<1>4. Spec => ImplementsLedger
  BY LedgerImplemented, FuelLedgerAssumption
<1>5. VoucherSpec => []PaidOncePerLife
  BY OnePaymentPerVoucher, VouchersAssumption
<1>6. VoucherSpec => []ExecutionsAreFunded
  BY PaidExecutionsAreFunded, VouchersAssumption
<1>7. MarketSpec => NoFlapping
  BY MovesAreForGood, MarketAssumption
<1>8. VitalitySpec => []VerdictsFollowSilence
  BY VerdictsAreRight, VitalityAssumption
<1>9. TunnelSpec => []AnswersAreTrue
  BY EveryAnswerTrue, TunnelAssumption
<1>10. SnapshotsSpec => []HibernatingIsFound
  BY SleepersAreFound, SnapshotsAssumption
<1>11. KeysSpec => []AdmissionsJustified
  BY EveryAdmissionJustified
<1>12. OciSpec => []ArtifactsWhole
  BY PulledArtifactsAreWhole, OciAssumption
<1>13. StoresSpec => []CacheBounded
  BY CacheStaysBounded
<1>14. StoresSpec => []QuietPulls
  BY PullsAreQuiet
<1>15. ToolsSpec => []MissesAreGenuine
  BY MissesAreGenuineAlways
<1>16. MCSpec => []PrunedAsSpecified
  <2>1. ContextInv => PrunedAsSpecified
    BY ContextSafe
  <2>2. report = "called" => PrunedAsSpecified
    BY DEF PrunedAsSpecified
  <2>3. focus \in Part /\ RouterInv => PrunedAsSpecified
    BY <2>1, <2>2 DEF RouterInv
  <2>4. QED
    BY <2>3, NodeRouter, PTL
<1>17. QED
  BY <1>1, <1>2, <1>3, <1>4, <1>5, <1>6, <1>7, <1>8, <1>9, <1>10, <1>11, <1>12, <1>13, <1>14, <1>15, <1>16, NodeIsItsParts, PTL
=============================================================================
