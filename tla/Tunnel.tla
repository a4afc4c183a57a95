------------------------------- MODULE Tunnel -------------------------------
(***************************************************************************)
(* One command over one connection of the hive: HiveClient dials, both     *)
(* ends make a Noise handshake, the client seals its command, the server   *)
(* decodes it, carries it out and answers, and the connection ends.        *)
(* Nothing has a timeout, and either end may vanish at any moment.         *)
(*                                                                         *)
(* What is written arrives in order or not at all: a frame that is cut off *)
(* is not read (read_exact).  Over TLS, which only tests configure, the    *)
(* exchange is the same.  What commands do is in the modules Teleport,     *)
(* Market, Vitality and Ingress; a command is carried out when its handler *)
(* met no error, whatever becomes of the tasks it leaves behind.           *)
(***************************************************************************)
EXTENDS Integers, Sequences

CONSTANTS
    Conn,         \* connections, each for one command
    Command,      \* commands: size of the payload, how they are answered, whether they may
                  \* fail, and whether a failure is acknowledged too
    NoCommand,
    ChunkSize,    \* plaintext of a Noise message: 65000 bytes in the code
    Overhead,     \* length prefix and tag of a Noise message
    MaxTransfer,  \* what a tunnel seals before it asks for new keys: 1 GB
    MaxPayload    \* what either end reads at once: 200 MB

\* How the server answers a command: with nothing, with a sealed command, or with one
\* that is not sealed.
Answers == {"empty", "sealed", "plain"}

ASSUME TunnelAssumption ==
    /\ NoCommand \notin Command
    /\ \A k \in Command : k.size \in Nat /\ k.answer \in Answers
    /\ \A k \in Command : {k.mayFail, k.acksFailure} \subseteq BOOLEAN
    /\ ChunkSize \in Nat \ {0} /\ {Overhead, MaxTransfer, MaxPayload} \subseteq Nat

VARIABLES
    link          \* link[x]: a connection, its two ends and what is on its way

Closed == {"ok", "pulse", "answer", "failed"}

NewLink == [client |-> "new", server |-> "accepting", command |-> NoCommand, rpc |-> FALSE,
            up |-> <<>>, down |-> <<>>, broken |-> FALSE, carriedOut |-> FALSE]

TunnelInit == link = [x \in Conn |-> NewLink]

Hello == [what |-> "hello", size |-> 1]
Response(command) == [what |-> command.answer, size |-> 1]

\* What is written on a broken connection is lost.
Written(l, way, frames) == IF l.broken THEN way ELSE way \o frames

\* send_command and rpc_call: the initiator's half of the handshake.
Dial(x, command, rpc) ==
    LET l == link[x] IN
    /\ l.client = "new"
    /\ link' = [link EXCEPT ![x] = [l EXCEPT
          !.client = "greeting", !.command = command, !.rpc = rpc,
          !.up = Written(l, @, <<Hello>>)]]

\* The responder's half, after which the pattern NN is complete.
Greet(x) ==
    LET l == link[x] IN
    /\ l.server = "accepting" /\ l.up # <<>>
    /\ link' = [link EXCEPT ![x] = [l EXCEPT
          !.server = "listening", !.up = Tail(@), !.down = Written(l, @, <<Hello>>)]]

\* encrypt_command: a payload is cut into chunks, each a Noise message with its prefix.
SealedSize(size) == size + ((size + ChunkSize - 1) \div ChunkSize) * Overhead

\* The client seals the command, unless the tunnel has sealed too much.
SendCommand(x) ==
    LET l == link[x] IN
    /\ l.client = "greeting" /\ l.down # <<>>
    /\ link' = [link EXCEPT ![x] =
          IF l.command.size > MaxTransfer
          THEN [l EXCEPT !.client = "failed", !.down = Tail(@)]
          ELSE [l EXCEPT !.client = "waiting", !.down = Tail(@), !.up =
                   Written(l, @, <<[what |-> "sealed", size |-> SealedSize(l.command.size)]>>)]]

\* The server reads the command, unless its frame is too large, and decodes it.
TakeCommand(x) ==
    LET l == link[x] IN
    /\ l.server = "listening" /\ l.up # <<>>
    /\ link' = [link EXCEPT ![x] = [l EXCEPT !.up = Tail(@),
          !.server = IF Head(l.up).size > MaxPayload THEN "failed" ELSE "working"]]

\* Mutant: an error of any command is logged and the command acknowledged.
AnsweredAlways(command, ok) == TRUE
\* An error of a command ends process_command before it answers, but handle_live_migration
\* logs a failed import and acknowledges it.
Answered(command, ok) == ok \/ command.acksFailure

\* Mutant: after an error the server reads on, for another command.
ProcessCommandReadsOn(x) ==
    LET l == link[x] IN
    /\ l.server = "working"
    /\ \E ok \in {TRUE} \cup (IF l.command.mayFail THEN {FALSE} ELSE {}) :
          LET answered == Answered(l.command, ok) IN
          link' = [link EXCEPT ![x] = [l EXCEPT
             !.server = IF answered THEN "ok" ELSE "listening", !.carriedOut = ok,
             !.down = Written(l, @, IF answered THEN <<Response(l.command)>> ELSE <<>>)]]
\* process_command carries the command out, without an error or with one, and answers at
\* its end: with nothing, with a sealed Pulse (Join), or with a response that is not
\* sealed (ResolveAlias, RegistryQuery).
ProcessCommand(x) ==
    LET l == link[x] IN
    /\ l.server = "working"
    /\ \E ok \in {TRUE} \cup (IF l.command.mayFail THEN {FALSE} ELSE {}) :
          LET answered == Answered(l.command, ok) IN
          link' = [link EXCEPT ![x] = [l EXCEPT
             !.server = IF answered THEN "ok" ELSE "failed", !.carriedOut = ok,
             !.down = Written(l, @, IF answered THEN <<Response(l.command)>> ELSE <<>>)]]

\* decrypt_payload: what is not made of Noise messages is an error.
Decrypted(payload) == IF payload.what = "sealed" THEN "answer" ELSE "failed"

\* send_command takes any four bytes for an acknowledgement.  rpc_call reads a response,
\* if there is one, and decrypts it.
TakeAnswer(x) ==
    LET l == link[x] IN
    /\ l.client = "waiting" /\ l.down # <<>>
    /\ link' = [link EXCEPT ![x] = [l EXCEPT !.down = Tail(@),
          !.client = IF ~l.rpc THEN "ok"
                     ELSE IF Head(l.down).what = "empty" THEN "pulse"
                     ELSE Decrypted(Head(l.down))]]

\* The network or an end fails: of what is on its way, a prefix is left.
Break(x) ==
    LET l == link[x] IN
    /\ ~l.broken
    /\ \E i \in 0..Len(l.up), j \in 0..Len(l.down) :
          link' = [link EXCEPT ![x] = [l EXCEPT !.broken = TRUE,
             !.up = SubSeq(@, 1, i), !.down = SubSeq(@, 1, j)]]

\* read_exact fails at an end of the stream.
ClientReadFails(x) ==
    LET l == link[x] IN
    /\ l.client \in {"greeting", "waiting"} /\ l.down = <<>>
    /\ l.broken \/ l.server \in Closed
    /\ link' = [link EXCEPT ![x].client = "failed"]

ServerReadFails(x) ==
    LET l == link[x] IN
    /\ l.server \in {"accepting", "listening"} /\ l.up = <<>>
    /\ l.broken \/ l.client \in Closed
    /\ link' = [link EXCEPT ![x].server = "failed"]

TunnelNext ==
    \E x \in Conn :
        \/ \E k \in Command, rpc \in BOOLEAN : Dial(x, k, rpc)
        \/ Greet(x) \/ SendCommand(x) \/ TakeCommand(x) \/ ProcessCommand(x) \/ TakeAnswer(x)
        \/ Break(x) \/ ClientReadFails(x) \/ ServerReadFails(x)

TunnelSpec == TunnelInit /\ [][TunnelNext]_link

-----------------------------------------------------------------------------
(* Properties *)

TunnelTypeOK ==
    \A x \in Conn : LET l == link[x] IN
        /\ l.client \in {"new", "greeting", "waiting"} \cup Closed
        /\ l.server \in {"accepting", "listening", "working", "ok", "failed"}
        /\ l.command \in Command \cup {NoCommand}
        /\ {l.rpc, l.broken, l.carriedOut} \subseteq BOOLEAN
        /\ Len(l.up) <= 1 /\ Len(l.down) <= 1

\* Whenever the connection breaks, a client that reports success had its command carried
\* out without an error, unless it is one whose failures the server acknowledges (a live
\* migration); one that got a response got the server's; and no command over a limit is
\* carried out or reported as a success.  The converse fails: a command may be carried
\* out and its acknowledgement lost (send_command, rpc_call, handle_connection).
AnswersAreTrue ==
    \A x \in Conn : LET l == link[x] IN
        /\ l.client \in Closed \ {"failed"} => l.carriedOut \/ l.command.acksFailure
        /\ l.client = "answer" => l.command.answer = "sealed"
        /\ l.client = "pulse" => l.command.answer = "empty"
        /\ l.carriedOut \/ l.client \in Closed \ {"failed"} =>
              SealedSize(l.command.size) <= MaxPayload /\ l.command.size <= MaxTransfer

\* The ends never wait for each other: without timeouts neither would ever stop.
NeverBothWait ==
    \A x \in Conn : LET l == link[x] IN
        ~ /\ l.client \in {"greeting", "waiting"} /\ l.down = <<>>
          /\ l.server \in {"accepting", "listening"} /\ l.up = <<>>
          /\ ~l.broken
=============================================================================
