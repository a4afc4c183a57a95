----------------------------- MODULE ToolServer ------------------------------
(***************************************************************************)
(* McpServer: requests come one at a time over stdio and concurrently over *)
(* HTTP; a tool call finds the wasm of its cartridge in the first of some  *)
(* directories that has it, compiles it into the cache of the              *)
(* CartridgeManager and invokes it.  Files change meanwhile, and several   *)
(* calls may load one cartridge at the same time.                          *)
(***************************************************************************)
EXTENDS Integers

CONSTANTS
    Cart,         \* cartridges
    Builtin,      \* those of DEFAULT_CARTRIDGES
    Places,       \* candidate files of a cartridge, in the order they are tried: 1..Places
    Build,        \* versions of a wasm that compile
    Broken,       \* a file that does not
    NoBuild,      \* no file, not compiled
    Lane,         \* tasks that serve requests
    Stdio,        \* those that serve a stdio session
    MaxEdits      \* bound: changes on disk

ASSUME ToolAssumption ==
    /\ Builtin \subseteq Cart /\ Stdio \subseteq Lane /\ Places \in Nat \ {0} /\ MaxEdits \in Nat
    /\ {Broken, NoBuild} \cap Build = {} /\ Broken # NoBuild

VARIABLES
    disk,         \* disk[c][i]: candidate file i of a cartridge
    compiled,     \* compiled_cache
    tools,        \* cartridges all_cartridges knows
    call,         \* call[l]: what a lane does
    closed,       \* stdio sessions that ended
    edits,        \* changes on disk so far
    served        \* cartridges that ran for somebody (not in the code)

toolVars == <<disk, compiled, tools, call, closed, edits, served>>

NoCall == [stage |-> "idle", cart |-> NoBuild, next |-> 1, bytes |-> NoBuild,
           outcome |-> "none", ranBefore |-> FALSE]

ToolsInit ==
    /\ disk = [c \in Cart |-> [i \in 1..Places |-> NoBuild]]
    /\ compiled = [c \in Cart |-> NoBuild]
    /\ tools = Builtin
    /\ call = [l \in Lane |-> NoCall]
    /\ closed = {}
    /\ edits = 0
    /\ served = {}

\* Somebody builds, breaks or removes a file.
EditDisk(c, i) ==
    /\ edits < MaxEdits /\ edits' = edits + 1
    /\ \E b \in Build \cup {Broken, NoBuild} : disk' = [disk EXCEPT ![c][i] = b]
    /\ UNCHANGED <<compiled, tools, call, closed, served>>

\* register_tool, for a cartridge that is not built in.
RegisterTool(c) ==
    /\ c \notin tools /\ tools' = tools \cup {c}
    /\ UNCHANGED <<disk, compiled, call, closed, edits, served>>

\* A request that is answered at once: initialize, tools/list, a parse error, an unknown
\* method or tool, and what the sandbox answers to snapshot and fork.
AnswerAtOnce(l) ==
    /\ call[l] = NoCall /\ l \notin closed
    /\ call' = [call EXCEPT ![l].stage = "done", ![l].outcome = "plain"]
    /\ UNCHANGED <<disk, compiled, tools, closed, edits, served>>

\* A line of more than 10 MB ends a stdio session, without an answer.
Oversize(l) ==
    /\ l \in Stdio /\ call[l] = NoCall
    /\ closed' = closed \cup {l}
    /\ UNCHANGED <<disk, compiled, tools, call, edits, served>>

\* invoke_tool, invoke_execute: the cartridge is loaded first, unless it is cached.
BeginCall(l, c) ==
    /\ call[l] = NoCall /\ l \notin closed /\ c \in tools
    /\ call' = [call EXCEPT ![l] = [NoCall EXCEPT
          !.stage = IF compiled[c] = NoBuild THEN "searching" ELSE "invoking",
          !.cart = c, !.ranBefore = c \in served]]
    /\ UNCHANGED <<disk, compiled, tools, closed, edits, served>>

\* The API's benchmark is a call, over HTTP, of a built-in cartridge.
HandleSandboxBenchmark(l, c) == l \notin Stdio /\ c \in Builtin /\ BeginCall(l, c)

\* ensure_loaded reads the next candidate, and takes the first that can be read.
ReadCandidate(l) ==
    LET k == call[l] IN
    /\ k.stage = "searching"
    /\ call' = [call EXCEPT ![l] =
          IF disk[k.cart][k.next] # NoBuild
          THEN [k EXCEPT !.stage = "compiling", !.bytes = disk[k.cart][k.next]]
          ELSE IF k.next = Places THEN [k EXCEPT !.stage = "invoking"]
          ELSE [k EXCEPT !.next = k.next + 1]]
    /\ UNCHANGED <<disk, compiled, tools, closed, edits, served>>

Running(c) == {l \in Lane : call[l].stage = "running" /\ call[l].cart = c}

\* Mutant: what does not compile evicts what did.
PutEvicting(c, bytes) == IF bytes \in Build THEN bytes ELSE NoBuild
\* The component takes the place of the cached one; a failure is ignored.
Put(c, bytes) == IF bytes \in Build THEN bytes ELSE compiled[c]

\* precompile: the write waits for invocations of the cartridge, which hold the entry.
Precompile(l) ==
    LET k == call[l] IN
    /\ k.stage = "compiling" /\ (k.bytes \in Build => Running(k.cart) = {})
    /\ compiled' = [compiled EXCEPT ![k.cart] = Put(k.cart, k.bytes)]
    /\ call' = [call EXCEPT ![l].stage = "invoking"]
    /\ UNCHANGED <<disk, tools, closed, edits, served>>

\* invoke looks the component up.
Invoke(l) ==
    LET k == call[l] IN
    /\ k.stage = "invoking"
    /\ IF compiled[k.cart] = NoBuild
       THEN call' = [call EXCEPT ![l].stage = "done", ![l].outcome = "missing"] /\ UNCHANGED served
       ELSE call' = [call EXCEPT ![l].stage = "running"] /\ served' = served \cup {k.cart}
    /\ UNCHANGED <<disk, compiled, tools, closed, edits>>

\* The cartridge answers, or an error of it becomes the text of an answer.
EndCall(l) ==
    /\ call[l].stage = "running"
    /\ \E outcome \in {"ok", "fuel", "memory", "error"} :
          call' = [call EXCEPT ![l].stage = "done", ![l].outcome = outcome]
    /\ UNCHANGED <<disk, compiled, tools, closed, edits, served>>

\* The answer goes out, and the lane takes the next request.
Finish(l) ==
    /\ call[l].stage = "done"
    /\ call' = [call EXCEPT ![l] = NoCall]
    /\ UNCHANGED <<disk, compiled, tools, closed, edits, served>>

\* As a line, or as the body of an HTTP response.
WriteAnswer(l) == l \in Stdio /\ Finish(l)
HandleHttpRequest(l) == l \notin Stdio /\ Finish(l)

ToolsNext ==
    \/ \E c \in Cart : RegisterTool(c) \/ \E i \in 1..Places : EditDisk(c, i)
    \/ \E l \in Lane : \/ AnswerAtOnce(l) \/ Oversize(l)
                       \/ \E c \in Cart : BeginCall(l, c) \/ HandleSandboxBenchmark(l, c)
                       \/ ReadCandidate(l) \/ Precompile(l) \/ Invoke(l)
                       \/ EndCall(l) \/ WriteAnswer(l) \/ HandleHttpRequest(l)

ToolsSpec == ToolsInit /\ [][ToolsNext]_toolVars

-----------------------------------------------------------------------------
(* Properties *)

ToolsTypeOK ==
    /\ disk \in [Cart -> [1..Places -> Build \cup {Broken, NoBuild}]]
    /\ compiled \in [Cart -> Build \cup {NoBuild}]
    /\ Builtin \subseteq tools /\ tools \subseteq Cart
    /\ call \in [Lane -> [stage : {"idle", "searching", "compiling", "invoking", "running", "done"},
                           cart : Cart \cup {NoBuild}, next : 1..Places,
                           bytes : Build \cup {Broken, NoBuild},
                           outcome : {"none", "plain", "missing", "ok", "fuel", "memory", "error"},
                           ranBefore : BOOLEAN]]
    /\ \A l \in Lane : call[l].stage \notin {"idle", "done"} => call[l].cart \in tools
    /\ closed \subseteq Stdio
    /\ edits \in 0..MaxEdits
    /\ served \subseteq Cart

\* A call is told that its cartridge is missing only if it never ran before: neither a
\* file that goes or breaks nor a load that fails next to it takes a tool away from
\* those who use it (ensure_loaded, precompile, invoke).
MissesAreGenuine ==
    \A l \in Lane : call[l].outcome = "missing" => ~call[l].ranBefore
=============================================================================
