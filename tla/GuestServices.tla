--------------------------- MODULE GuestServices ---------------------------
(***************************************************************************)
(* The services a running agent buys with its fuel: fetch through the      *)
(* egress policy, the tenant's quota and the oracle, model_load and        *)
(* model_predict through the model proxy, invoke_component through the     *)
(* cartridge manager; with them the inference sessions of the node, which  *)
(* the API extends, and the images executions leave and resume.            *)
(*                                                                         *)
(* The recorded answers are files in the work directory of an execution,   *)
(* and the guest may do to its files what it likes; nothing verifies a     *)
(* record when it is read.                                                 *)
(*                                                                         *)
(* The outside world may answer anything: each of its answers is a new     *)
(* version.  What the oracle and the model proxy promise is that a lineage *)
(* of executions hears one version per question.                           *)
(***************************************************************************)
EXTENDS Naturals, Sequences, FiniteSets

CONSTANTS
    Exec,          \* executions
    Tenant,        \* tenant ids, derived from the author's key
    Url, Allowed,  \* what is fetched, and what the manifest allows
    Prompt,        \* inference requests, as hash_request tells them apart
    Cartridge,     \* content ids of cartridges
    Session,       \* ids of inference sessions
    Caller,        \* clients of the inference API
    Limit,         \* max_egress_bytes an execution may come with
    Budget,        \* fuel an execution starts with
    FetchCost, ResponseCost, PredictCost, LoadCost,
    MaxCalls,      \* bound: calls of all executions and callers
    MaxInfers,     \* bound: predictions asked for through the API
    None           \* no call, no answer, no parent

ASSUME GuestServicesAssumption ==
    /\ Allowed \subseteq Url /\ Url \cap Prompt = {}
    /\ Limit \subseteq Nat /\ Budget \in Nat /\ MaxCalls \in Nat /\ MaxInfers \in Nat
    /\ FetchCost \in Nat /\ ResponseCost \in Nat /\ PredictCost \in Nat /\ LoadCost \in Nat
    /\ None \notin Url \cup Prompt \cup Exec

Question == Url \cup Prompt
\* ok: an HTTP status from 200 to 399; size: bytes of the body
Answer == [version : Nat, ok : BOOLEAN, size : {0, 1}]
\* What resolve's caller makes of an error: status 500 and an empty body.
Failure == [version |-> 0, ok |-> FALSE, size |-> 0]
\* An answer that the guest made up: no version of the outside world.
Forged == [version |-> 0, ok |-> TRUE, size |-> 0]

\* The directories oracle_cache/<tenant> under the work directory.
Cache == [Tenant -> [Question -> Answer \cup {Failure}]]
EmptyCache == [t \in Tenant |-> [q \in Question |-> Failure]]

\* Exchanges by number: a prompt and its response have the same one.  created: the
\* registry has an entry for the session.
History == [created : BOOLEAN, prompts : Seq(Nat), responses : Seq(Nat), total : Nat]
NewHistory == [created |-> FALSE, prompts |-> <<>>, responses |-> <<>>, total |-> 0]

Execution ==
    [status : {"new", "running", "ended", "lost"},
     tenant : Tenant, limit : Limit, fuel : Nat,
     pc : {"guest", "outside", "answered"},   \* where the host function stands
     asked : Question \cup {None}, answer : Answer,
     cache : Cache,                           \* its work directory
     image : [Session -> History]]            \* the sessions in its snapshot

VARIABLES
    run,        \* run[e]
    usage,      \* QuotaManager: usage[t]
    compiled,   \* CartridgeManager: the compiled cache
    loaded,     \* ModelRegistry: whether the model is loaded
    sessions,   \* ModelRegistry: sessions[s]
    inferring,  \* inferring[c]: the session a caller copied, and its copy
    calls, exchanges, answers,  \* how many were made so far
    sent,       \* sent[t]: requests that left the node (not in the code)
    heard,      \* heard[e][t][q]: versions e or its ancestors heard (not in the code)
    touched,    \* touched[e]: records that guest e or an ancestor rewrote (not in the code)
    due         \* due[e]: the price of what was rendered to e (not in the code)

vars == <<run, usage, compiled, loaded, sessions, inferring, calls, exchanges,
          answers, sent, heard, touched, due>>
node == <<compiled, loaded, sessions, inferring, exchanges>>

Init ==
    /\ \E t \in Tenant, n \in Limit :
          run = [e \in Exec |->
                   [status |-> "new", tenant |-> t, limit |-> n, fuel |-> 0, pc |-> "guest",
                    asked |-> None, answer |-> Failure, cache |-> EmptyCache,
                    image |-> [s \in Session |-> NewHistory]]]
    /\ usage = [t \in Tenant |-> 0] /\ sent = [t \in Tenant |-> 0]
    /\ compiled = {} /\ loaded = FALSE
    /\ sessions = [s \in Session |-> NewHistory]
    /\ inferring = [c \in Caller |-> [session |-> None, copy |-> NewHistory]]
    /\ calls = 0 /\ exchanges = 0 /\ answers = 0
    /\ heard = [e \in Exec |-> [t \in Tenant |-> [q \in Question |-> {}]]]
    /\ touched = [e \in Exec |-> {}]
    /\ due = [e \in Exec |-> 0]

Running(e, pc) == run[e].status = "running" /\ run[e].pc = pc
Directory(e) == run[e].cache[run[e].tenant]
\* Mutant: without the test.
DeductUnchecked(fuel, cost) == fuel - cost
\* deduct_fuel: what is missing is not asked for again.
Deduct(fuel, cost) == IF fuel < cost THEN 0 ELSE fuel - cost
\* Mutant: tests what was recorded before, not what would be.
FitsQuotaOffByOne(t, bytes, limit) == usage[t] <= limit
\* check_and_record: under the entry's lock, so one step.
FitsQuota(t, bytes, limit) == usage[t] + bytes <= limit

-----------------------------------------------------------------------------
(* Executions come and go *)

\* Restoring the sessions of an image overwrites those the node has.
Restored(image) == [s \in Session |-> IF image[s].created THEN image[s] ELSE sessions[s]]

\* An execution starts anew or from the image of one that ended, with the
\* manifest it comes with: the tenant may be another one.
Start(e, t, n, parent) ==
    /\ run[e].status = "new"
    /\ parent # None => run[parent].status = "ended"
    /\ run' = [run EXCEPT ![e].status = "running", ![e].tenant = t, ![e].limit = n,
                          ![e].fuel = Budget,
                          ![e].cache = IF parent = None THEN @ ELSE run[parent].cache]
    /\ heard' = [heard EXCEPT ![e] = IF parent = None THEN @ ELSE heard[parent]]
    /\ touched' = [touched EXCEPT ![e] = IF parent = None THEN @ ELSE touched[parent]]
    /\ sessions' = IF parent = None THEN sessions ELSE Restored(run[parent].image)
    /\ UNCHANGED <<usage, compiled, loaded, inferring, calls, exchanges, answers, sent, due>>

\* The guest returns, traps or is out of fuel: either way an image is stored.
End(e) ==
    /\ Running(e, "guest")
    /\ run' = [run EXCEPT ![e].status = "ended", ![e].image = sessions, ![e].fuel = 0]
    /\ UNCHANGED <<usage, node, calls, answers, sent, heard, due, touched>>

\* The task is dropped with its client: the work directory goes with it.
Cancel(e) ==
    /\ run[e].status = "running"
    /\ run' = [run EXCEPT ![e].status = "lost", ![e].fuel = 0, ![e].pc = "guest",
                          ![e].asked = None, ![e].answer = Failure, ![e].cache = EmptyCache]
    /\ UNCHANGED <<usage, node, calls, answers, sent, heard, due, touched>>

\* What a guest may make of a record: nothing, an invention, a copy of another record.
Writable(e) == {Failure, Forged} \cup {run[e].cache[u][p] : u \in Tenant, p \in Question}

\* The guest has its whole work directory for reading and writing, the recorded answers
\* of every tenant included: it removes one, copies one over another or makes one up.
\* Only the records of questions that may be asked are ever read.
RewriteRecord(e, t, q) ==
    /\ Running(e, "guest") /\ calls < MaxCalls
    /\ q \in Allowed \cup Prompt
    /\ calls' = calls + 1
    /\ \E answer \in Writable(e) :
          /\ answer # run[e].cache[t][q]
          /\ run' = [run EXCEPT ![e].cache[t][q] = answer]
    /\ touched' = [touched EXCEPT ![e] = @ \cup {<<t, q>>}]
    /\ UNCHANGED <<usage, node, answers, sent, heard, due>>

-----------------------------------------------------------------------------
(* fetch and model_predict *)

\* The answer in the cache, or the question goes outside (resolve_inner).
Resolve(e, q, fuel) ==
    run' = [run EXCEPT ![e].fuel = fuel, ![e].asked = q,
                       ![e].pc = IF Directory(e)[q] # Failure THEN "answered" ELSE "outside",
                       ![e].answer = Directory(e)[q]]

\* ModelProxy::predict does the same with the payload of an inference.
Consult(e, p) == Resolve(e, p, run[e].fuel)

\* A domain the policy does not allow traps before anything is charged.
FetchDenied(e, u) ==
    /\ Running(e, "guest") /\ u \notin Allowed /\ calls < MaxCalls
    /\ calls' = calls + 1
    /\ run' = [run EXCEPT ![e].status = "ended", ![e].image = sessions, ![e].fuel = 0]
    /\ UNCHANGED <<usage, node, answers, sent, heard, due, touched>>

\* The fuel is charged before the quota is asked: a refused fetch has its price.
FetchRefused(e, u) ==
    /\ Running(e, "guest") /\ u \in Allowed /\ calls < MaxCalls
    /\ ~FitsQuota(run[e].tenant, 1, run[e].limit)
    /\ calls' = calls + 1
    /\ run' = [run EXCEPT ![e].fuel = Deduct(@, FetchCost)]
    /\ due' = [due EXCEPT ![e] = @ + FetchCost]
    /\ UNCHANGED <<usage, node, answers, sent, heard, touched>>

Fetch(e, u) ==
    /\ Running(e, "guest") /\ u \in Allowed /\ calls < MaxCalls
    /\ FitsQuota(run[e].tenant, 1, run[e].limit)
    /\ calls' = calls + 1
    /\ usage' = [usage EXCEPT ![run[e].tenant] = @ + 1]
    /\ Resolve(e, u, Deduct(run[e].fuel, FetchCost))
    /\ due' = [due EXCEPT ![e] = @ + FetchCost]
    /\ UNCHANGED <<node, answers, sent, heard, touched>>

\* A prompt that is too long for the model is answered 7 at once: no step.
Predict(e, p) ==
    /\ Running(e, "guest") /\ calls < MaxCalls
    /\ calls' = calls + 1
    /\ Consult(e, p)
    /\ UNCHANGED <<usage, node, answers, sent, heard, due, touched>>

\* Mutant: only successful answers are recorded.
RecordedIfOk(e, q, answer) ==
    IF answer.ok THEN [run[e].cache EXCEPT ![run[e].tenant][q] = answer] ELSE run[e].cache
\* Mutant: one directory for all tenants.
RecordedForAll(e, q, answer) == [t \in Tenant |-> [run[e].cache[t] EXCEPT ![q] = answer]]
\* The work directory once an answer was written to the tenant's directory.
Recorded(e, q, answer) == [run[e].cache EXCEPT ![run[e].tenant][q] = answer]

\* The server answers, with an error status or not; the signed answer is written
\* before it is returned.
ServerAnswers(e, ok, size) ==
    LET answer == [version |-> answers + 1, ok |-> ok, size |-> size]
    IN  /\ Running(e, "outside") /\ run[e].asked \in Url
        /\ answers' = answers + 1
        /\ sent' = [sent EXCEPT ![run[e].tenant] = @ + 1]
        /\ run' = [run EXCEPT ![e].pc = "answered", ![e].answer = answer,
                              ![e].cache = Recorded(e, run[e].asked, answer)]
        /\ UNCHANGED <<usage, node, calls, heard, due, touched>>

\* The provider answers; its errors are not recorded.
ProviderAnswers(e) ==
    LET answer == [version |-> answers + 1, ok |-> TRUE, size |-> 0]
    IN  /\ Running(e, "outside") /\ run[e].asked \in Prompt
        /\ answers' = answers + 1
        /\ run' = [run EXCEPT ![e].pc = "answered", ![e].answer = answer,
                              ![e].cache = Recorded(e, run[e].asked, answer)]
        /\ UNCHANGED <<usage, node, calls, sent, heard, due, touched>>

\* Nothing comes back, or what came back cannot be written: an error either way.
OutsideFails(e) ==
    /\ Running(e, "outside")
    /\ sent' = [sent EXCEPT ![run[e].tenant] = IF run[e].asked \in Url THEN @ + 1 ELSE @]
    /\ run' = [run EXCEPT ![e].pc = "answered", ![e].answer = Failure]
    /\ UNCHANGED <<usage, node, calls, answers, heard, due, touched>>

Hears(e) == heard' = [heard EXCEPT ![e][run[e].tenant][run[e].asked] =
                          IF run[e].answer = Failure THEN @ ELSE @ \cup {run[e].answer.version}]

\* The body is recorded if it fits the quota, handed over if it does not, and
\* charged for after the fact.
FetchReturns(e) ==
    LET t == run[e].tenant
        size == run[e].answer.size
        cost == ResponseCost * size
    IN  /\ Running(e, "answered") /\ run[e].asked \in Url
        /\ usage' = [usage EXCEPT ![t] = IF FitsQuota(t, size, run[e].limit) THEN @ + size ELSE @]
        /\ run' = [run EXCEPT ![e].pc = "guest", ![e].asked = None, ![e].answer = Failure,
                              ![e].fuel = Deduct(@, cost)]
        /\ due' = [due EXCEPT ![e] = @ + cost]
        /\ Hears(e)
        /\ UNCHANGED <<node, calls, answers, sent, touched>>

\* A cached answer costs what a fresh one does; an error costs nothing.
PredictReturns(e) ==
    LET cost == IF run[e].answer = Failure THEN 0 ELSE PredictCost
    IN  /\ Running(e, "answered") /\ run[e].asked \in Prompt
        /\ run' = [run EXCEPT ![e].pc = "guest", ![e].asked = None, ![e].answer = Failure,
                              ![e].fuel = Deduct(@, cost)]
        /\ due' = [due EXCEPT ![e] = @ + cost]
        /\ Hears(e)
        /\ UNCHANGED <<usage, node, calls, answers, sent, touched>>

-----------------------------------------------------------------------------
(* invoke_component: the fuel given is taken first, what comes back depends *)
(* on how the cartridge ended.                                              *)

\* How an invocation of a compiled cartridge may end, and what it burned.
Outcomes(given) ==
    [end : {"ok", "error", "trap", "interface", "memory"}, burned : 0..given]
    \cup {[end |-> "fuel", burned |-> given]}

\* The consumption reported to the host function.  A trap that is neither about
\* fuel nor about memory and a missing interface report that there was none.
Reported(outcome) == IF outcome.end \in {"ok", "error"} THEN outcome.burned ELSE 0

\* Mutant: every failure gives back what was not reported as consumed.
RefundAny(given, outcome) == given - Reported(outcome)
\* An exhausted cartridge, of fuel or of memory, gives nothing back.
Refund(given, outcome) ==
    IF outcome.end \in {"fuel", "memory"} THEN 0 ELSE given - Reported(outcome)

\* What a cartridge burned is due, unless its failure reports nothing.
Owed(outcome) == IF outcome.end \in {"trap", "interface"} THEN 0 ELSE outcome.burned

InvokeComponent(e, c, given) ==
    /\ Running(e, "guest") /\ calls < MaxCalls
    /\ given <= run[e].fuel
    /\ calls' = calls + 1
    /\ \/ /\ c \in compiled
          /\ \E outcome \in Outcomes(given) :
                /\ run' = [run EXCEPT ![e].fuel = @ - given + Refund(given, outcome)]
                /\ due' = [due EXCEPT ![e] = @ + Owed(outcome)]
       \/ /\ c \notin compiled       \* RegistryError: all of it comes back
          /\ UNCHANGED <<run, due>>
    /\ UNCHANGED <<usage, node, answers, sent, heard, touched>>

\* The MCP server and the command line compile cartridges for the whole node.
Precompile(c) ==
    /\ c \notin compiled
    /\ compiled' = compiled \cup {c}
    /\ UNCHANGED <<run, usage, loaded, sessions, inferring, calls, exchanges, answers,
                   sent, heard, due, touched>>

-----------------------------------------------------------------------------
(* model_load, and predictions of the API on the node's sessions *)

ModelLoad(e) ==
    /\ Running(e, "guest") /\ calls < MaxCalls
    /\ calls' = calls + 1
    /\ loaded' = TRUE
    /\ run' = [run EXCEPT ![e].fuel = Deduct(@, LoadCost)]
    /\ due' = [due EXCEPT ![e] = @ + LoadCost]
    /\ UNCHANGED <<usage, compiled, sessions, inferring, exchanges, answers, sent, heard, touched>>

Extended(h, n) == [created |-> TRUE, prompts |-> Append(h.prompts, n),
                   responses |-> Append(h.responses, n), total |-> h.total + 1]

\* get_or_create_session hands out a copy, which the prediction extends.
InferBegins(c, s) ==
    /\ loaded /\ inferring[c].session = None /\ exchanges < MaxInfers
    /\ exchanges' = exchanges + 1
    /\ inferring' = [inferring EXCEPT ![c] =
                        [session |-> s, copy |-> Extended(sessions[s], exchanges + 1)]]
    /\ sessions' = [sessions EXCEPT ![s].created = TRUE]
    /\ UNCHANGED <<run, usage, compiled, loaded, calls, answers, sent, heard, due, touched>>

\* Mutant: the exchange is added to what the session has become.
InferEndsInPlace(c) ==
    /\ inferring[c].session # None
    /\ sessions' = [sessions EXCEPT ![inferring[c].session] =
                        Extended(@, inferring[c].copy.prompts[inferring[c].copy.total])]
    /\ inferring' = [inferring EXCEPT ![c] = [session |-> None, copy |-> NewHistory]]
    /\ UNCHANGED <<run, usage, compiled, loaded, calls, exchanges, answers, sent, heard, due, touched>>

\* update_session replaces the session by the copy, whatever others did to it
\* in the meantime.
InferEnds(c) ==
    /\ inferring[c].session # None
    /\ sessions' = [sessions EXCEPT ![inferring[c].session] = inferring[c].copy]
    /\ inferring' = [inferring EXCEPT ![c] = [session |-> None, copy |-> NewHistory]]
    /\ UNCHANGED <<run, usage, compiled, loaded, calls, exchanges, answers, sent, heard, due, touched>>

\* The client hangs up before the copy is written back: the session keeps its entry.
InferDropped(c) ==
    /\ inferring[c].session # None
    /\ inferring' = [inferring EXCEPT ![c] = [session |-> None, copy |-> NewHistory]]
    /\ UNCHANGED <<run, usage, compiled, loaded, sessions, calls, exchanges, answers, sent,
                   heard, due, touched>>

-----------------------------------------------------------------------------
Next ==
    \/ \E e \in Exec :
          \/ \E t \in Tenant, n \in Limit, parent \in Exec \cup {None} : Start(e, t, n, parent)
          \/ End(e) \/ Cancel(e)
          \/ \E t \in Tenant, q \in Question : RewriteRecord(e, t, q)
          \/ \E u \in Url : FetchDenied(e, u) \/ FetchRefused(e, u) \/ Fetch(e, u)
          \/ \E p \in Prompt : Predict(e, p)
          \/ \E ok \in BOOLEAN, size \in {0, 1} : ServerAnswers(e, ok, size)
          \/ ProviderAnswers(e) \/ OutsideFails(e)
          \/ FetchReturns(e) \/ PredictReturns(e)
          \/ \E c \in Cartridge, given \in 0..Budget : InvokeComponent(e, c, given)
          \/ ModelLoad(e)
    \/ \E c \in Cartridge : Precompile(c)
    \/ \E c \in Caller : (\E s \in Session : InferBegins(c, s)) \/ InferEnds(c) \/ InferDropped(c)

Spec == Init /\ [][Next]_vars
-----------------------------------------------------------------------------
(* Properties *)

\* Type correctness of the node's and of the executions' state (host_api, fortress,
\* cartridge, inference).
TypeOK ==
    /\ run \in [Exec -> Execution]
    /\ usage \in [Tenant -> Nat] /\ sent \in [Tenant -> Nat]
    /\ compiled \subseteq Cartridge /\ loaded \in BOOLEAN
    /\ sessions \in [Session -> History]
    /\ inferring \in [Caller -> [session : Session \cup {None}, copy : History]]
    /\ calls \in 0..MaxCalls /\ exchanges \in 0..MaxInfers /\ answers \in Nat
    /\ heard \in [Exec -> [Tenant -> [Question -> SUBSET Nat]]]
    /\ touched \in [Exec -> SUBSET (Tenant \X Question)]
    /\ due \in [Exec -> Nat]

\* The record (t, q) of an execution's work directory is as the node left it: no guest
\* of its lineage rewrote it.
Intact(e, t, q) == <<t, q>> \notin touched[e]

\* A question has one answer in a lineage: an execution resumed from an image
\* hears, as the same tenant, what its ancestors heard, errors of the server
\* included, whatever their guests did to other records than this one (oracle.rs,
\* model_proxy.rs: hash, look up, record before returning).
Replays ==
    \A e \in Exec, t \in Tenant, q \in Question :
        Intact(e, t, q) => Cardinality(heard[e][t][q]) <= 1

\* No host function answers one tenant with what was recorded for another one, in images
\* that pass from one to the other and with guests that rewrite records: only a record
\* that a guest of the lineage rewrote itself answers with something else
\* (derive_cache_dir keeps the tenants' records in directories of their own).
TenantsApart ==
    \A e, f \in Exec, t, u \in Tenant, q \in Question :
        t # u /\ Intact(e, t, q) /\ Intact(f, u, q) => heard[e][t][q] \cap heard[f][u][q] = {}

\* What leaves the node for a tenant was recorded before, and what is recorded
\* stays within the largest quota one of its executions came with, however
\* their tests and records interleave (check_and_record).
EgressWithinQuota ==
    \A t \in Tenant :
        /\ sent[t] <= usage[t]
        /\ usage[t] > 0 => \E e \in Exec : /\ run[e].status # "new" /\ run[e].tenant = t
                                           /\ usage[t] <= run[e].limit

\* While an execution has fuel left, everything rendered to it is paid for: each
\* fetch, prediction and load at its price, and what its cartridges burned, however
\* they ended but for a trap or a missing interface, which are free (deduct_fuel,
\* invoke_component, refund_fuel).
ServicesArePaid ==
    \A e \in Exec : run[e].fuel > 0 => run[e].fuel + due[e] <= Budget

\* Lost updates and restored images notwithstanding, a session is a list of
\* exchanges in the order they began, none twice, each prompt with its response
\* (predict, restore_sessions).
HistoryInOrder ==
    \A s \in Session :
        LET h == sessions[s]
        IN  /\ h.prompts = h.responses /\ h.total = Len(h.prompts)
            /\ \A i, j \in 1..h.total : i < j => h.prompts[i] < h.prompts[j]
=============================================================================
