----------------------- MODULE GuestServices_proofs -----------------------
(* Theorems about GuestServices for every number of executions, tenants,     *)
(* questions, cartridges, sessions and callers, and for every price.         *)
EXTENDS GuestServices, FiniteSetTheorems, TLAPS

-----------------------------------------------------------------------------
(***************************************************************************)
(* The inductive invariant, in parts that are preserved one by one.        *)
(***************************************************************************)
\* While a host function waits, its tenant's directory says what it waits for.
Waiting == \A e \in Exec :
    /\ run[e].pc # "guest" => run[e].status = "running" /\ run[e].asked \in Question
    /\ run[e].pc = "outside" => Directory(e)[run[e].asked] = Failure
    /\ run[e].pc = "answered" /\ run[e].answer # Failure => Directory(e)[run[e].asked] = run[e].answer

\* What was heard is written, unless the work directory is gone.  A record that a guest
\* of the lineage rewrote counts neither as heard nor as written.
Heard(e, t, q) == IF Intact(e, t, q) THEN heard[e][t][q] ELSE {}

Written(e, t, q) == IF ~Intact(e, t, q) \/ run[e].cache[t][q] = Failure
                    THEN {} ELSE {run[e].cache[t][q].version}

Lineage == \A e \in Exec, t \in Tenant, q \in Question :
    /\ run[e].status # "lost" => Heard(e, t, q) \subseteq Written(e, t, q)
    /\ \E v \in 0..answers : Heard(e, t, q) \subseteq {v}

\* A version was made once, for one tenant.
Known(e, t, q) == Heard(e, t, q) \cup Written(e, t, q)

Origins ==
    /\ \A e \in Exec, t \in Tenant, q \in Question : Known(e, t, q) \subseteq 1..answers
    /\ \A e, f \in Exec, t, u \in Tenant, q \in Question :
           t # u => Known(e, t, q) \cap Known(f, u, q) = {}

\* A request is recorded before it leaves.
Leaving(t) == {e \in Exec : /\ run[e].pc = "outside" /\ run[e].asked \in Url
                            /\ run[e].tenant = t}

Quotas == \A t \in Tenant :
    /\ IsFiniteSet(Leaving(t)) /\ sent[t] + Cardinality(Leaving(t)) <= usage[t]
    /\ usage[t] > 0 => \E e \in Exec : /\ run[e].status # "new" /\ run[e].tenant = t
                                       /\ usage[t] <= run[e].limit

Bills == \A e \in Exec :
    /\ run[e].status = "new" => due[e] = 0
    /\ run[e].fuel > 0 => run[e].fuel + due[e] <= Budget

\* Copies and images of a session are in order as the session is.
InOrder(h, n) == /\ h.prompts = h.responses /\ h.total = Len(h.prompts)
                 /\ \A i \in 1..h.total : h.prompts[i] <= n
                 /\ \A i, j \in 1..h.total : i < j => h.prompts[i] < h.prompts[j]

Histories == /\ \A s \in Session : InOrder(sessions[s], exchanges)
             /\ \A c \in Caller : InOrder(inferring[c].copy, exchanges)
             /\ \A e \in Exec, s \in Session : InOrder(run[e].image[s], exchanges)

(***************************************************************************)
(* Types.                                                                  *)
(***************************************************************************)
LEMMA Values ==
    /\ Failure \in Answer /\ Forged \in Answer /\ EmptyCache \in Cache /\ NewHistory \in History
    /\ Answer \cup {Failure} = Answer
<1>1. Failure \in Answer /\ Forged \in Answer
  BY DEF Failure, Forged, Answer
<1>2. NewHistory \in History
  BY DEF NewHistory, History
<1>3. EmptyCache \in Cache
  BY <1>1 DEF EmptyCache, Cache
<1>4. QED
  BY <1>1, <1>2, <1>3

LEMMA ExecutionParts ==
    ASSUME NEW r \in Execution
    PROVE  /\ r.status \in {"new", "running", "ended", "lost"} /\ r.tenant \in Tenant
           /\ r.limit \in Limit /\ r.limit \in Nat /\ r.fuel \in Nat
           /\ r.pc \in {"guest", "outside", "answered"} /\ r.asked \in Question \cup {None}
           /\ r.answer \in Answer /\ r.cache \in Cache /\ r.image \in [Session -> History]
BY GuestServicesAssumption DEF Execution

LEMMA DeductType ==
    ASSUME NEW f \in Nat, NEW c \in Nat PROVE Deduct(f, c) \in Nat
BY DEF Deduct

LEMMA ExtendedType ==
    ASSUME NEW h \in History, NEW n \in Nat PROVE Extended(h, n) \in History
BY DEF Extended, History

\* What the directory of a running execution holds.
LEMMA DirectoryType ==
    ASSUME TypeOK, NEW e \in Exec, NEW q \in Question
    PROVE  Directory(e)[q] \in Answer
<1>1. run[e].cache \in Cache /\ run[e].tenant \in Tenant
  BY ExecutionParts DEF TypeOK
<1>2. QED
  BY <1>1, Values DEF Directory, Cache

LEMMA RecordedType ==
    ASSUME TypeOK, NEW e \in Exec, NEW q \in Question, NEW a \in Answer
    PROVE  /\ Recorded(e, q, a) \in Cache
           /\ Recorded(e, q, a)[run[e].tenant][q] = a
           /\ \A t \in Tenant, p \in Question : t # run[e].tenant \/ p # q =>
                  Recorded(e, q, a)[t][p] = run[e].cache[t][p]
<1>1. run[e].cache \in Cache /\ run[e].tenant \in Tenant
  BY ExecutionParts DEF TypeOK
<1>2. QED
  BY <1>1, Values DEF Recorded, Cache

\* The fuel an invocation leaves, and what it owes.
LEMMA RefundBounds ==
    ASSUME NEW given \in Nat, NEW outcome \in Outcomes(given)
    PROVE  /\ Refund(given, outcome) \in Nat /\ Owed(outcome) \in Nat
           /\ Refund(given, outcome) + Owed(outcome) <= given
<1>1. outcome.burned \in 0..given
  BY DEF Outcomes
<1>2. outcome.end = "fuel" => outcome.burned = given
  BY DEF Outcomes
<1>3. outcome.end \in {"ok", "error", "trap", "interface", "memory", "fuel"}
  BY DEF Outcomes
<1>4. QED
  BY <1>1, <1>2, <1>3 DEF Refund, Reported, Owed

(***************************************************************************)
(* What each action does to the execution it is about, field by field, and *)
(* to nothing else.                                                        *)
(***************************************************************************)
Only(e) == \A f \in Exec : f # e => run'[f] = run[f]

Same(e, fields) == \A x \in fields : run'[e][x] = run[e][x]

LEMMA ReplaceRun ==
    ASSUME TypeOK, NEW e \in Exec, NEW r, run' = [run EXCEPT ![e] = r]
    PROVE  Only(e) /\ run'[e] = r /\ (r \in Execution => run' \in [Exec -> Execution])
BY DEF TypeOK, Only

Free == {"asked", "answer", "cache", "tenant", "limit", "status", "pc", "image"}

LEMMA StartEffect ==
    ASSUME TypeOK, NEW e \in Exec, NEW t \in Tenant, NEW n \in Limit,
           NEW parent \in Exec \cup {None}, Start(e, t, n, parent)
    PROVE  /\ Only(e) /\ run' \in [Exec -> Execution]
           /\ Same(e, {"asked", "answer", "pc", "image"})
           /\ run'[e].status = "running" /\ run'[e].tenant = t /\ run'[e].limit = n
           /\ run'[e].fuel = Budget
           /\ run'[e].cache = IF parent = None THEN run[e].cache ELSE run[parent].cache
<1> DEFINE c == IF parent = None THEN run[e].cache ELSE run[parent].cache
           r == [run[e] EXCEPT !.status = "running", !.tenant = t, !.limit = n,
                               !.fuel = Budget, !.cache = c]
<1>1. run[e] \in Execution /\ c \in Cache
  BY ExecutionParts DEF TypeOK
<1>2. run' = [run EXCEPT ![e] = r]
  BY DEF Start, TypeOK
<1> HIDE DEF c
<1>3. /\ r \in Execution /\ \A x \in {"asked", "answer", "pc", "image"} : r[x] = run[e][x]
      /\ r.status = "running" /\ r.tenant = t /\ r.limit = n /\ r.fuel = Budget /\ r.cache = c
  BY <1>1, GuestServicesAssumption DEF Execution
<1> HIDE DEF r
<1>4. QED
  BY <1>2, <1>3, ReplaceRun DEF Same, c

LEMMA RewriteEffect ==
    ASSUME TypeOK, NEW e \in Exec, NEW t \in Tenant, NEW q \in Question, RewriteRecord(e, t, q)
    PROVE  /\ Only(e) /\ run' \in [Exec -> Execution] /\ Running(e, "guest")
           /\ Same(e, {"asked", "answer", "pc", "tenant", "limit", "status", "image", "fuel"})
           /\ \A u \in Tenant, p \in Question : u # t \/ p # q =>
                  run'[e].cache[u][p] = run[e].cache[u][p]
           /\ touched' = [touched EXCEPT ![e] = @ \cup {<<t, q>>}]
           /\ calls < MaxCalls /\ calls' = calls + 1
           /\ UNCHANGED <<usage, node, answers, sent, heard, due>>
<1>1. run[e] \in Execution /\ run[e].cache \in Cache
  BY ExecutionParts DEF TypeOK
<1>2. \A u \in Tenant, p \in Question : run[e].cache[u][p] \in Answer
  BY <1>1, Values DEF Cache
<1>3. PICK a \in Writable(e) : run' = [run EXCEPT ![e].cache[t][q] = a]
  BY DEF RewriteRecord
<1>4. a \in Answer
  BY <1>2, <1>3, Values DEF Writable
<1> DEFINE c == [run[e].cache EXCEPT ![t][q] = a]
           r == [run[e] EXCEPT !.cache = c]
<1>5. c \in Cache /\ \A u \in Tenant, p \in Question : u # t \/ p # q => c[u][p] = run[e].cache[u][p]
  BY <1>1, <1>4, Values DEF Cache
<1>6. run' = [run EXCEPT ![e] = r]
  BY <1>3 DEF TypeOK
<1> HIDE DEF c
<1>7. /\ r \in Execution
      /\ \A x \in {"asked", "answer", "pc", "tenant", "limit", "status", "image", "fuel"} :
             r[x] = run[e][x]
      /\ r.cache = c
  BY <1>1, <1>5 DEF Execution
<1> HIDE DEF r
<1>8. Only(e) /\ run'[e] = r /\ run' \in [Exec -> Execution]
  BY <1>6, <1>7, ReplaceRun
<1>9. QED
  BY <1>5, <1>7, <1>8 DEF Same, RewriteRecord

LEMMA EndEffect ==
    ASSUME TypeOK, NEW e \in Exec,
           run' = [run EXCEPT ![e].status = "ended", ![e].image = sessions, ![e].fuel = 0]
    PROVE  /\ Only(e) /\ run' \in [Exec -> Execution]
           /\ Same(e, {"asked", "answer", "pc", "cache", "tenant", "limit"})
           /\ run'[e].status = "ended" /\ run'[e].image = sessions /\ run'[e].fuel = 0
<1> DEFINE r == [run[e] EXCEPT !.status = "ended", !.image = sessions, !.fuel = 0]
<1>1. run[e] \in Execution /\ sessions \in [Session -> History]
  BY DEF TypeOK
<1>2. run' = [run EXCEPT ![e] = r]
  BY DEF TypeOK
<1>3. /\ r \in Execution
      /\ \A x \in {"asked", "answer", "pc", "cache", "tenant", "limit"} : r[x] = run[e][x]
      /\ r.status = "ended" /\ r.image = sessions /\ r.fuel = 0
  BY <1>1 DEF Execution
<1> HIDE DEF r
<1>4. QED
  BY <1>2, <1>3, ReplaceRun DEF Same

LEMMA CancelEffect ==
    ASSUME TypeOK, NEW e \in Exec, Cancel(e)
    PROVE  /\ Only(e) /\ run' \in [Exec -> Execution]
           /\ Same(e, {"tenant", "limit", "image"})
           /\ run'[e].status = "lost" /\ run'[e].fuel = 0 /\ run'[e].pc = "guest"
           /\ run'[e].cache = EmptyCache
<1> DEFINE r == [run[e] EXCEPT !.status = "lost", !.fuel = 0, !.pc = "guest",
                               !.asked = None, !.answer = Failure, !.cache = EmptyCache]
<1>1. run[e] \in Execution /\ Failure \in Answer /\ EmptyCache \in Cache
  BY Values DEF TypeOK
<1>2. run' = [run EXCEPT ![e] = r]
  BY DEF TypeOK, Cancel
<1>3. /\ r \in Execution /\ \A x \in {"tenant", "limit", "image"} : r[x] = run[e][x]
      /\ r.status = "lost" /\ r.fuel = 0 /\ r.pc = "guest" /\ r.cache = EmptyCache
  BY <1>1 DEF Execution
<1> HIDE DEF r
<1>4. QED
  BY <1>2, <1>3, ReplaceRun DEF Same

\* Only the fuel changes.
LEMMA FuelEffect ==
    ASSUME TypeOK, NEW e \in Exec, NEW f \in Nat, run' = [run EXCEPT ![e].fuel = f]
    PROVE  /\ Only(e) /\ run' \in [Exec -> Execution] /\ Same(e, Free) /\ run'[e].fuel = f
<1> DEFINE r == [run[e] EXCEPT !.fuel = f]
<1>1. run[e] \in Execution
  BY DEF TypeOK
<1>2. run' = [run EXCEPT ![e] = r]
  BY DEF TypeOK
<1>3. /\ r \in Execution /\ \A x \in Free : r[x] = run[e][x] /\ r.fuel = f
  BY <1>1 DEF Execution, Free
<1> HIDE DEF r
<1>4. QED
  BY <1>2, <1>3, ReplaceRun DEF Same, Free

LEMMA ResolveEffect ==
    ASSUME TypeOK, NEW e \in Exec, NEW q \in Question, NEW f \in Nat, Resolve(e, q, f)
    PROVE  /\ Only(e) /\ run' \in [Exec -> Execution]
           /\ Same(e, {"cache", "tenant", "limit", "status", "image"})
           /\ run'[e].fuel = f /\ run'[e].asked = q /\ run'[e].answer = Directory(e)[q]
           /\ run'[e].pc = IF Directory(e)[q] # Failure THEN "answered" ELSE "outside"
<1> DEFINE a == Directory(e)[q]
           p == IF a # Failure THEN "answered" ELSE "outside"
           r == [run[e] EXCEPT !.fuel = f, !.asked = q, !.pc = p, !.answer = a]
<1>1. run[e] \in Execution /\ a \in Answer
  BY DirectoryType DEF TypeOK
<1>2. run' = [run EXCEPT ![e] = r]
  BY DEF TypeOK, Resolve
<1>3. p \in {"guest", "outside", "answered"}
  OBVIOUS
<1> HIDE DEF a, p
<1>4. /\ r \in Execution
      /\ \A x \in {"cache", "tenant", "limit", "status", "image"} : r[x] = run[e][x]
      /\ r.fuel = f /\ r.asked = q /\ r.pc = p /\ r.answer = a
  BY <1>1, <1>3 DEF Execution
<1> HIDE DEF r
<1>5. QED
  BY <1>2, <1>4, ReplaceRun DEF Same, a, p

LEMMA AnswerEffect ==
    ASSUME TypeOK, NEW e \in Exec, NEW q \in Question, NEW a \in Answer,
           run' = [run EXCEPT ![e].pc = "answered", ![e].answer = a,
                              ![e].cache = Recorded(e, q, a)]
    PROVE  /\ Only(e) /\ run' \in [Exec -> Execution]
           /\ Same(e, {"tenant", "limit", "status", "image", "fuel", "asked"})
           /\ run'[e].pc = "answered" /\ run'[e].answer = a /\ run'[e].cache = Recorded(e, q, a)
<1> DEFINE c == Recorded(e, q, a)
           r == [run[e] EXCEPT !.pc = "answered", !.answer = a, !.cache = c]
<1>1. run[e] \in Execution /\ c \in Cache
  BY RecordedType DEF TypeOK
<1>2. run' = [run EXCEPT ![e] = r]
  BY DEF TypeOK
<1> HIDE DEF c
<1>3. /\ r \in Execution
      /\ \A x \in {"tenant", "limit", "status", "image", "fuel", "asked"} : r[x] = run[e][x]
      /\ r.pc = "answered" /\ r.answer = a /\ r.cache = c
  BY <1>1 DEF Execution
<1> HIDE DEF r
<1>4. QED
  BY <1>2, <1>3, ReplaceRun DEF Same, c

LEMMA FailEffect ==
    ASSUME TypeOK, NEW e \in Exec, OutsideFails(e)
    PROVE  /\ Only(e) /\ run' \in [Exec -> Execution]
           /\ Same(e, {"tenant", "limit", "status", "image", "fuel", "asked", "cache"})
           /\ run'[e].pc = "answered" /\ run'[e].answer = Failure
<1> DEFINE r == [run[e] EXCEPT !.pc = "answered", !.answer = Failure]
<1>1. run[e] \in Execution /\ Failure \in Answer
  BY Values DEF TypeOK
<1>2. run' = [run EXCEPT ![e] = r]
  BY DEF TypeOK, OutsideFails
<1>3. /\ r \in Execution
      /\ \A x \in {"tenant", "limit", "status", "image", "fuel", "asked", "cache"} : r[x] = run[e][x]
      /\ r.pc = "answered" /\ r.answer = Failure
  BY <1>1 DEF Execution
<1> HIDE DEF r
<1>4. QED
  BY <1>2, <1>3, ReplaceRun DEF Same

LEMMA ReturnEffect ==
    ASSUME TypeOK, NEW e \in Exec, NEW cost \in Nat,
           run' = [run EXCEPT ![e].pc = "guest", ![e].asked = None, ![e].answer = Failure,
                              ![e].fuel = Deduct(@, cost)]
    PROVE  /\ Only(e) /\ run' \in [Exec -> Execution]
           /\ Same(e, {"tenant", "limit", "status", "image", "cache"})
           /\ run'[e].pc = "guest" /\ run'[e].fuel = Deduct(run[e].fuel, cost)
<1> DEFINE f == Deduct(run[e].fuel, cost)
           r == [run[e] EXCEPT !.pc = "guest", !.asked = None, !.answer = Failure, !.fuel = f]
<1>1. run[e] \in Execution /\ f \in Nat /\ Failure \in Answer
  BY Values, ExecutionParts, DeductType DEF TypeOK
<1>2. run' = [run EXCEPT ![e] = r]
  BY DEF TypeOK
<1> HIDE DEF f
<1>3. /\ r \in Execution
      /\ \A x \in {"tenant", "limit", "status", "image", "cache"} : r[x] = run[e][x]
      /\ r.pc = "guest" /\ r.fuel = f
  BY <1>1 DEF Execution
<1> HIDE DEF r
<1>4. QED
  BY <1>2, <1>3, ReplaceRun DEF Same, f

(***************************************************************************)
(* The steps of the node's state, by what they do to an execution.         *)
(***************************************************************************)
Ends(e) == End(e) \/ \E u \in Url : FetchDenied(e, u)

Asks(e) == (\E u \in Url : Fetch(e, u)) \/ (\E p \in Prompt : Predict(e, p))

Answers(e) == (\E ok \in BOOLEAN, size \in {0, 1} : ServerAnswers(e, ok, size)) \/ ProviderAnswers(e)

Returns(e) == FetchReturns(e) \/ PredictReturns(e)

\* Only the fuel of the execution changes, or nothing of it.
Burns(e) == \/ \E u \in Url : FetchRefused(e, u)
            \/ \E c \in Cartridge, given \in 0..Budget : InvokeComponent(e, c, given)
            \/ ModelLoad(e)

Aside == \/ \E c \in Cartridge : Precompile(c)
         \/ \E c \in Caller :
                (\E s \in Session : InferBegins(c, s)) \/ InferEnds(c) \/ InferDropped(c)

LEMMA StepKinds ==
    ASSUME Next
    PROVE  \/ \E e \in Exec :
                 \/ \E t \in Tenant, n \in Limit, parent \in Exec \cup {None} : Start(e, t, n, parent)
                 \/ \E t \in Tenant, q \in Question : RewriteRecord(e, t, q)
                 \/ Ends(e) \/ Cancel(e) \/ Asks(e) \/ Answers(e) \/ OutsideFails(e)
                 \/ Returns(e) \/ Burns(e)
           \/ Aside
BY DEF Next, Ends, Asks, Answers, Returns, Burns, Aside

\* The effect of each kind.
LEMMA EndsEffect ==
    ASSUME TypeOK, NEW e \in Exec, Ends(e)
    PROVE  /\ Only(e) /\ run' \in [Exec -> Execution]
           /\ Same(e, {"asked", "answer", "pc", "cache", "tenant", "limit"})
           /\ run'[e].status = "ended" /\ run'[e].image = sessions /\ run'[e].fuel = 0
           /\ Running(e, "guest")
           /\ UNCHANGED <<usage, node, answers, sent, heard, due, touched>>
           /\ calls' \in {calls, calls + 1} /\ (calls' = calls + 1 => calls < MaxCalls)
<1>1. calls \in Nat
  BY GuestServicesAssumption DEF TypeOK
<1>2. CASE End(e)
  <2>1. /\ run' = [run EXCEPT ![e].status = "ended", ![e].image = sessions, ![e].fuel = 0]
        /\ calls' = calls /\ calls # calls + 1 /\ Running(e, "guest")
        /\ UNCHANGED <<usage, node, answers, sent, heard, due, touched>>
    BY <1>1, <1>2 DEF End
  <2>2. QED
    BY <2>1, EndEffect
<1>3. CASE \E u \in Url : FetchDenied(e, u)
  BY <1>3, EndEffect DEF FetchDenied
<1>4. QED
  BY <1>2, <1>3 DEF Ends

LEMMA AsksEffect ==
    ASSUME TypeOK, NEW e \in Exec, Asks(e)
    PROVE  \E q \in Question :
           /\ Only(e) /\ run' \in [Exec -> Execution]
           /\ Same(e, {"cache", "tenant", "limit", "status", "image"})
           /\ run'[e].asked = q /\ run'[e].answer = Directory(e)[q]
           /\ run'[e].pc = IF Directory(e)[q] # Failure THEN "answered" ELSE "outside"
           /\ Running(e, "guest") /\ calls < MaxCalls /\ calls' = calls + 1
           /\ UNCHANGED <<node, answers, sent, heard, touched>>
           /\ \/ /\ q \in Url /\ FitsQuota(run[e].tenant, 1, run[e].limit)
                 /\ usage' = [usage EXCEPT ![run[e].tenant] = @ + 1]
                 /\ due' = [due EXCEPT ![e] = @ + FetchCost]
                 /\ run'[e].fuel = Deduct(run[e].fuel, FetchCost)
              \/ /\ q \in Prompt /\ UNCHANGED <<usage, due>> /\ run'[e].fuel = run[e].fuel
<1>1. run[e].fuel \in Nat /\ Deduct(run[e].fuel, FetchCost) \in Nat
  BY ExecutionParts, DeductType, GuestServicesAssumption DEF TypeOK
<1>2. CASE \E u \in Url : Fetch(e, u)
  <2>1. PICK u \in Url : Fetch(e, u)
    BY <1>2
  <2>2. u \in Question /\ Resolve(e, u, Deduct(run[e].fuel, FetchCost))
    BY <2>1 DEF Fetch, Question
  <2>3. QED
    BY <1>1, <2>1, <2>2, ResolveEffect DEF Fetch
<1>3. CASE \E p \in Prompt : Predict(e, p)
  <2>1. PICK p \in Prompt : Predict(e, p)
    BY <1>3
  <2>2. p \in Question /\ Resolve(e, p, run[e].fuel)
    BY <2>1 DEF Predict, Consult, Question
  <2>3. QED
    BY <1>1, <2>1, <2>2, ResolveEffect DEF Predict
<1>4. QED
  BY <1>2, <1>3 DEF Asks

LEMMA AnswersEffect ==
    ASSUME TypeOK, NEW e \in Exec, Answers(e)
    PROVE  \E a \in Answer :
           /\ a.version = answers + 1 /\ run[e].asked \in Question
           /\ Only(e) /\ run' \in [Exec -> Execution]
           /\ Same(e, {"tenant", "limit", "status", "image", "fuel", "asked"})
           /\ run'[e].pc = "answered" /\ run'[e].answer = a
           /\ run'[e].cache = Recorded(e, run[e].asked, a)
           /\ Running(e, "outside") /\ answers' = answers + 1
           /\ UNCHANGED <<usage, node, calls, heard, due, touched>>
           /\ \/ run[e].asked \in Url /\ sent' = [sent EXCEPT ![run[e].tenant] = @ + 1]
              \/ run[e].asked \in Prompt /\ UNCHANGED sent
<1>1. answers + 1 \in Nat
  BY DEF TypeOK
<1>2. CASE \E ok \in BOOLEAN, size \in {0, 1} : ServerAnswers(e, ok, size)
  <2>1. PICK ok \in BOOLEAN, size \in {0, 1} : ServerAnswers(e, ok, size)
    BY <1>2
  <2> DEFINE a == [version |-> answers + 1, ok |-> ok, size |-> size]
  <2>2. a \in Answer /\ a.version = answers + 1
    BY <1>1 DEF Answer
  <2>3. /\ run' = [run EXCEPT ![e].pc = "answered", ![e].answer = a,
                              ![e].cache = Recorded(e, run[e].asked, a)]
        /\ run[e].asked \in Url /\ run[e].asked \in Question /\ Running(e, "outside")
        /\ answers' = answers + 1 /\ sent' = [sent EXCEPT ![run[e].tenant] = @ + 1]
        /\ UNCHANGED <<usage, node, calls, heard, due, touched>>
    BY <2>1 DEF ServerAnswers, Question
  <2> HIDE DEF a
  <2>4. /\ Only(e) /\ run' \in [Exec -> Execution]
        /\ Same(e, {"tenant", "limit", "status", "image", "fuel", "asked"})
        /\ run'[e].pc = "answered" /\ run'[e].answer = a
        /\ run'[e].cache = Recorded(e, run[e].asked, a)
    BY <2>2, <2>3, AnswerEffect
  <2>5. QED
    BY <2>2, <2>3, <2>4
<1>3. CASE ProviderAnswers(e)
  <2> DEFINE a == [version |-> answers + 1, ok |-> TRUE, size |-> 0]
  <2>2. a \in Answer /\ a.version = answers + 1
    BY <1>1 DEF Answer
  <2>3. /\ run' = [run EXCEPT ![e].pc = "answered", ![e].answer = a,
                              ![e].cache = Recorded(e, run[e].asked, a)]
        /\ run[e].asked \in Prompt /\ run[e].asked \in Question /\ Running(e, "outside")
        /\ answers' = answers + 1
        /\ UNCHANGED <<usage, node, calls, heard, due, touched>> /\ UNCHANGED sent
    BY <1>3 DEF ProviderAnswers, Question
  <2> HIDE DEF a
  <2>4. /\ Only(e) /\ run' \in [Exec -> Execution]
        /\ Same(e, {"tenant", "limit", "status", "image", "fuel", "asked"})
        /\ run'[e].pc = "answered" /\ run'[e].answer = a
        /\ run'[e].cache = Recorded(e, run[e].asked, a)
    BY <2>2, <2>3, AnswerEffect
  <2>5. QED
    BY <2>2, <2>3, <2>4
<1>4. QED
  BY <1>2, <1>3 DEF Answers

LEMMA ReturnsEffect ==
    ASSUME TypeOK, NEW e \in Exec, Returns(e)
    PROVE  \E cost \in Nat :
           /\ Only(e) /\ run' \in [Exec -> Execution]
           /\ Same(e, {"tenant", "limit", "status", "image", "cache"})
           /\ run'[e].pc = "guest" /\ run'[e].fuel = Deduct(run[e].fuel, cost)
           /\ due' = [due EXCEPT ![e] = @ + cost]
           /\ Running(e, "answered") /\ run[e].asked \in Question /\ Hears(e)
           /\ UNCHANGED <<node, calls, answers, sent, touched>>
           /\ \/ UNCHANGED usage
              \/ /\ FitsQuota(run[e].tenant, run[e].answer.size, run[e].limit)
                 /\ usage' = [usage EXCEPT ![run[e].tenant] = @ + run[e].answer.size]
<1>1. CASE FetchReturns(e)
  <2> DEFINE cost == ResponseCost * run[e].answer.size
  <2>1. cost \in Nat
    <3>1. run[e].answer.size \in {0, 1} /\ ResponseCost \in Nat
      BY ExecutionParts, GuestServicesAssumption DEF TypeOK, Answer
    <3>2. CASE run[e].answer.size = 0
      BY <3>1, <3>2
    <3>3. CASE run[e].answer.size = 1
      BY <3>1, <3>3
    <3>4. QED
      BY <3>1, <3>2, <3>3
  <2>2. /\ run' = [run EXCEPT ![e].pc = "guest", ![e].asked = None, ![e].answer = Failure,
                              ![e].fuel = Deduct(@, cost)]
        /\ due' = [due EXCEPT ![e] = @ + cost]
        /\ Running(e, "answered") /\ run[e].asked \in Question /\ Hears(e)
        /\ UNCHANGED <<node, calls, answers, sent, touched>>
    BY <1>1 DEF FetchReturns, Question
  <2>3. \/ UNCHANGED usage
        \/ /\ FitsQuota(run[e].tenant, run[e].answer.size, run[e].limit)
           /\ usage' = [usage EXCEPT ![run[e].tenant] = @ + run[e].answer.size]
    <3>1. CASE FitsQuota(run[e].tenant, run[e].answer.size, run[e].limit)
      BY <1>1, <3>1 DEF FetchReturns
    <3>2. CASE ~FitsQuota(run[e].tenant, run[e].answer.size, run[e].limit)
      BY <1>1, <3>2 DEF FetchReturns, TypeOK
    <3>3. QED
      BY <3>1, <3>2
  <2> HIDE DEF cost
  <2>4. QED
    BY <2>1, <2>2, <2>3, ReturnEffect
<1>2. CASE PredictReturns(e)
  <2> DEFINE cost == IF run[e].answer = Failure THEN 0 ELSE PredictCost
  <2>1. cost \in Nat
    BY GuestServicesAssumption
  <2>2. /\ run' = [run EXCEPT ![e].pc = "guest", ![e].asked = None, ![e].answer = Failure,
                              ![e].fuel = Deduct(@, cost)]
        /\ due' = [due EXCEPT ![e] = @ + cost]
        /\ Running(e, "answered") /\ run[e].asked \in Question /\ Hears(e)
        /\ UNCHANGED <<node, calls, answers, sent, usage, touched>>
    BY <1>2 DEF PredictReturns, Question
  <2> HIDE DEF cost
  <2>3. QED
    BY <2>1, <2>2, ReturnEffect
<1>3. QED
  BY <1>1, <1>2 DEF Returns

\* What is burned is due, or the fuel is gone.
LEMMA BurnsEffect ==
    ASSUME TypeOK, NEW e \in Exec, Burns(e)
    PROVE  /\ Only(e) /\ run' \in [Exec -> Execution] /\ Same(e, Free) /\ Running(e, "guest")
           /\ calls < MaxCalls /\ calls' = calls + 1
           /\ UNCHANGED <<usage, sessions, inferring, exchanges, answers, sent, heard, compiled,
                       touched>>
           /\ loaded' \in {loaded, TRUE}
           /\ \E d \in Nat : /\ due' = [due EXCEPT ![e] = @ + d]
                             /\ run'[e].fuel > 0 => run'[e].fuel + d <= run[e].fuel
<1>1. run[e].fuel \in Nat /\ FetchCost \in Nat /\ LoadCost \in Nat /\ due[e] \in Nat
  BY ExecutionParts, GuestServicesAssumption DEF TypeOK
<1>2. ASSUME NEW cost \in Nat, run' = [run EXCEPT ![e].fuel = Deduct(@, cost)],
             due' = [due EXCEPT ![e] = @ + cost]
      PROVE  /\ Only(e) /\ run' \in [Exec -> Execution] /\ Same(e, Free)
             /\ \E d \in Nat : /\ due' = [due EXCEPT ![e] = @ + d]
                               /\ run'[e].fuel > 0 => run'[e].fuel + d <= run[e].fuel
  <2> DEFINE f == Deduct(run[e].fuel, cost)
  <2>1. f \in Nat /\ (f > 0 => f + cost <= run[e].fuel)
    BY <1>1 DEF Deduct
  <2>2. run' = [run EXCEPT ![e].fuel = f]
    BY <1>2 DEF TypeOK
  <2> HIDE DEF f
  <2>3. QED
    BY <1>2, <2>1, <2>2, FuelEffect
<1>3. CASE \E u \in Url : FetchRefused(e, u)
  BY <1>1, <1>2, <1>3 DEF FetchRefused, node
<1>4. CASE ModelLoad(e)
  BY <1>1, <1>2, <1>4 DEF ModelLoad
<1>5. CASE \E c \in Cartridge, given \in 0..Budget : InvokeComponent(e, c, given)
  <2>1. PICK c \in Cartridge, given \in 0..Budget : InvokeComponent(e, c, given)
    BY <1>5
  <2>2. given \in Nat /\ given <= run[e].fuel
    BY <2>1, GuestServicesAssumption DEF InvokeComponent
  <2>3. CASE UNCHANGED <<run, due>>
    <3>1. /\ Only(e) /\ run' \in [Exec -> Execution] /\ Same(e, Free)
          /\ run'[e].fuel + 0 <= run[e].fuel /\ due' = [due EXCEPT ![e] = @ + 0]
      BY <1>1, <2>3 DEF Only, Same, TypeOK
    <3>2. QED
      BY <2>1, <3>1 DEF InvokeComponent, node
  <2>4. ASSUME NEW outcome \in Outcomes(given),
               run' = [run EXCEPT ![e].fuel = @ - given + Refund(given, outcome)],
               due' = [due EXCEPT ![e] = @ + Owed(outcome)]
        PROVE  /\ Only(e) /\ run' \in [Exec -> Execution] /\ Same(e, Free)
               /\ \E d \in Nat : /\ due' = [due EXCEPT ![e] = @ + d]
                                 /\ run'[e].fuel > 0 => run'[e].fuel + d <= run[e].fuel
    <3> DEFINE f == run[e].fuel - given + Refund(given, outcome)
    <3>1. /\ Refund(given, outcome) \in Nat /\ Owed(outcome) \in Nat
          /\ Refund(given, outcome) + Owed(outcome) <= given
      BY <2>2, RefundBounds
    <3>2. f \in Nat /\ f + Owed(outcome) <= run[e].fuel
      BY <1>1, <2>2, <3>1
    <3>3. run' = [run EXCEPT ![e].fuel = f]
      BY <2>4 DEF TypeOK
    <3> HIDE DEF f
    <3>4. QED
      BY <2>4, <3>1, <3>2, <3>3, FuelEffect
  <2>5. QED
    BY <2>1, <2>3, <2>4 DEF InvokeComponent, node
<1>6. QED
  BY <1>3, <1>4, <1>5 DEF Burns

LEMMA TypeInit == Init => TypeOK
<1> SUFFICES ASSUME Init PROVE TypeOK
  OBVIOUS
<1>1. run \in [Exec -> Execution]
  <2>1. PICK t \in Tenant, n \in Limit :
            run = [e \in Exec |->
                   [status |-> "new", tenant |-> t, limit |-> n, fuel |-> 0, pc |-> "guest",
                    asked |-> None, answer |-> Failure, cache |-> EmptyCache,
                    image |-> [s \in Session |-> NewHistory]]]
    BY DEF Init
  <2>2. QED
    BY <2>1, Values DEF Execution
<1>2. /\ sessions \in [Session -> History]
      /\ inferring \in [Caller -> [session : Session \cup {None}, copy : History]]
  BY Values DEF Init
<1>3. QED
  <2>1. 0 \in Nat /\ 0 \in 0..MaxCalls /\ 0 \in 0..MaxInfers
    BY GuestServicesAssumption
  <2>2. /\ usage \in [Tenant -> Nat] /\ sent \in [Tenant -> Nat] /\ due \in [Exec -> Nat]
        /\ heard \in [Exec -> [Tenant -> [Question -> SUBSET Nat]]]
        /\ touched \in [Exec -> SUBSET (Tenant \X Question)]
    BY <2>1 DEF Init
  <2>3. /\ calls \in 0..MaxCalls /\ exchanges \in 0..MaxInfers /\ answers \in Nat
        /\ compiled \subseteq Cartridge /\ loaded \in BOOLEAN
    BY <2>1 DEF Init
  <2>4. QED
    BY <1>1, <1>2, <2>2, <2>3 DEF TypeOK

LEMMA TypeNext == TypeOK /\ [Next]_vars => TypeOK'
<1> SUFFICES ASSUME TypeOK, [Next]_vars PROVE TypeOK'
  OBVIOUS
<1>a. /\ MaxCalls \in Nat /\ MaxInfers \in Nat /\ calls \in Nat /\ exchanges \in Nat
      /\ answers \in Nat /\ FetchCost \in Nat
      /\ \A e \in Exec : due[e] \in Nat /\ run[e] \in Execution /\ run[e].tenant \in Tenant
                         /\ run[e].fuel \in Nat /\ run[e].answer \in Answer
                         /\ run[e].answer.size \in Nat /\ run[e].answer.version \in Nat
      /\ \A t \in Tenant : usage[t] \in Nat /\ sent[t] \in Nat
  <2>1. \A a \in Answer : a.size \in Nat /\ a.version \in Nat
    BY DEF Answer
  <2>2. QED
    BY <2>1, GuestServicesAssumption, ExecutionParts DEF TypeOK
<1>1. ASSUME NEW e \in Exec, NEW t \in Tenant, NEW n \in Limit, NEW parent \in Exec \cup {None},
             Start(e, t, n, parent)
      PROVE  TypeOK'
  <2>1. sessions' \in [Session -> History]
    <3>1. CASE parent = None
      BY <1>1, <3>1 DEF Start, TypeOK
    <3>2. CASE parent # None
      <4>1. run[parent].image \in [Session -> History]
        BY <3>2, ExecutionParts DEF TypeOK
      <4>2. QED
        BY <1>1, <3>2, <4>1 DEF Start, Restored, TypeOK
    <3>3. QED
      BY <3>1, <3>2
  <2>2. heard' \in [Exec -> [Tenant -> [Question -> SUBSET Nat]]]
    BY <1>1 DEF Start, TypeOK
  <2>3. touched' \in [Exec -> SUBSET (Tenant \X Question)]
    BY <1>1 DEF Start, TypeOK
  <2>4. QED
    BY <1>1, <2>1, <2>2, <2>3, StartEffect DEF Start, TypeOK
<1>2. ASSUME NEW e \in Exec, Ends(e) PROVE TypeOK'
  <2>1. /\ run' \in [Exec -> Execution] /\ UNCHANGED <<usage, node, answers, sent, heard, due, touched>>
        /\ calls' \in {calls, calls + 1} /\ (calls' = calls + 1 => calls < MaxCalls)
    BY <1>2, EndsEffect
  <2>2. calls' \in 0..MaxCalls
    BY <1>a, <2>1 DEF TypeOK
  <2>3. QED
    BY <2>1, <2>2 DEF node, TypeOK
<1>3. ASSUME NEW e \in Exec, Cancel(e) PROVE TypeOK'
  BY <1>3, CancelEffect DEF Cancel, node, TypeOK
<1>4. ASSUME NEW e \in Exec, Asks(e) PROVE TypeOK'
  <2>1. PICK q \in Question :
           /\ run' \in [Exec -> Execution] /\ calls < MaxCalls /\ calls' = calls + 1
           /\ UNCHANGED <<node, answers, sent, heard, touched>>
           /\ \/ /\ usage' = [usage EXCEPT ![run[e].tenant] = @ + 1]
                 /\ due' = [due EXCEPT ![e] = @ + FetchCost]
              \/ UNCHANGED <<usage, due>>
    BY <1>4, AsksEffect
  <2>2. calls' \in 0..MaxCalls /\ usage' \in [Tenant -> Nat] /\ due' \in [Exec -> Nat]
    <3>1. calls' \in 0..MaxCalls
      BY <1>a, <2>1
    <3>2. usage[run[e].tenant] + 1 \in Nat /\ due[e] + FetchCost \in Nat
      BY <1>a
    <3>3. QED
      BY <2>1, <3>1, <3>2 DEF TypeOK
  <2>3. QED
    BY <2>1, <2>2 DEF node, TypeOK
<1>5. ASSUME NEW e \in Exec, Answers(e) PROVE TypeOK'
  <2>1. /\ run' \in [Exec -> Execution] /\ answers' = answers + 1
        /\ UNCHANGED <<usage, node, calls, heard, due, touched>>
        /\ sent' = [sent EXCEPT ![run[e].tenant] = @ + 1] \/ UNCHANGED sent
    BY <1>5, AnswersEffect
  <2>2. sent' \in [Tenant -> Nat]
    <3>1. sent[run[e].tenant] + 1 \in Nat
      BY <1>a
    <3>2. QED
      BY <2>1, <3>1 DEF TypeOK
  <2>3. QED
    BY <1>a, <2>1, <2>2 DEF node, TypeOK
<1>6. ASSUME NEW e \in Exec, OutsideFails(e) PROVE TypeOK'
  <2>1. sent' \in [Tenant -> Nat]
    BY <1>a, <1>6 DEF OutsideFails, TypeOK
  <2>2. QED
    BY <1>6, <2>1, FailEffect DEF OutsideFails, node, TypeOK
<1>7. ASSUME NEW e \in Exec, Returns(e) PROVE TypeOK'
  <2>1. PICK cost \in Nat :
           /\ run' \in [Exec -> Execution] /\ due' = [due EXCEPT ![e] = @ + cost]
           /\ run[e].asked \in Question /\ Hears(e)
           /\ UNCHANGED <<node, calls, answers, sent, touched>>
           /\ UNCHANGED usage \/ usage' = [usage EXCEPT ![run[e].tenant] = @ + run[e].answer.size]
    BY <1>7, ReturnsEffect
  <2>2. due' \in [Exec -> Nat] /\ usage' \in [Tenant -> Nat]
    BY <1>a, <2>1 DEF TypeOK
  <2>3. heard' \in [Exec -> [Tenant -> [Question -> SUBSET Nat]]]
    <3> DEFINE h == IF run[e].answer = Failure THEN heard[e][run[e].tenant][run[e].asked]
                    ELSE heard[e][run[e].tenant][run[e].asked] \cup {run[e].answer.version}
    <3>1. heard' = [heard EXCEPT ![e][run[e].tenant][run[e].asked] = h]
      BY <2>1 DEF Hears, TypeOK
    <3>2. h \subseteq Nat
      BY <1>a, <2>1 DEF TypeOK
    <3> HIDE DEF h
    <3>3. QED
      BY <1>a, <2>1, <3>1, <3>2 DEF TypeOK
  <2>4. QED
    BY <2>1, <2>2, <2>3 DEF node, TypeOK
<1>8. ASSUME NEW e \in Exec, Burns(e) PROVE TypeOK'
  <2>1. PICK d \in Nat :
           /\ run' \in [Exec -> Execution] /\ due' = [due EXCEPT ![e] = @ + d]
           /\ calls < MaxCalls /\ calls' = calls + 1 /\ loaded' \in {loaded, TRUE}
           /\ UNCHANGED <<usage, sessions, inferring, exchanges, answers, sent, heard, compiled, touched>>
    BY <1>8, BurnsEffect
  <2>2. due' \in [Exec -> Nat] /\ calls' \in 0..MaxCalls /\ loaded' \in BOOLEAN
    <3>1. calls' \in 0..MaxCalls
      BY <1>a, <2>1
    <3>2. due[e] + d \in Nat
      BY <1>a
    <3>3. QED
      BY <2>1, <3>1, <3>2 DEF TypeOK
  <2>3. QED
    BY <2>1, <2>2 DEF TypeOK
<1>9. CASE \E c \in Cartridge : Precompile(c)
  BY <1>9 DEF Precompile, TypeOK
<1>10. ASSUME NEW c \in Caller, NEW s \in Session, InferBegins(c, s) PROVE TypeOK'
  <2>1. Extended(sessions[s], exchanges + 1) \in History
    <3>1. exchanges + 1 \in Nat /\ sessions[s] \in History
      BY <1>a DEF TypeOK
    <3>2. QED
      BY <3>1, ExtendedType
  <2>2. inferring' \in [Caller -> [session : Session \cup {None}, copy : History]]
    BY <1>10, <2>1 DEF InferBegins, TypeOK
  <2>3. exchanges' \in 0..MaxInfers
    BY <1>10, <1>a DEF InferBegins, TypeOK
  <2>4. sessions' \in [Session -> History]
    BY <1>10 DEF InferBegins, History, TypeOK
  <2>5. QED
    BY <1>10, <2>2, <2>3, <2>4 DEF InferBegins, TypeOK
<1>11. ASSUME NEW c \in Caller, InferEnds(c) PROVE TypeOK'
  <2>1. inferring[c].session \in Session /\ inferring[c].copy \in History
    BY <1>11 DEF InferEnds, TypeOK
  <2>2. /\ inferring' \in [Caller -> [session : Session \cup {None}, copy : History]]
        /\ sessions' \in [Session -> History]
    BY <1>11, <2>1, Values DEF InferEnds, TypeOK
  <2>3. QED
    BY <1>11, <2>2 DEF InferEnds, TypeOK
<1>12. ASSUME NEW c \in Caller, InferDropped(c) PROVE TypeOK'
  BY <1>12, Values DEF InferDropped, TypeOK
<1>13. ASSUME NEW e \in Exec, NEW t \in Tenant, NEW q \in Question, RewriteRecord(e, t, q)
       PROVE  TypeOK'
  <2>1. /\ run' \in [Exec -> Execution] /\ calls < MaxCalls /\ calls' = calls + 1
        /\ touched' = [touched EXCEPT ![e] = @ \cup {<<t, q>>}]
        /\ UNCHANGED <<usage, node, answers, sent, heard, due>>
    BY <1>13, RewriteEffect
  <2>2. calls' \in 0..MaxCalls
    BY <1>a, <2>1
  <2>3. touched' \in [Exec -> SUBSET (Tenant \X Question)]
    BY <2>1 DEF TypeOK
  <2>4. QED
    BY <2>1, <2>2, <2>3 DEF node, TypeOK
<1>14. CASE UNCHANGED vars
  BY <1>14 DEF vars, node, TypeOK
<1>15. QED
  BY <1>1, <1>2, <1>3, <1>4, <1>5, <1>6, <1>7, <1>8, <1>9, <1>10, <1>11, <1>12, <1>13, <1>14,
     StepKinds DEF Aside

(***************************************************************************)
(* Sessions.                                                               *)
(***************************************************************************)
LEMMA OrderLasts ==
    ASSUME NEW h \in History, NEW n \in Nat, NEW m \in Nat, n <= m, InOrder(h, n)
    PROVE  InOrder(h, m)
<1>1. \A i \in 1..h.total : h.prompts[i] \in Nat
  BY DEF InOrder, History
<1>2. QED
  BY <1>1 DEF InOrder

LEMMA OrderGrows ==
    ASSUME NEW h \in History, NEW n \in Nat, InOrder(h, n)
    PROVE  InOrder(Extended(h, n + 1), n + 1)
<1> DEFINE p == h.prompts
           k == Len(p)
           x == Extended(h, n + 1)
<1>1. /\ p \in Seq(Nat) /\ k \in Nat /\ h.total = k /\ h.responses = p
      /\ \A i \in 1..k : p[i] \in Nat /\ p[i] <= n
      /\ \A i, j \in 1..k : i < j => p[i] < p[j]
  BY DEF InOrder, History
<1>2. x.prompts = Append(p, n + 1) /\ x.responses = Append(p, n + 1) /\ x.total = k + 1
  BY <1>1 DEF Extended
<1>3. /\ Len(Append(p, n + 1)) = k + 1 /\ Append(p, n + 1)[k + 1] = n + 1
      /\ \A i \in 1..k : Append(p, n + 1)[i] = p[i]
  BY <1>1
<1> HIDE DEF p, k, x
<1>4. \A i \in 1..k + 1 : i \in 1..k \/ i = k + 1
  BY <1>1
<1>5. \A i \in 1..k + 1 : Append(p, n + 1)[i] <= n + 1
  BY <1>1, <1>3, <1>4
<1>6. ASSUME NEW i \in 1..k + 1, NEW j \in 1..k + 1, i < j
      PROVE  Append(p, n + 1)[i] < Append(p, n + 1)[j]
  <2>1. i \in 1..k
    BY <1>1, <1>6
  <2>2. CASE j \in 1..k
    BY <1>1, <1>3, <1>6, <2>1, <2>2
  <2>3. CASE j = k + 1
    BY <1>1, <1>3, <2>1, <2>3
  <2>4. QED
    BY <1>4, <2>2, <2>3
<1>7. QED
  BY <1>2, <1>3, <1>5, <1>6 DEF InOrder, x

LEMMA HistoriesNext == TypeOK /\ Histories /\ [Next]_vars => Histories'
<1> SUFFICES ASSUME TypeOK, Histories, [Next]_vars PROVE Histories'
  OBVIOUS
\* Most steps leave sessions, copies and images alone.
<1>1. ASSUME NEW e \in Exec, Only(e), run'[e].image \in {run[e].image, sessions},
             UNCHANGED <<sessions, inferring, exchanges>>
      PROVE  Histories'
  BY <1>1 DEF Histories, Only
<1>2. ASSUME NEW e \in Exec, NEW t \in Tenant, NEW n \in Limit, NEW parent \in Exec \cup {None},
             Start(e, t, n, parent)
      PROVE  Histories'
  <2>1. /\ Only(e) /\ run'[e].image = run[e].image /\ UNCHANGED <<inferring, exchanges>>
        /\ sessions' = IF parent = None THEN sessions ELSE Restored(run[parent].image)
    BY <1>2, StartEffect DEF Start, Same
  <2>2. \A s \in Session : InOrder(sessions'[s], exchanges)
    <3>1. CASE parent = None
      BY <2>1, <3>1 DEF Histories
    <3>2. CASE parent # None
      BY <2>1, <3>2 DEF Restored, Histories
    <3>3. QED
      BY <3>1, <3>2
  <2>3. QED
    BY <2>1, <2>2 DEF Histories, Only
<1>3. ASSUME NEW e \in Exec, Ends(e) \/ Cancel(e) \/ Asks(e) \/ Answers(e) \/ OutsideFails(e)
                             \/ Returns(e) \/ Burns(e)
      PROVE  Histories'
  <2>1. CASE Ends(e)
    BY <1>1, <2>1, EndsEffect DEF node
  <2>2. CASE Cancel(e)
    BY <1>1, <2>2, CancelEffect DEF Cancel, node, Same
  <2>3. CASE Asks(e)
    BY <1>1, <2>3, AsksEffect DEF node, Same
  <2>4. CASE Answers(e)
    BY <1>1, <2>4, AnswersEffect DEF node, Same
  <2>5. CASE OutsideFails(e)
    BY <1>1, <2>5, FailEffect DEF OutsideFails, node, Same
  <2>6. CASE Returns(e)
    BY <1>1, <2>6, ReturnsEffect DEF node, Same
  <2>7. CASE Burns(e)
    BY <1>1, <2>7, BurnsEffect DEF Same, Free
  <2>8. QED
    BY <1>3, <2>1, <2>2, <2>3, <2>4, <2>5, <2>6, <2>7
<1>4. CASE \E c \in Cartridge : Precompile(c)
  BY <1>4 DEF Precompile, Histories
<1>5. ASSUME NEW c \in Caller, NEW s \in Session, InferBegins(c, s) PROVE Histories'
  <2> DEFINE x == Extended(sessions[s], exchanges + 1)
  <2>1. /\ exchanges \in Nat /\ exchanges' = exchanges + 1 /\ exchanges <= exchanges'
        /\ exchanges' \in Nat /\ UNCHANGED run
        /\ sessions' = [sessions EXCEPT ![s].created = TRUE]
        /\ inferring' = [inferring EXCEPT ![c] = [session |-> s, copy |-> x]]
    BY <1>5, GuestServicesAssumption DEF InferBegins, TypeOK
  <2>2. sessions[s] \in History /\ InOrder(sessions[s], exchanges)
    BY DEF TypeOK, Histories
  <2>3. InOrder(x, exchanges')
    BY <2>1, <2>2, OrderGrows
  <2> HIDE DEF x
  <2>4. \A h \in History : InOrder(h, exchanges) => InOrder(h, exchanges')
    BY <2>1, OrderLasts
  <2>5. /\ \A r \in Session : sessions[r] \in History
        /\ \A d \in Caller : inferring[d].copy \in History
        /\ \A e \in Exec, r \in Session : run[e].image[r] \in History
    BY ExecutionParts DEF TypeOK
  <2>6. \A d \in Caller : inferring'[d].copy = IF d = c THEN x ELSE inferring[d].copy
    BY <2>1 DEF TypeOK
  <2>7. \A r \in Session : InOrder(sessions'[r], exchanges')
    <3>1. \A r \in Session : InOrder(sessions[r], exchanges')
      BY <2>4, <2>5 DEF Histories
    <3>2. \A r \in Session : /\ sessions'[r].prompts = sessions[r].prompts
                             /\ sessions'[r].responses = sessions[r].responses
                             /\ sessions'[r].total = sessions[r].total
      BY <2>1, <2>5 DEF TypeOK, History
    <3>3. QED
      BY <3>1, <3>2 DEF InOrder
  <2>8. QED
    BY <2>1, <2>3, <2>4, <2>5, <2>6, <2>7 DEF Histories
<1>6. ASSUME NEW c \in Caller, InferEnds(c) PROVE Histories'
  <2>1. InOrder(NewHistory, exchanges)
    BY DEF InOrder, NewHistory
  <2>2. /\ UNCHANGED <<run, exchanges>> /\ inferring[c].session \in Session
        /\ sessions' = [sessions EXCEPT ![inferring[c].session] = inferring[c].copy]
        /\ inferring' = [inferring EXCEPT ![c] = [session |-> None, copy |-> NewHistory]]
    BY <1>6 DEF InferEnds, TypeOK
  <2>3. QED
    BY <2>1, <2>2 DEF Histories, TypeOK
<1>7. ASSUME NEW c \in Caller, InferDropped(c) PROVE Histories'
  <2>1. InOrder(NewHistory, exchanges)
    BY DEF InOrder, NewHistory
  <2>2. QED
    BY <1>7, <2>1 DEF InferDropped, Histories, TypeOK
<1>8. ASSUME NEW e \in Exec, NEW t \in Tenant, NEW q \in Question, RewriteRecord(e, t, q)
      PROVE  Histories'
  BY <1>1, <1>8, RewriteEffect DEF node, Same
<1>9. CASE UNCHANGED vars
  BY <1>9 DEF vars, node, Histories
<1>10. QED
  BY <1>2, <1>3, <1>4, <1>5, <1>6, <1>7, <1>8, <1>9, StepKinds DEF Aside

(***************************************************************************)
(* Bills.                                                                  *)
(***************************************************************************)
LEMMA BillsNext == TypeOK /\ Bills /\ [Next]_vars => Bills'
<1> SUFFICES ASSUME TypeOK, Bills, [Next]_vars PROVE Bills'
  OBVIOUS
<1>a. \A e \in Exec : due[e] \in Nat /\ run[e].fuel \in Nat
  BY ExecutionParts DEF TypeOK
\* What is added to the bill of a running execution leaves its fuel, or nothing is left.
<1>1. ASSUME NEW e \in Exec, Only(e), run[e].status = "running", run'[e].status # "new",
             NEW d \in Nat, due' = [due EXCEPT ![e] = @ + d], run'[e].fuel \in Nat,
             run'[e].fuel > 0 => run'[e].fuel + d <= run[e].fuel
      PROVE  Bills'
  <2>1. due'[e] = due[e] + d /\ \A f \in Exec : f # e => due'[f] = due[f]
    BY <1>1 DEF TypeOK
  <2>2. run'[e].fuel > 0 => run'[e].fuel + due'[e] <= Budget
    <3>1. SUFFICES ASSUME run'[e].fuel > 0 PROVE run'[e].fuel + due'[e] <= Budget
      OBVIOUS
    <3>2. run'[e].fuel + d <= run[e].fuel /\ run[e].fuel > 0
      BY <1>1, <1>a, <3>1
    <3>3. run[e].fuel + due[e] <= Budget
      BY <3>2 DEF Bills
    <3>4. QED
      BY <1>1, <1>a, <2>1, <3>2, <3>3, GuestServicesAssumption
  <2>3. QED
    BY <1>1, <2>1, <2>2 DEF Bills, Only
<1>2. ASSUME NEW e \in Exec, Only(e), run'[e].status # "new", run'[e].fuel = 0, UNCHANGED due
      PROVE  Bills'
  BY <1>2 DEF Bills, Only
<1>3. ASSUME NEW e \in Exec, NEW t \in Tenant, NEW n \in Limit, NEW parent \in Exec \cup {None},
             Start(e, t, n, parent)
      PROVE  Bills'
  <2>1. /\ Only(e) /\ run'[e].status = "running" /\ run'[e].fuel = Budget /\ due[e] = 0
        /\ UNCHANGED due
    BY <1>3, StartEffect DEF Start, Bills
  <2>2. Budget + 0 <= Budget
    BY GuestServicesAssumption
  <2>3. QED
    BY <2>1, <2>2 DEF Bills, Only
<1>4. ASSUME NEW e \in Exec, Ends(e) PROVE Bills'
  BY <1>2, <1>4, EndsEffect
<1>5. ASSUME NEW e \in Exec, Cancel(e) PROVE Bills'
  BY <1>2, <1>5, CancelEffect DEF Cancel
<1>b. \A f, c \in Nat : Deduct(f, c) \in Nat /\ (Deduct(f, c) > 0 => Deduct(f, c) + c <= f)
  BY DEF Deduct
<1>6. ASSUME NEW e \in Exec, Asks(e) PROVE Bills'
  <2>1. PICK cost \in Nat :
           /\ Only(e) /\ run[e].status = "running" /\ run'[e].status = "running"
           /\ due' = [due EXCEPT ![e] = @ + cost]
           /\ run'[e].fuel \in Nat /\ (run'[e].fuel > 0 => run'[e].fuel + cost <= run[e].fuel)
    <3>1. PICK q \in Question :
             /\ Only(e) /\ run'[e].status = run[e].status /\ Running(e, "guest")
             /\ \/ /\ due' = [due EXCEPT ![e] = @ + FetchCost]
                   /\ run'[e].fuel = Deduct(run[e].fuel, FetchCost)
                \/ UNCHANGED due /\ run'[e].fuel = run[e].fuel
      BY <1>6, AsksEffect DEF Same
    <3>2. CASE /\ due' = [due EXCEPT ![e] = @ + FetchCost]
               /\ run'[e].fuel = Deduct(run[e].fuel, FetchCost)
      BY <1>a, <1>b, <3>1, <3>2, GuestServicesAssumption DEF Running
    <3>3. CASE UNCHANGED due /\ run'[e].fuel = run[e].fuel
      <4>1. due' = [due EXCEPT ![e] = @ + 0] /\ run[e].fuel + 0 <= run[e].fuel
        BY <1>a, <3>3 DEF TypeOK
      <4>2. QED
        BY <1>a, <3>1, <3>3, <4>1 DEF Running
    <3>4. QED
      BY <3>1, <3>2, <3>3
  <2>2. QED
    BY <1>1, <2>1
<1>7. ASSUME NEW e \in Exec, Only(e), run'[e].status = run[e].status, run'[e].fuel = run[e].fuel,
             UNCHANGED due
      PROVE  Bills'
  BY <1>7 DEF Bills, Only
<1>8. ASSUME NEW e \in Exec, Answers(e) PROVE Bills'
  BY <1>7, <1>8, AnswersEffect DEF Same
<1>9. ASSUME NEW e \in Exec, OutsideFails(e) PROVE Bills'
  BY <1>7, <1>9, FailEffect DEF Same, OutsideFails
<1>10. ASSUME NEW e \in Exec, Returns(e) PROVE Bills'
  <2>1. PICK cost \in Nat :
           /\ Only(e) /\ run'[e].status = run[e].status /\ Running(e, "answered")
           /\ run'[e].fuel = Deduct(run[e].fuel, cost) /\ due' = [due EXCEPT ![e] = @ + cost]
    BY <1>10, ReturnsEffect DEF Same
  <2>2. /\ run'[e].fuel \in Nat /\ (run'[e].fuel > 0 => run'[e].fuel + cost <= run[e].fuel)
        /\ run[e].status = "running"
    BY <1>a, <1>b, <2>1 DEF Running
  <2>3. QED
    BY <1>1, <2>1, <2>2
<1>11. ASSUME NEW e \in Exec, Burns(e) PROVE Bills'
  <2>1. /\ Only(e) /\ run'[e].status = run[e].status /\ run[e].status = "running"
        /\ run' \in [Exec -> Execution]
    BY <1>11, BurnsEffect DEF Same, Free, Running
  <2>2. run'[e].fuel \in Nat
    BY <2>1, ExecutionParts
  <2>3. PICK d \in Nat : /\ due' = [due EXCEPT ![e] = @ + d]
                         /\ run'[e].fuel > 0 => run'[e].fuel + d <= run[e].fuel
    BY <1>11, BurnsEffect
  <2>4. QED
    BY <1>1, <2>1, <2>2, <2>3
<1>12. CASE Aside \/ UNCHANGED vars
  BY <1>12 DEF Aside, Precompile, InferBegins, InferEnds, InferDropped, vars, Bills
<1>13. ASSUME NEW e \in Exec, NEW t \in Tenant, NEW q \in Question, RewriteRecord(e, t, q)
       PROVE  Bills'
  BY <1>7, <1>13, RewriteEffect DEF Same
<1>14. QED
  BY <1>3, <1>4, <1>5, <1>6, <1>8, <1>9, <1>10, <1>11, <1>12, <1>13, StepKinds

(***************************************************************************)
(* Waiting.                                                                *)
(***************************************************************************)
LEMMA WaitingNext == TypeOK /\ Waiting /\ [Next]_vars => Waiting'
<1> SUFFICES ASSUME TypeOK, Waiting, [Next]_vars PROVE Waiting'
  OBVIOUS
<1>1. ASSUME NEW e \in Exec, Only(e),
             run'[e].pc # "guest" => run'[e].status = "running" /\ run'[e].asked \in Question,
             run'[e].pc = "outside" => run'[e].cache[run'[e].tenant][run'[e].asked] = Failure,
             run'[e].pc = "answered" /\ run'[e].answer # Failure =>
                 run'[e].cache[run'[e].tenant][run'[e].asked] = run'[e].answer
      PROVE  Waiting'
  BY <1>1 DEF Waiting, Only, Directory
<1>2. ASSUME NEW e \in Exec, Only(e), run'[e].pc = "guest" PROVE Waiting'
  BY <1>1, <1>2
<1>3. ASSUME NEW e \in Exec, NEW t \in Tenant, NEW n \in Limit, NEW parent \in Exec \cup {None},
             Start(e, t, n, parent)
      PROVE  Waiting'
  <2>1. Only(e) /\ run'[e].pc = run[e].pc /\ run[e].status = "new"
    BY <1>3, StartEffect DEF Start, Same
  <2>2. run[e].pc = "guest"
    BY <2>1 DEF Waiting
  <2>3. QED
    BY <1>2, <2>1, <2>2
<1>4. ASSUME NEW e \in Exec, Ends(e) PROVE Waiting'
  BY <1>2, <1>4, EndsEffect DEF Same, Running
<1>5. ASSUME NEW e \in Exec, Cancel(e) PROVE Waiting'
  BY <1>2, <1>5, CancelEffect
<1>6. ASSUME NEW e \in Exec, Asks(e) PROVE Waiting'
  <2>1. PICK q \in Question :
           /\ Only(e) /\ Same(e, {"cache", "tenant", "limit", "status", "image"})
           /\ run'[e].asked = q /\ run'[e].answer = Directory(e)[q]
           /\ run'[e].pc = IF Directory(e)[q] # Failure THEN "answered" ELSE "outside"
           /\ Running(e, "guest")
    BY <1>6, AsksEffect
  <2>2. /\ run'[e].cache = run[e].cache /\ run'[e].tenant = run[e].tenant
        /\ run'[e].status = "running"
    BY <2>1 DEF Same, Running
  <2>3. QED
    BY <1>1, <2>1, <2>2 DEF Directory
<1>7. ASSUME NEW e \in Exec, Answers(e) PROVE Waiting'
  <2>1. PICK a \in Answer :
           /\ run[e].asked \in Question /\ Only(e)
           /\ Same(e, {"tenant", "limit", "status", "image", "fuel", "asked"})
           /\ run'[e].pc = "answered" /\ run'[e].answer = a
           /\ run'[e].cache = Recorded(e, run[e].asked, a) /\ Running(e, "outside")
    BY <1>7, AnswersEffect
  <2>2. /\ run'[e].asked = run[e].asked /\ run'[e].tenant = run[e].tenant
        /\ run'[e].status = "running"
    BY <2>1 DEF Same, Running
  <2>3. Recorded(e, run[e].asked, a)[run[e].tenant][run[e].asked] = a
    BY <2>1, RecordedType
  <2>4. QED
    BY <1>1, <2>1, <2>2, <2>3
<1>8. ASSUME NEW e \in Exec, OutsideFails(e) PROVE Waiting'
  <2>1. /\ Only(e) /\ run'[e].pc = "answered" /\ run'[e].answer = Failure
        /\ run'[e].asked = run[e].asked /\ run'[e].status = run[e].status /\ Running(e, "outside")
    BY <1>8, FailEffect DEF Same, OutsideFails
  <2>2. run[e].asked \in Question
    BY <2>1 DEF Waiting, Running
  <2>3. QED
    BY <1>1, <2>1, <2>2 DEF Running
<1>9. ASSUME NEW e \in Exec, Returns(e) PROVE Waiting'
  BY <1>2, <1>9, ReturnsEffect
<1>10. ASSUME NEW e \in Exec, Burns(e) PROVE Waiting'
  BY <1>2, <1>10, BurnsEffect DEF Same, Free, Running
<1>11. CASE Aside \/ UNCHANGED vars
  BY <1>11 DEF Aside, Precompile, InferBegins, InferEnds, InferDropped, vars, Waiting, Directory
<1>12. ASSUME NEW e \in Exec, NEW t \in Tenant, NEW q \in Question, RewriteRecord(e, t, q)
       PROVE  Waiting'
  BY <1>2, <1>12, RewriteEffect DEF Same, Running
<1>13. QED
  BY <1>3, <1>4, <1>5, <1>6, <1>7, <1>8, <1>9, <1>10, <1>11, <1>12, StepKinds

(***************************************************************************)
(* Quotas.                                                                 *)
(***************************************************************************)
\* The facts about finite sets the counting needs.
LEMMA Counting ==
    ASSUME NEW S, IsFiniteSet(S), NEW x
    PROVE  /\ Cardinality(S) \in Nat
           /\ IsFiniteSet(S \cup {x}) /\ Cardinality(S \cup {x}) <= Cardinality(S) + 1
           /\ x \in S => IsFiniteSet(S \ {x}) /\ Cardinality(S \ {x}) + 1 = Cardinality(S)
           /\ \A T : T \subseteq S => IsFiniteSet(T) /\ Cardinality(T) <= Cardinality(S)
<1>1. Cardinality(S) \in Nat
  BY FS_CardinalityType
<1>2. IsFiniteSet(S \cup {x}) /\ Cardinality(S \cup {x}) <= Cardinality(S) + 1
  BY <1>1, FS_AddElement
<1>3. x \in S => IsFiniteSet(S \ {x}) /\ Cardinality(S \ {x}) = Cardinality(S) - 1
  BY FS_RemoveElement
<1>4. \A T : T \subseteq S => IsFiniteSet(T) /\ Cardinality(T) <= Cardinality(S)
  BY FS_Subset
<1>5. QED
  BY <1>1, <1>2, <1>3, <1>4

\* Who is leaving after a step about e.
LEMMA LeavingNext ==
    ASSUME NEW e \in Exec, Only(e), NEW t \in Tenant
    PROVE  /\ Leaving(t)' \subseteq Leaving(t) \cup {e}
           /\ \/ (run'[e].pc = "outside" /\ run'[e].asked \in Url /\ run'[e].tenant = t)
              \/ Leaving(t)' \subseteq Leaving(t) \ {e}
<1>1. \A f \in Exec : f # e => run'[f] = run[f]
  BY DEF Only
<1>2. QED
  BY <1>1 DEF Leaving

LEMMA QuotasNext == TypeOK /\ Waiting /\ Quotas /\ [Next]_vars => Quotas'
<1> SUFFICES ASSUME TypeOK, Waiting, Quotas, [Next]_vars PROVE Quotas'
  OBVIOUS
<1>a. \A t \in Tenant : usage[t] \in Nat /\ sent[t] \in Nat
  BY DEF TypeOK
<1>b. \A e \in Exec : run[e].tenant \in Tenant /\ run[e].limit \in Nat
  BY ExecutionParts DEF TypeOK
\* Nobody new is leaving, and nothing was sent.
<1>1. ASSUME NEW t \in Tenant, Leaving(t)' \subseteq Leaving(t), sent'[t] = sent[t],
             usage'[t] \in Nat, usage[t] <= usage'[t]
      PROVE  IsFiniteSet(Leaving(t)') /\ sent'[t] + Cardinality(Leaving(t)') <= usage'[t]
  <2>1. IsFiniteSet(Leaving(t)) /\ sent[t] + Cardinality(Leaving(t)) <= usage[t]
    BY DEF Quotas
  <2>2. /\ IsFiniteSet(Leaving(t)') /\ Cardinality(Leaving(t)') <= Cardinality(Leaving(t))
        /\ Cardinality(Leaving(t)) \in Nat
    BY <1>1, <2>1, Counting
  <2>3. Cardinality(Leaving(t)') \in Nat
    BY <2>2, FS_CardinalityType
  <2>4. QED
    BY <1>1, <1>a, <2>1, <2>2, <2>3
\* What stays: the executions that started, with their tenants and limits.
<1>2. ASSUME NEW t \in Tenant, usage'[t] = usage[t],
             \A f \in Exec : run[f].status # "new" =>
                 /\ run'[f].status # "new" /\ run'[f].tenant = run[f].tenant
                 /\ run'[f].limit = run[f].limit
      PROVE  usage'[t] > 0 => \E f \in Exec : /\ run'[f].status # "new" /\ run'[f].tenant = t
                                              /\ usage'[t] <= run'[f].limit
  BY <1>2 DEF Quotas
\* Steps that neither send nor record.
<1>3. ASSUME NEW e \in Exec, Only(e), UNCHANGED <<usage, sent>>,
             run'[e].pc # "outside" \/ run'[e].asked \notin Url,
             run[e].status # "new" =>
                 /\ run'[e].status # "new" /\ run'[e].tenant = run[e].tenant
                 /\ run'[e].limit = run[e].limit
      PROVE  Quotas'
  <2> SUFFICES ASSUME NEW t \in Tenant
               PROVE  /\ IsFiniteSet(Leaving(t)') /\ sent'[t] + Cardinality(Leaving(t)') <= usage'[t]
                      /\ usage'[t] > 0 => \E f \in Exec : /\ run'[f].status # "new"
                                                          /\ run'[f].tenant = t
                                                          /\ usage'[t] <= run'[f].limit
    BY DEF Quotas
  <2>1. Leaving(t)' \subseteq Leaving(t)
    BY <1>3, LeavingNext
  <2>2. \A f \in Exec : run[f].status # "new" =>
            /\ run'[f].status # "new" /\ run'[f].tenant = run[f].tenant
            /\ run'[f].limit = run[f].limit
    BY <1>3 DEF Only
  <2>3. sent'[t] = sent[t] /\ usage'[t] = usage[t] /\ usage'[t] \in Nat /\ usage[t] <= usage'[t]
    BY <1>3, <1>a
  <2>4. QED
    BY <1>1, <1>2, <2>1, <2>2, <2>3
\* Steps that record n bytes of a tenant, and let one request of it go outside.
<1>4. ASSUME NEW e \in Exec, Only(e), Same(e, {"status", "tenant", "limit"}), UNCHANGED sent,
             run[e].status # "new",
             NEW n \in Nat, FitsQuota(run[e].tenant, n, run[e].limit),
             usage' = [usage EXCEPT ![run[e].tenant] = @ + n],
             n > 0 \/ run'[e].pc # "outside"
      PROVE  Quotas'
  <2> SUFFICES ASSUME NEW t \in Tenant
               PROVE  /\ IsFiniteSet(Leaving(t)') /\ sent'[t] + Cardinality(Leaving(t)') <= usage'[t]
                      /\ usage'[t] > 0 => \E f \in Exec : /\ run'[f].status # "new"
                                                          /\ run'[f].tenant = t
                                                          /\ usage'[t] <= run'[f].limit
    BY DEF Quotas
  <2>1. /\ run'[e].status = run[e].status /\ run'[e].tenant = run[e].tenant
        /\ run'[e].limit = run[e].limit
    BY <1>4 DEF Same
  <2>2. CASE t = run[e].tenant
    <3>1. usage'[t] = usage[t] + n /\ sent'[t] = sent[t] /\ usage[t] + n <= run[e].limit
      BY <1>4, <2>2 DEF TypeOK, FitsQuota
    <3>2. IsFiniteSet(Leaving(t)') /\ sent'[t] + Cardinality(Leaving(t)') <= usage'[t]
      <4>1. CASE run'[e].pc # "outside"
        <5>1. Leaving(t)' \subseteq Leaving(t)
          BY <1>4, <4>1, LeavingNext
        <5>2. usage'[t] \in Nat /\ usage[t] <= usage'[t]
          BY <1>4, <1>a, <3>1
        <5>3. QED
          BY <1>1, <3>1, <5>1, <5>2
      <4>2. CASE n > 0
        <5>1. IsFiniteSet(Leaving(t)) /\ sent[t] + Cardinality(Leaving(t)) <= usage[t]
          BY DEF Quotas
        <5>2. Leaving(t)' \subseteq Leaving(t) \cup {e}
          BY <1>4, LeavingNext
        <5>3. /\ IsFiniteSet(Leaving(t) \cup {e}) /\ Cardinality(Leaving(t)) \in Nat
              /\ Cardinality(Leaving(t) \cup {e}) <= Cardinality(Leaving(t)) + 1
          BY <5>1, Counting
        <5>4. /\ IsFiniteSet(Leaving(t)') /\ Cardinality(Leaving(t)') \in Nat
              /\ Cardinality(Leaving(t)') <= Cardinality(Leaving(t) \cup {e})
              /\ Cardinality(Leaving(t) \cup {e}) \in Nat
          BY <5>2, <5>3, FS_Subset, FS_CardinalityType
        <5>5. sent[t] \in Nat /\ usage[t] \in Nat
          BY <1>a
        <5>6. QED
          BY <1>4, <3>1, <4>2, <5>1, <5>3, <5>4, <5>5
      <4>3. QED
        BY <1>4, <4>1, <4>2
    <3>3. /\ run'[e].status # "new" /\ run'[e].tenant = t /\ usage'[t] <= run'[e].limit
      BY <1>4, <2>1, <2>2, <3>1
    <3>4. QED
      BY <3>2, <3>3
  <2>3. CASE t # run[e].tenant
    <3>1. usage'[t] = usage[t] /\ sent'[t] = sent[t] /\ usage'[t] \in Nat /\ usage[t] <= usage'[t]
      BY <1>4, <1>a, <2>3 DEF TypeOK
    <3>2. Leaving(t)' \subseteq Leaving(t)
      BY <1>4, <2>1, <2>3, LeavingNext
    <3>3. \A f \in Exec : run[f].status # "new" =>
              /\ run'[f].status # "new" /\ run'[f].tenant = run[f].tenant
              /\ run'[f].limit = run[f].limit
      BY <1>4, <2>1 DEF Only
    <3>4. QED
      BY <1>1, <1>2, <3>1, <3>2, <3>3
  <2>4. QED
    BY <2>2, <2>3
\* Steps that send a request that was leaving.
<1>5. ASSUME NEW e \in Exec, Only(e), Same(e, {"status", "tenant", "limit"}), UNCHANGED usage,
             Running(e, "outside"), run[e].asked \in Url, run'[e].pc # "outside",
             sent' = [sent EXCEPT ![run[e].tenant] = @ + 1]
      PROVE  Quotas'
  <2> SUFFICES ASSUME NEW t \in Tenant
               PROVE  /\ IsFiniteSet(Leaving(t)') /\ sent'[t] + Cardinality(Leaving(t)') <= usage'[t]
                      /\ usage'[t] > 0 => \E f \in Exec : /\ run'[f].status # "new"
                                                          /\ run'[f].tenant = t
                                                          /\ usage'[t] <= run'[f].limit
    BY DEF Quotas
  <2>1. \A f \in Exec : run[f].status # "new" =>
            /\ run'[f].status # "new" /\ run'[f].tenant = run[f].tenant
            /\ run'[f].limit = run[f].limit
    BY <1>5 DEF Only, Same
  <2>2. Leaving(t)' \subseteq Leaving(t) \ {e} /\ usage'[t] = usage[t]
    BY <1>5, LeavingNext
  <2>3. IsFiniteSet(Leaving(t)') /\ sent'[t] + Cardinality(Leaving(t)') <= usage'[t]
    <3>1. CASE t = run[e].tenant
      <4>1. e \in Leaving(t) /\ sent'[t] = sent[t] + 1
        BY <1>5, <3>1 DEF Leaving, Running, TypeOK
      <4>2. IsFiniteSet(Leaving(t)) /\ sent[t] + Cardinality(Leaving(t)) <= usage[t]
        BY DEF Quotas
      <4>3. /\ Cardinality(Leaving(t)) \in Nat /\ IsFiniteSet(Leaving(t) \ {e})
            /\ Cardinality(Leaving(t) \ {e}) + 1 = Cardinality(Leaving(t))
        BY <4>1, <4>2, Counting
      <4>4. /\ IsFiniteSet(Leaving(t)') /\ Cardinality(Leaving(t)') \in Nat
            /\ Cardinality(Leaving(t)') <= Cardinality(Leaving(t) \ {e})
            /\ Cardinality(Leaving(t) \ {e}) \in Nat
        BY <2>2, <4>3, FS_Subset, FS_CardinalityType
      <4>5. sent[t] \in Nat /\ usage[t] \in Nat
        BY <1>a
      <4>6. QED
        BY <2>2, <4>1, <4>2, <4>3, <4>4, <4>5
    <3>2. CASE t # run[e].tenant
      <4>1. sent'[t] = sent[t] /\ usage'[t] \in Nat /\ usage[t] <= usage'[t]
        BY <1>5, <1>a, <2>2, <3>2 DEF TypeOK
      <4>2. QED
        BY <1>1, <2>2, <4>1
    <3>3. QED
      BY <3>1, <3>2
  <2>4. QED
    BY <1>2, <2>1, <2>2, <2>3
<1>6. ASSUME NEW e \in Exec, NEW t \in Tenant, NEW n \in Limit, NEW parent \in Exec \cup {None},
             Start(e, t, n, parent)
      PROVE  Quotas'
  <2>1. /\ Only(e) /\ run'[e].pc = run[e].pc /\ run[e].status = "new"
        /\ UNCHANGED <<usage, sent>>
    BY <1>6, StartEffect DEF Start, Same
  <2>2. run[e].pc = "guest"
    BY <2>1 DEF Waiting
  <2>3. QED
    BY <1>3, <2>1, <2>2
<1>7. ASSUME NEW e \in Exec, Ends(e) PROVE Quotas'
  <2>1. /\ Only(e) /\ UNCHANGED <<usage, sent>> /\ run'[e].pc = "guest" /\ run'[e].status = "ended"
        /\ run'[e].tenant = run[e].tenant /\ run'[e].limit = run[e].limit
    BY <1>7, EndsEffect DEF Same, Running
  <2>2. QED
    BY <1>3, <2>1
<1>8. ASSUME NEW e \in Exec, Cancel(e) PROVE Quotas'
  <2>1. /\ Only(e) /\ UNCHANGED <<usage, sent>> /\ run'[e].pc = "guest" /\ run'[e].status = "lost"
        /\ run'[e].tenant = run[e].tenant /\ run'[e].limit = run[e].limit
    BY <1>8, CancelEffect DEF Same, Cancel
  <2>2. QED
    BY <1>3, <2>1
<1>9. ASSUME NEW e \in Exec, Asks(e) PROVE Quotas'
  <2>1. PICK q \in Question :
           /\ Only(e) /\ Same(e, {"cache", "tenant", "limit", "status", "image"})
           /\ run'[e].asked = q /\ Running(e, "guest") /\ UNCHANGED <<node, answers, sent, heard>>
           /\ \/ /\ q \in Url /\ FitsQuota(run[e].tenant, 1, run[e].limit)
                 /\ usage' = [usage EXCEPT ![run[e].tenant] = @ + 1]
              \/ /\ q \in Prompt /\ UNCHANGED <<usage, due>>
    BY <1>9, AsksEffect
  <2>2. Same(e, {"status", "tenant", "limit"}) /\ run[e].status # "new" /\ UNCHANGED sent
    BY <2>1 DEF Same, Running
  <2>3. CASE /\ q \in Url /\ FitsQuota(run[e].tenant, 1, run[e].limit)
             /\ usage' = [usage EXCEPT ![run[e].tenant] = @ + 1]
    <3>1. PICK n \in Nat : n = 1
      OBVIOUS
    <3>2. /\ FitsQuota(run[e].tenant, n, run[e].limit) /\ n > 0
          /\ usage' = [usage EXCEPT ![run[e].tenant] = @ + n]
      BY <2>3, <3>1
    <3>3. QED
      BY <1>4, <2>1, <2>2, <3>2
  <2>4. CASE q \in Prompt /\ UNCHANGED usage
    <3>1. q \notin Url
      BY <2>4, GuestServicesAssumption
    <3>2. QED
      BY <1>3, <2>1, <2>2, <2>4, <3>1 DEF Same
  <2>5. QED
    BY <2>1, <2>3, <2>4
<1>10. ASSUME NEW e \in Exec, Answers(e) PROVE Quotas'
  <2>1. /\ Only(e) /\ Same(e, {"tenant", "limit", "status", "image", "fuel", "asked"})
        /\ run'[e].pc = "answered" /\ Running(e, "outside") /\ UNCHANGED usage
        /\ \/ run[e].asked \in Url /\ sent' = [sent EXCEPT ![run[e].tenant] = @ + 1]
           \/ run[e].asked \in Prompt /\ UNCHANGED sent
    BY <1>10, AnswersEffect
  <2>2. Same(e, {"status", "tenant", "limit"})
    BY <2>1 DEF Same
  <2>3. CASE run[e].asked \in Url /\ sent' = [sent EXCEPT ![run[e].tenant] = @ + 1]
    BY <1>5, <2>1, <2>2, <2>3
  <2>4. CASE UNCHANGED sent
    BY <1>3, <2>1, <2>2, <2>4 DEF Same
  <2>5. QED
    BY <2>1, <2>3, <2>4
<1>11. ASSUME NEW e \in Exec, OutsideFails(e) PROVE Quotas'
  <2>1. /\ Only(e) /\ Same(e, {"tenant", "limit", "status", "image", "fuel", "asked", "cache"})
        /\ run'[e].pc = "answered" /\ Running(e, "outside") /\ UNCHANGED usage
        /\ sent' = [sent EXCEPT ![run[e].tenant] = IF run[e].asked \in Url THEN @ + 1 ELSE @]
    BY <1>11, FailEffect DEF OutsideFails
  <2>2. Same(e, {"status", "tenant", "limit"})
    BY <2>1 DEF Same
  <2>3. CASE run[e].asked \in Url
    <3>1. sent' = [sent EXCEPT ![run[e].tenant] = @ + 1]
      BY <2>1, <2>3
    <3>2. QED
      BY <1>5, <2>1, <2>2, <2>3, <3>1
  <2>4. CASE run[e].asked \notin Url
    <3>1. UNCHANGED sent
      BY <2>1, <2>4 DEF TypeOK
    <3>2. QED
      BY <1>3, <2>1, <2>2, <3>1 DEF Same
  <2>5. QED
    BY <2>3, <2>4
<1>12. ASSUME NEW e \in Exec, Returns(e) PROVE Quotas'
  <2>1. /\ Only(e) /\ Same(e, {"tenant", "limit", "status", "image", "cache"})
        /\ run'[e].pc = "guest" /\ Running(e, "answered") /\ UNCHANGED sent
        /\ \/ UNCHANGED usage
           \/ /\ FitsQuota(run[e].tenant, run[e].answer.size, run[e].limit)
              /\ usage' = [usage EXCEPT ![run[e].tenant] = @ + run[e].answer.size]
    BY <1>12, ReturnsEffect
  <2>2. Same(e, {"status", "tenant", "limit"}) /\ run[e].status # "new"
    BY <2>1 DEF Same, Running
  <2>3. run[e].answer.size \in Nat
    <3>1. run[e].answer \in Answer
      BY ExecutionParts DEF TypeOK
    <3>2. QED
      BY <3>1 DEF Answer
  <2>4. CASE UNCHANGED usage
    BY <1>3, <2>1, <2>2, <2>4 DEF Same
  <2>5. CASE /\ FitsQuota(run[e].tenant, run[e].answer.size, run[e].limit)
             /\ usage' = [usage EXCEPT ![run[e].tenant] = @ + run[e].answer.size]
    <3>1. PICK n \in Nat : n = run[e].answer.size
      BY <2>3
    <3>2. /\ FitsQuota(run[e].tenant, n, run[e].limit)
          /\ usage' = [usage EXCEPT ![run[e].tenant] = @ + n]
      BY <2>5, <3>1
    <3>3. run'[e].pc # "outside"
      BY <2>1
    <3>4. QED
      BY <1>4, <2>1, <2>2, <3>2, <3>3
  <2>6. QED
    BY <2>1, <2>4, <2>5
<1>13. ASSUME NEW e \in Exec, Burns(e) PROVE Quotas'
  <2>1. /\ Only(e) /\ run'[e].status = run[e].status /\ run'[e].tenant = run[e].tenant
        /\ run'[e].limit = run[e].limit /\ run'[e].pc = "guest" /\ UNCHANGED <<usage, sent>>
    BY <1>13, BurnsEffect DEF Same, Free, Running
  <2>2. QED
    BY <1>3, <2>1
<1>14. CASE Aside \/ UNCHANGED vars
  BY <1>14 DEF Aside, Precompile, InferBegins, InferEnds, InferDropped, vars, Quotas, Leaving
<1>15. ASSUME NEW e \in Exec, NEW t \in Tenant, NEW q \in Question, RewriteRecord(e, t, q)
       PROVE  Quotas'
  <2>1. /\ Only(e) /\ run'[e].status = run[e].status /\ run'[e].tenant = run[e].tenant
        /\ run'[e].limit = run[e].limit /\ run'[e].pc = "guest" /\ UNCHANGED <<usage, sent>>
    BY <1>15, RewriteEffect DEF Same, Running
  <2>2. QED
    BY <1>3, <2>1
<1>16. QED
  BY <1>6, <1>7, <1>8, <1>9, <1>10, <1>11, <1>12, <1>13, <1>14, <1>15, StepKinds

(***************************************************************************)
(* Lineage and origins.                                                    *)
(***************************************************************************)
\* Nothing becomes known but what some execution knew.
LEMMA OriginsLast ==
    ASSUME Origins, answers \in Nat, answers' \in Nat, answers <= answers',
           \A f \in Exec : \E g \in Exec : \A t \in Tenant, q \in Question :
               Known(f, t, q)' \subseteq Known(g, t, q)
    PROVE  Origins'
<1>1. ASSUME NEW f \in Exec, NEW t \in Tenant, NEW q \in Question
      PROVE  Known(f, t, q)' \subseteq 1..answers'
  <2>1. PICK g \in Exec : Known(f, t, q)' \subseteq Known(g, t, q)
    OBVIOUS
  <2>2. Known(g, t, q) \subseteq 1..answers
    BY DEF Origins
  <2>3. QED
    BY <2>1, <2>2
<1>2. ASSUME NEW e \in Exec, NEW f \in Exec, NEW t \in Tenant, NEW u \in Tenant,
             NEW q \in Question, t # u
      PROVE  Known(e, t, q)' \cap Known(f, u, q)' = {}
  <2>1. PICK g \in Exec : Known(e, t, q)' \subseteq Known(g, t, q)
    OBVIOUS
  <2>2. PICK h \in Exec : Known(f, u, q)' \subseteq Known(h, u, q)
    OBVIOUS
  <2>3. Known(g, t, q) \cap Known(h, u, q) = {}
    BY <1>2 DEF Origins
  <2>4. QED
    BY <2>1, <2>2, <2>3
<1>3. QED
  BY <1>1, <1>2 DEF Origins

\* What an execution that is not lost heard is one version at most.
LEMMA OneWritten ==
    ASSUME TypeOK, Origins, NEW e \in Exec, NEW t \in Tenant, NEW q \in Question
    PROVE  \E v \in 0..answers : Written(e, t, q) \subseteq {v}
<1>1. answers \in Nat /\ 0 \in 0..answers
  BY DEF TypeOK
<1>2. CASE ~Intact(e, t, q) \/ run[e].cache[t][q] = Failure
  BY <1>1, <1>2 DEF Written
<1>3. CASE Intact(e, t, q) /\ run[e].cache[t][q] # Failure
  <2>1. Written(e, t, q) = {run[e].cache[t][q].version}
    BY <1>3 DEF Written
  <2>2. run[e].cache[t][q].version \in 1..answers
    BY <2>1 DEF Origins, Known
  <2>3. 1..answers \subseteq 0..answers
    BY <1>1
  <2>4. QED
    BY <2>1, <2>2, <2>3
<1>4. QED
  BY <1>2, <1>3

\* An execution goes on with what one that is not lost heard and wrote: itself or
\* its parent.
LEMMA Inherits ==
    ASSUME TypeOK, Lineage, Origins, NEW e \in Exec, NEW p \in Exec, Only(e),
           run[p].status # "lost", run'[e].cache = run[p].cache,
           heard' = [heard EXCEPT ![e] = heard[p]],
           touched' = [touched EXCEPT ![e] = touched[p]], UNCHANGED answers
    PROVE  Lineage' /\ Origins'
<1>1. \A f \in Exec : /\ heard'[f] = IF f = e THEN heard[p] ELSE heard[f]
                      /\ touched'[f] = IF f = e THEN touched[p] ELSE touched[f]
  BY DEF TypeOK
<1>2. \A f \in Exec : run'[f].cache = IF f = e THEN run[p].cache ELSE run[f].cache
  BY DEF Only
<1>3. Lineage'
  <2>1. ASSUME NEW f \in Exec, NEW t \in Tenant, NEW q \in Question
        PROVE  /\ run'[f].status # "lost" => Heard(f, t, q)' \subseteq Written(f, t, q)'
               /\ \E v \in 0..answers : Heard(f, t, q)' \subseteq {v}
    <3>1. CASE f = e
      <4>1. Heard(p, t, q) \subseteq Written(p, t, q)
        BY DEF Lineage
      <4>a. /\ heard'[f] = heard[p] /\ touched'[f] = touched[p]
            /\ run'[f].cache = run[p].cache
        BY <1>1, <1>2, <3>1
      <4>b. Written(f, t, q)' = Written(p, t, q)
        BY <4>a DEF Written, Intact
      <4>c. Heard(f, t, q)' = Heard(p, t, q)
        BY <4>a DEF Heard, Intact
      <4>2. Written(f, t, q)' = Written(p, t, q) /\ Heard(f, t, q)' = Heard(p, t, q)
        BY <4>b, <4>c
      <4>3. \E v \in 0..answers : Heard(p, t, q) \subseteq {v}
        BY DEF Lineage
      <4>4. QED
        BY <4>1, <4>2, <4>3
    <3>2. CASE f # e
      <4>a. /\ heard'[f] = heard[f] /\ touched'[f] = touched[f]
            /\ run'[f] = run[f]
        BY <1>1, <3>2 DEF Only
      <4>b. Written(f, t, q)' = Written(f, t, q)
        BY <4>a DEF Written, Intact
      <4>c. Heard(f, t, q)' = Heard(f, t, q)
        BY <4>a DEF Heard, Intact
      <4>1. /\ Written(f, t, q)' = Written(f, t, q) /\ run'[f] = run[f]
            /\ Heard(f, t, q)' = Heard(f, t, q)
        BY <4>a, <4>b, <4>c
      <4>2. QED
        BY <4>1 DEF Lineage
    <3>3. QED
      BY <3>1, <3>2
  <2>2. QED
    BY <2>1 DEF Lineage
<1>4. Origins'
  <2>1. ASSUME NEW f \in Exec
        PROVE  \E g \in Exec : \A t \in Tenant, q \in Question :
                   Known(f, t, q)' \subseteq Known(g, t, q)
    <3>1. PICK g \in Exec : /\ run'[f].cache = run[g].cache /\ heard'[f] = heard[g]
                            /\ touched'[f] = touched[g]
      BY <1>1, <1>2
    <3>2. \A t \in Tenant, q \in Question : Known(f, t, q)' = Known(g, t, q)
      BY <3>1 DEF Known, Written, Heard, Intact
    <3>3. QED
      BY <3>2
  <2>2. answers \in Nat /\ answers' \in Nat /\ answers <= answers'
    BY DEF TypeOK
  <2>3. QED
    BY <2>1, <2>2, OriginsLast
<1>5. QED
  BY <1>3, <1>4

LEMMA LineageNext == TypeOK /\ Waiting /\ Lineage /\ Origins /\ [Next]_vars => Lineage' /\ Origins'
<1> SUFFICES ASSUME TypeOK, Waiting, Lineage, Origins, [Next]_vars PROVE Lineage' /\ Origins'
  OBVIOUS
<1>a. answers \in Nat
  BY DEF TypeOK
\* The steps of a running execution that neither write nor hear.
<1>1. ASSUME NEW e \in Exec, Only(e), run[e].status = "running", run'[e].cache = run[e].cache,
             UNCHANGED <<heard, answers, touched>>
      PROVE  Lineage' /\ Origins'
  <2>1. heard' = [heard EXCEPT ![e] = heard[e]] /\ touched' = [touched EXCEPT ![e] = touched[e]]
    BY <1>1 DEF TypeOK
  <2>2. QED
    BY <1>1, <2>1, Inherits
<1>2. ASSUME NEW e \in Exec, NEW t \in Tenant, NEW n \in Limit, NEW parent \in Exec \cup {None},
             Start(e, t, n, parent)
      PROVE  Lineage' /\ Origins'
  <2>1. /\ Only(e) /\ run[e].status = "new" /\ UNCHANGED answers
        /\ run'[e].cache = IF parent = None THEN run[e].cache ELSE run[parent].cache
        /\ heard' = [heard EXCEPT ![e] = IF parent = None THEN @ ELSE heard[parent]]
        /\ touched' = [touched EXCEPT ![e] = IF parent = None THEN @ ELSE touched[parent]]
        /\ parent # None => run[parent].status = "ended"
    <3>1. /\ run[e].status = "new" /\ UNCHANGED answers
          /\ heard' = [heard EXCEPT ![e] = IF parent = None THEN @ ELSE heard[parent]]
          /\ touched' = [touched EXCEPT ![e] = IF parent = None THEN @ ELSE touched[parent]]
          /\ parent # None => run[parent].status = "ended"
      BY <1>2 DEF Start
    <3>2. /\ Only(e)
          /\ run'[e].cache = IF parent = None THEN run[e].cache ELSE run[parent].cache
      BY <1>2, StartEffect
    <3>3. QED
      BY <3>1, <3>2
  <2>2. PICK p \in Exec : p = IF parent = None THEN e ELSE parent
    OBVIOUS
  <2>3. /\ run[p].status # "lost" /\ run'[e].cache = run[p].cache
        /\ heard' = [heard EXCEPT ![e] = heard[p]]
        /\ touched' = [touched EXCEPT ![e] = touched[p]]
    BY <2>1, <2>2 DEF TypeOK
  <2>4. QED
    BY <2>1, <2>3, Inherits
<1>3. ASSUME NEW e \in Exec, Ends(e) PROVE Lineage' /\ Origins'
  BY <1>1, <1>3, EndsEffect DEF Same, Running
<1>4. ASSUME NEW e \in Exec, Cancel(e) PROVE Lineage' /\ Origins'
  <2>1. /\ Only(e) /\ run'[e].status = "lost" /\ run'[e].cache = EmptyCache
        /\ UNCHANGED <<answers, heard, touched>>
    BY <1>4, CancelEffect DEF Cancel
  <2>2. \A t \in Tenant, q \in Question : Written(e, t, q)' = {}
    BY <2>1 DEF Written, EmptyCache
  <2>3. \A f \in Exec, t \in Tenant, q \in Question :
            /\ f # e => Written(f, t, q)' = Written(f, t, q) /\ run'[f] = run[f]
            /\ Heard(f, t, q)' = Heard(f, t, q)
    BY <2>1 DEF Written, Heard, Intact, Only
  <2>4. Lineage'
    BY <2>1, <2>3 DEF Lineage
  <2>5. \A f \in Exec, t \in Tenant, q \in Question : Known(f, t, q)' \subseteq Known(f, t, q)
    BY <2>1, <2>2, <2>3 DEF Known
  <2>6. QED
    BY <1>a, <2>1, <2>4, <2>5, OriginsLast
<1>5. ASSUME NEW e \in Exec, Asks(e) PROVE Lineage' /\ Origins'
  BY <1>1, <1>5, AsksEffect DEF Same, Running
<1>6. ASSUME NEW e \in Exec, Answers(e) PROVE Lineage' /\ Origins'
  <2>1. PICK a \in Answer :
           /\ a.version = answers + 1 /\ run[e].asked \in Question /\ Only(e)
           /\ run'[e].status = run[e].status
           /\ run'[e].cache = Recorded(e, run[e].asked, a) /\ Running(e, "outside")
           /\ answers' = answers + 1 /\ UNCHANGED <<heard, touched>>
    BY <1>6, AnswersEffect DEF Same
  <2>2. PICK k \in Question : k = run[e].asked
    BY <2>1
  <2>3. PICK r \in Tenant : r = run[e].tenant
    BY ExecutionParts DEF TypeOK
  <2>4. /\ a.version = answers + 1 /\ Only(e) /\ run'[e].status = run[e].status
        /\ run'[e].cache = Recorded(e, k, a) /\ Running(e, "outside")
        /\ answers' = answers + 1 /\ UNCHANGED <<heard, touched>>
    BY <2>1, <2>2
  <2>5. run[e].cache[r][k] = Failure /\ run[e].status = "running"
    BY <2>4, <2>3, <2>2 DEF Waiting, Running, Directory
  <2>6. a # Failure
    BY <1>a, <2>4 DEF Failure
  <2>7. /\ run'[e].cache[r][k] = a
        /\ \A t \in Tenant, q \in Question : t # r \/ q # k =>
               run'[e].cache[t][q] = run[e].cache[t][q]
    BY <2>4, <2>3, RecordedType
  <2>8. Written(e, r, k) = {} /\ Written(e, r, k)' \subseteq {answers + 1}
    BY <2>4, <2>5, <2>6, <2>7 DEF Written
  <2>9. \A f \in Exec, t \in Tenant, q \in Question : f # e \/ t # r \/ q # k =>
            Written(f, t, q)' = Written(f, t, q)
    <3>1. \A f \in Exec, t \in Tenant, q \in Question : f # e \/ t # r \/ q # k =>
              run'[f].cache[t][q] = run[f].cache[t][q]
      BY <2>4, <2>7 DEF Only
    <3>2. QED
      BY <2>4, <3>1 DEF Written, Intact
  <2>a. \A f \in Exec, t \in Tenant, q \in Question : Heard(f, t, q)' = Heard(f, t, q)
    BY <2>4 DEF Heard, Intact
  <2>10. Heard(e, r, k) = {}
    BY <2>4, <2>3, <2>5, <2>8 DEF Lineage
  <2>11. Lineage'
    <3>1. ASSUME NEW f \in Exec, NEW t \in Tenant, NEW q \in Question
          PROVE  /\ run'[f].status # "lost" => Heard(f, t, q) \subseteq Written(f, t, q)'
                 /\ \E v \in 0..answers' : Heard(f, t, q) \subseteq {v}
      <4>1. PICK v \in 0..answers : Heard(f, t, q) \subseteq {v}
        BY DEF Lineage
      <4>2. v \in 0..answers'
        BY <1>a, <2>4
      <4>3. CASE f = e /\ t = r /\ q = k
        BY <2>10, <4>1, <4>2, <4>3
      <4>4. CASE f # e \/ t # r \/ q # k
        <5>1. run'[f].status = run[f].status
          BY <2>4 DEF Only
        <5>2. run[f].status # "lost" => Heard(f, t, q) \subseteq Written(f, t, q)
          BY DEF Lineage
        <5>3. QED
          BY <2>9, <4>1, <4>2, <4>4, <5>1, <5>2
      <4>5. QED
        BY <4>3, <4>4
    <3>2. QED
      BY <2>4, <2>a, <3>1 DEF Lineage
  <2>12. Origins'
    <3>1. \A f \in Exec, t \in Tenant, q \in Question : Known(f, t, q) \subseteq 1..answers
      BY DEF Origins
    <3>2. Known(e, r, k)' \subseteq {answers + 1}
      BY <2>8, <2>10, <2>a DEF Known
    <3>3. \A f \in Exec, t \in Tenant, q \in Question : f # e \/ t # r \/ q # k =>
              Known(f, t, q)' = Known(f, t, q)
      BY <2>9, <2>a DEF Known
    <3>4. answers + 1 \in 1..answers' /\ 1..answers \subseteq 1..answers' /\ answers + 1 \notin 1..answers
      BY <1>a, <2>4
    <3>5. ASSUME NEW f \in Exec, NEW t \in Tenant, NEW q \in Question
          PROVE  Known(f, t, q)' \subseteq 1..answers'
      <4>1. CASE f = e /\ t = r /\ q = k
        BY <3>2, <3>4, <4>1
      <4>2. CASE f # e \/ t # r \/ q # k
        <5>1. Known(f, t, q)' = Known(f, t, q)
          BY <3>3, <4>2
        <5>2. Known(f, t, q) \subseteq 1..answers'
          BY <3>1, <3>4
        <5>3. QED
          BY <5>1, <5>2
      <4>3. QED
        BY <4>1, <4>2
    <3>6. ASSUME NEW f \in Exec, NEW g \in Exec, NEW t \in Tenant, NEW u \in Tenant,
                 NEW q \in Question, t # u
          PROVE  Known(f, t, q)' \cap Known(g, u, q)' = {}
      <4>1. Known(f, t, q) \cap Known(g, u, q) = {}
        BY <3>6 DEF Origins
      <4>2. answers + 1 \notin Known(f, t, q) /\ answers + 1 \notin Known(g, u, q)
        BY <3>1, <3>4
      <4>3. CASE t = r /\ f = e /\ q = k
        <5>1. Known(g, u, q)' = Known(g, u, q)
          BY <3>3, <3>6, <4>3
        <5>2. QED
          BY <3>2, <4>2, <4>3, <5>1
      <4>4. CASE u = r /\ g = e /\ q = k
        <5>1. Known(f, t, q)' = Known(f, t, q)
          BY <3>3, <3>6, <4>4
        <5>2. QED
          BY <3>2, <4>2, <4>4, <5>1
      <4>5. CASE ~(t = r /\ f = e /\ q = k) /\ ~(u = r /\ g = e /\ q = k)
        BY <3>3, <4>1, <4>5
      <4>6. QED
        BY <4>3, <4>4, <4>5
    <3>7. QED
      BY <3>5, <3>6 DEF Origins
  <2>13. QED
    BY <2>11, <2>12
<1>7. ASSUME NEW e \in Exec, OutsideFails(e) PROVE Lineage' /\ Origins'
  BY <1>1, <1>7, FailEffect DEF Same, Running, OutsideFails
<1>8. ASSUME NEW e \in Exec, Returns(e) PROVE Lineage' /\ Origins'
  <2>1. /\ Only(e) /\ run'[e].status = run[e].status /\ run'[e].cache = run[e].cache
        /\ Running(e, "answered") /\ run[e].asked \in Question /\ Hears(e) /\ UNCHANGED <<answers, touched>>
    BY <1>8, ReturnsEffect DEF Same
  <2>2. PICK r \in Tenant, k \in Question, a \in Answer :
            r = run[e].tenant /\ k = run[e].asked /\ a = run[e].answer
    BY <2>1, ExecutionParts DEF TypeOK
  <2>3. CASE a = Failure
    <3>a. heard' = [heard EXCEPT ![e][r][k] = heard[e][r][k]]
      BY <2>1, <2>2, <2>3 DEF Hears
    <3>b. heard \in [Exec -> [Tenant -> [Question -> SUBSET Nat]]]
      BY DEF TypeOK
    <3>c. heard[e] \in [Tenant -> [Question -> SUBSET Nat]]
      BY <3>b
    <3>d. heard[e][r] \in [Question -> SUBSET Nat]
      BY <3>c
    <3>e. [heard[e][r] EXCEPT ![k] = heard[e][r][k]] = heard[e][r]
      BY <3>d
    <3>f. [heard[e] EXCEPT ![r] = heard[e][r]] = heard[e]
      BY <3>c
    <3>g. [heard EXCEPT ![e] = heard[e]] = heard
      BY <3>b
    <3>1. heard' = heard
      BY <3>a, <3>e, <3>f, <3>g
    <3>2. QED
      BY <1>1, <2>1, <3>1 DEF Running
  <2>4. \A f \in Exec, t \in Tenant, q \in Question :
            Written(f, t, q)' = Written(f, t, q) /\ run'[f].status = run[f].status
    BY <2>1 DEF Written, Intact, Only
  <2>5. ASSUME a # Failure
        PROVE  \A f \in Exec, t \in Tenant, q \in Question : f # e \/ t # r \/ q # k =>
                   heard'[f][t][q] = heard[f][t][q]
    <3>1. heard' = [heard EXCEPT ![e][r][k] = @ \cup {a.version}]
      BY <2>1, <2>2, <2>5 DEF Hears
    <3>2. QED
      BY <3>1 DEF TypeOK
  \* A rewritten record answers: what it says does not count.
  <2>6. CASE a # Failure /\ ~Intact(e, r, k)
    <3>1. \A f \in Exec, t \in Tenant, q \in Question : Heard(f, t, q)' = Heard(f, t, q)
      BY <2>1, <2>5, <2>6 DEF Heard, Intact
    <3>2. Lineage'
      BY <2>1, <2>4, <3>1 DEF Lineage
    <3>3. \A f \in Exec, t \in Tenant, q \in Question : Known(f, t, q)' \subseteq Known(f, t, q)
      BY <2>4, <3>1 DEF Known
    <3>4. QED
      BY <1>a, <2>1, <3>2, <3>3, OriginsLast
  <2>7. CASE a # Failure /\ Intact(e, r, k)
    <3>1. run[e].cache[r][k] = a /\ run[e].status = "running"
      BY <2>1, <2>2, <2>7 DEF Waiting, Running, Directory
    <3>2. heard' = [heard EXCEPT ![e][r][k] = @ \cup {a.version}]
      BY <2>1, <2>2, <2>7 DEF Hears
    <3>3. Written(e, r, k) = {a.version}
      BY <2>7, <3>1 DEF Written
    <3>4. heard[e][r][k] \subseteq {a.version}
      <4>1. Heard(e, r, k) \subseteq Written(e, r, k)
        BY <3>1 DEF Lineage
      <4>2. QED
        BY <2>7, <3>3, <4>1 DEF Heard
    <3>5. \A f \in Exec, t \in Tenant, q \in Question :
              Heard(f, t, q)' = IF f = e /\ t = r /\ q = k THEN {a.version} ELSE Heard(f, t, q)
      <4>1. heard'[e][r][k] = {a.version}
        BY <3>2, <3>4 DEF TypeOK
      <4>2. QED
        BY <2>1, <2>5, <2>7, <4>1 DEF Heard, Intact
    <3>6. Lineage'
      <4>1. \E v \in 0..answers : {a.version} \subseteq {v}
        BY <2>1, <2>2, <3>3, OneWritten
      <4>2. QED
        BY <2>1, <2>4, <3>3, <3>5, <4>1 DEF Lineage
    <3>7. \A f \in Exec, t \in Tenant, q \in Question : Known(f, t, q)' \subseteq Known(f, t, q)
      BY <2>4, <3>3, <3>5 DEF Known
    <3>8. QED
      BY <1>a, <2>1, <3>6, <3>7, OriginsLast
  <2>8. QED
    BY <2>3, <2>6, <2>7
<1>9. ASSUME NEW e \in Exec, Burns(e) PROVE Lineage' /\ Origins'
  BY <1>1, <1>9, BurnsEffect DEF Same, Free, Running
<1>10. CASE Aside \/ UNCHANGED vars
  <2>1. UNCHANGED <<run, heard, answers, touched>>
    BY <1>10 DEF Aside, Precompile, InferBegins, InferEnds, InferDropped, vars
  <2>2. \A f \in Exec, t \in Tenant, q \in Question :
            /\ Written(f, t, q)' = Written(f, t, q) /\ Known(f, t, q)' = Known(f, t, q)
            /\ Heard(f, t, q)' = Heard(f, t, q) /\ run'[f] = run[f]
    BY <2>1 DEF Known, Written, Heard, Intact
  <2>3. Lineage'
    BY <2>1, <2>2 DEF Lineage
  <2>4. QED
    BY <2>1, <2>2, <2>3 DEF Origins
\* A guest that rewrites a record takes it out of what was heard and written.
<1>11. ASSUME NEW e \in Exec, NEW t \in Tenant, NEW q \in Question, RewriteRecord(e, t, q)
       PROVE  Lineage' /\ Origins'
  <2>1. /\ Only(e) /\ run'[e].status = run[e].status /\ UNCHANGED <<heard, answers>>
        /\ \A u \in Tenant, p \in Question : u # t \/ p # q =>
               run'[e].cache[u][p] = run[e].cache[u][p]
        /\ touched' = [touched EXCEPT ![e] = @ \cup {<<t, q>>}]
    BY <1>11, RewriteEffect DEF Same
  <2>2. \A f \in Exec, u \in Tenant, p \in Question :
            Intact(f, u, p)' <=> Intact(f, u, p) /\ ~(f = e /\ u = t /\ p = q)
    BY <2>1 DEF Intact, TypeOK
  <2>3. ~Intact(e, t, q)'
    BY <2>2
  <2>4. Heard(e, t, q)' = {} /\ Written(e, t, q)' = {}
    BY <2>3 DEF Heard, Written
  <2>5. \A f \in Exec, u \in Tenant, p \in Question : f # e \/ u # t \/ p # q =>
            Heard(f, u, p)' = Heard(f, u, p) /\ Written(f, u, p)' = Written(f, u, p)
    BY <2>1, <2>2 DEF Heard, Written, Only
  <2>6. Lineage'
    <3>1. \A f \in Exec : run'[f].status = run[f].status
      BY <2>1 DEF Only
    <3>2. QED
      BY <2>1, <2>4, <2>5, <3>1 DEF Lineage
  <2>7. \A f \in Exec, u \in Tenant, p \in Question : Known(f, u, p)' \subseteq Known(f, u, p)
    BY <2>4, <2>5 DEF Known
  <2>8. QED
    BY <1>a, <2>1, <2>6, <2>7, OriginsLast
<1>12. QED
  BY <1>2, <1>3, <1>4, <1>5, <1>6, <1>7, <1>8, <1>9, <1>10, <1>11, StepKinds

(***************************************************************************)
(* The theorems.                                                           *)
(***************************************************************************)
IInv == TypeOK /\ Waiting /\ Lineage /\ Origins /\ Quotas /\ Bills /\ Histories

LEMMA InvInit == Init => IInv
<1> SUFFICES ASSUME Init PROVE IInv
  OBVIOUS
<1>1. TypeOK
  BY TypeInit
<1>2. PICK t \in Tenant, n \in Limit :
          run = [e \in Exec |->
                   [status |-> "new", tenant |-> t, limit |-> n, fuel |-> 0, pc |-> "guest",
                    asked |-> None, answer |-> Failure, cache |-> EmptyCache,
                    image |-> [s \in Session |-> NewHistory]]]
  BY DEF Init
<1>3. \A e \in Exec : /\ run[e].status = "new" /\ run[e].pc = "guest" /\ run[e].fuel = 0
                      /\ run[e].cache = EmptyCache
                      /\ run[e].image = [s \in Session |-> NewHistory]
  BY <1>2
<1>4. Waiting
  BY <1>3 DEF Waiting
<1>5. \A e \in Exec, u \in Tenant, q \in Question : Known(e, u, q) = {} /\ Heard(e, u, q) = {}
  BY <1>3 DEF Known, Written, Heard, EmptyCache, Init
<1>6. Lineage
  <2>1. 0 \in 0..answers
    BY DEF Init
  <2>2. QED
    BY <1>5, <2>1 DEF Lineage
<1>7. Origins
  BY <1>5 DEF Origins
<1>8. Quotas
  <2>1. \A u \in Tenant : Leaving(u) = {}
    BY <1>3 DEF Leaving
  <2>2. IsFiniteSet({}) /\ Cardinality({}) = 0
    BY FS_EmptySet
  <2>3. \A u \in Tenant : usage[u] = 0 /\ sent[u] = 0
    BY DEF Init
  <2>4. QED
    BY <2>1, <2>2, <2>3 DEF Quotas
<1>9. Bills
  BY <1>3 DEF Bills, Init
<1>10. Histories
  <2>1. InOrder(NewHistory, exchanges)
    BY DEF InOrder, NewHistory
  <2>2. QED
    BY <1>3, <2>1 DEF Histories, Init
<1>11. QED
  BY <1>1, <1>4, <1>6, <1>7, <1>8, <1>9, <1>10 DEF IInv

LEMMA InvNext == IInv /\ [Next]_vars => IInv'
BY TypeNext, WaitingNext, LineageNext, QuotasNext, BillsNext, HistoriesNext DEF IInv

LEMMA InvAlways == Spec => []IInv
BY InvInit, InvNext, PTL DEF Spec

\* Every state the services of the node reach has the declared types.
THEOREM TypeCorrect == Spec => []TypeOK
BY InvAlways, PTL DEF IInv

\* However executions are ended, dropped, resumed from images and given to other
\* tenants, and whatever their guests do to other records, a question has one answer in
\* a lineage: what was heard is what the tenant's directory holds, and the node writes
\* there once.
THEOREM ReplaysAlways == Spec => []Replays
<1>1. IInv => Replays
  <2> SUFFICES ASSUME IInv, NEW e \in Exec, NEW t \in Tenant, NEW q \in Question, Intact(e, t, q)
               PROVE  Cardinality(heard[e][t][q]) <= 1
    BY DEF Replays
  <2>1. PICK v \in 0..answers : heard[e][t][q] \subseteq {v}
    BY DEF IInv, Lineage, Heard
  <2>2. IsFiniteSet({v}) /\ Cardinality({v}) = 1
    BY FS_Singleton
  <2>3. QED
    BY <2>1, <2>2, FS_Subset
<1>2. QED
  BY <1>1, InvAlways, PTL

\* A host function answers a tenant with what was recorded for another one only from a
\* record that a guest of the lineage rewrote: a version is known to the directories of
\* one tenant, in whatever images they travel and whatever guests do elsewhere in them.
THEOREM TenantsApartAlways == Spec => []TenantsApart
<1>1. IInv => TenantsApart
  BY DEF IInv, Origins, Known, Heard, TenantsApart
<1>2. QED
  BY <1>1, InvAlways, PTL

\* Requests on their way out are recorded already, and no record exceeds the limit
\* it was tested against, however many executions of a tenant test and record.
THEOREM EgressStaysWithinQuota == Spec => []EgressWithinQuota
<1>1. IInv => EgressWithinQuota
  <2> SUFFICES ASSUME IInv, NEW t \in Tenant
               PROVE  /\ sent[t] <= usage[t]
                      /\ usage[t] > 0 => \E e \in Exec : /\ run[e].status # "new"
                                                         /\ run[e].tenant = t
                                                         /\ usage[t] <= run[e].limit
    BY DEF EgressWithinQuota
  <2>1. sent[t] \in Nat /\ usage[t] \in Nat
    BY DEF IInv, TypeOK
  <2>2. IsFiniteSet(Leaving(t)) /\ sent[t] + Cardinality(Leaving(t)) <= usage[t]
    BY DEF IInv, Quotas
  <2>3. Cardinality(Leaving(t)) \in Nat
    BY <2>2, FS_CardinalityType
  <2>4. QED
    BY <2>1, <2>2, <2>3 DEF IInv, Quotas
<1>2. QED
  BY <1>1, InvAlways, PTL

\* While fuel is left, what was rendered is paid for, at any prices: each charge
\* either takes its full price or all that is left.
THEOREM ServicesArePaidAlways == Spec => []ServicesArePaid
<1>1. IInv => ServicesArePaid
  BY DEF IInv, Bills, ServicesArePaid
<1>2. QED
  BY <1>1, InvAlways, PTL

\* Lost updates and restored images leave every session a list of exchanges in the
\* order they began: copies and images are such lists too, and nothing in them is
\* newer than the last exchange.
THEOREM HistoriesStayInOrder == Spec => []HistoryInOrder
<1>1. IInv => HistoryInOrder
  BY DEF IInv, Histories, InOrder, HistoryInOrder
<1>2. QED
  BY <1>1, InvAlways, PTL
=============================================================================
