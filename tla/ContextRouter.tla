---------------------------- MODULE ContextRouter ----------------------------
(***************************************************************************)
(* ContextRouter::optimize: a session that is too long for the window has  *)
(* its large tool results cut and then loses blocks, one at a time, by a   *)
(* strategy.  A block is its type and the length of its text; ids stand    *)
(* for the texts themselves.                                               *)
(***************************************************************************)
EXTENDS Integers, Sequences, SequencesExt, FiniteSets

CONSTANTS
    MaxBlocks,    \* bound: blocks of a session
    Length,       \* bound: lengths of texts
    Window,       \* values of max_tokens
    Strategy      \* strategies, of "Fifo", "LargeBlockFirst" and "Hybrid"

ASSUME ContextAssumption ==
    /\ MaxBlocks \in Nat /\ Length \subseteq Nat /\ Window \subseteq Nat
    /\ Strategy \subseteq {"Fifo", "LargeBlockFirst", "Hybrid"}

VARIABLES
    window, strategy,   \* max_tokens and strategy of the router
    session,            \* the blocks of the session
    given,              \* those it was given with (not in the code)
    report              \* how far optimize is, or what it returns

contextVars == <<window, strategy, session, given, report>>

\* What a block of a type is created with: importance times 10.
Importance == [System |-> 10, User |-> 8, Assistant |-> 5, ToolResult |-> 2]
Persistent(b) == b.type = "System"

Tokens(b) == IF b.len = 0 THEN 1 ELSE (b.len + 3) \div 4

\* estimate_tokens: the tokens of all blocks (no two are the same) and 15%, rounded up.
TokensOf(blocks) == Cardinality(UNION {{b} \X (1..Tokens(b)) : b \in blocks})
Estimate(blocks) == (115 * TokensOf(blocks) + 99) \div 100

Fits(blocks) == Estimate(blocks) <= window

ContextInit ==
    /\ window \in Window /\ strategy \in Strategy
    /\ \E n \in 0..MaxBlocks : \E f \in [1..n -> (DOMAIN Importance) \X Length] :
          session = [i \in 1..n |-> [id |-> i, type |-> f[i][1], len |-> f[i][2]]]
    /\ given = session
    /\ report = "called"

Notice == 33        \* characters of the notice that a text was cut

\* A tool result of more than half the window is cut to that half, if the notice fits.
Cut(b) ==
    LET half == window \div 2
        target == IF half * 4 < b.len THEN half * 4 ELSE b.len IN
    IF b.type = "ToolResult" /\ Tokens(b) > half /\ target > Notice
    THEN [b EXCEPT !.len = target] ELSE b

\* optimize measures the session, and cuts when it is too long.
Measured ==
    /\ report = "called"
    /\ \/ Fits(ToSet(session)) /\ report' = "no change" /\ UNCHANGED session
       \/ ~Fits(ToSet(session)) /\ report' = "cut" /\ session' = [i \in DOMAIN session |-> Cut(session[i])]
    /\ UNCHANGED <<window, strategy, given>>

Losable == {i \in DOMAIN session : ~Persistent(session[i])}
Score(i) == Tokens(session[i]) * (10 - Importance[session[i].type])

\* Mutant: the smallest block goes first.
CandidatesSmall ==
    CASE strategy = "Fifo" -> {i \in Losable : \A j \in Losable : i <= j}
      [] strategy = "LargeBlockFirst" ->
            {i \in Losable : \A j \in Losable : Tokens(session[j]) >= Tokens(session[i])}
      [] strategy = "Hybrid" -> {i \in Losable : \A j \in Losable : Score(j) <= Score(i)}
\* find_eviction_candidate.  The last of equals is the largest; scores are floats that
\* may be rounded apart or together, so that either of equals may win.
Candidates ==
    CASE strategy = "Fifo" -> {i \in Losable : \A j \in Losable : i <= j}
      [] strategy = "LargeBlockFirst" ->
            {i \in Losable : \A j \in Losable :
                \/ Tokens(session[j]) < Tokens(session[i])
                \/ Tokens(session[j]) = Tokens(session[i]) /\ j <= i}
      [] strategy = "Hybrid" -> {i \in Losable : \A j \in Losable : Score(j) <= Score(i)}

\* The loop: while the session is too long a block goes, or there is none to go.
Evict ==
    /\ report = "cut" /\ ~Fits(ToSet(session))
    /\ \E i \in Candidates : session' = RemoveAt(session, i)
    /\ UNCHANGED <<window, strategy, given, report>>

TooLarge ==
    /\ report = "cut" /\ ~Fits(ToSet(session)) /\ Losable = {}
    /\ report' = "too large"
    /\ UNCHANGED <<window, strategy, given, session>>

Pruned ==
    /\ report = "cut" /\ Fits(ToSet(session))
    /\ report' = "pruned"
    /\ UNCHANGED <<window, strategy, given, session>>

ContextNext == Measured \/ Evict \/ TooLarge \/ Pruned

ContextSpec == ContextInit /\ [][ContextNext]_contextVars

-----------------------------------------------------------------------------
(* Properties *)

ContextTypeOK ==
    /\ window \in Window /\ strategy \in Strategy
    /\ Len(session) <= Len(given)
    /\ \A i \in DOMAIN session : session[i].type = given[session[i].id].type
    /\ report \in {"called", "no change", "cut", "pruned", "too large"}

Kept == {session[i].id : i \in DOMAIN session}
LosableIds == {i \in DOMAIN given : ~Persistent(given[i])}

\* The blocks of the session without some, large tool results cut.
Without(ids) == {Cut(given[i]) : i \in DOMAIN given \ ids}

\* What optimize returns, said without its loop: nothing is lost when the session fits;
\* otherwise what stays is the session, cut, in its order without some blocks that are not
\* system prompts; it fits unless there is nothing else left; first in, first out loses no
\* more than the shortest prefix that will do, and largest first as few blocks as possible.
PrunedAsSpecified ==
    LET lost == DOMAIN given \ Kept IN
    /\ report = "no change" => session = given /\ Fits(ToSet(given))
    /\ report \in {"pruned", "too large"} =>
          /\ ~Fits(ToSet(given)) /\ lost \subseteq LosableIds
          /\ ToSet(session) = Without(lost)
          /\ \A i, j \in DOMAIN session : i < j => session[i].id < session[j].id
          /\ IF report = "pruned" THEN Fits(ToSet(session))
             ELSE lost = LosableIds /\ ~Fits(ToSet(session))
          /\ strategy = "Fifo" => \A i \in lost :
                ~Fits(Without({j \in LosableIds : j < i}))
          /\ strategy = "LargeBlockFirst" => \A ids \in SUBSET LosableIds :
                Cardinality(ids) < Cardinality(lost) => ~Fits(Without(ids))
=============================================================================
