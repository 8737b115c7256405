--------------------------- MODULE ContextWindow ---------------------------
(***************************************************************************)
(* How the worker fits the messages of a conversation to the window of the *)
(* model: fitMessagesToContextWindow, one message per step.                *)
(* A message is its role and its estimated tokens, of which Overhead are   *)
(* for its structure.  Every character adds one token or none, so a        *)
(* message cut to a budget it exceeds takes exactly that budget.           *)
(***************************************************************************)
EXTENDS Integers, Sequences

CONSTANTS
    MaxMessages,    \* bound: messages of the conversation
    MaxTokens,      \* bound: tokens of a message above Overhead
    MaxWindow       \* bound: contextWindow

Overhead == 4

ASSUME WindowAssumption == MaxMessages \in Nat /\ MaxTokens \in Nat /\ MaxWindow \in Nat

Sizes == Overhead .. Overhead + MaxTokens

VARIABLES
    systems, regulars,   \* the tokens of the messages by role, oldest first
    budget,              \* inputBudget
    fitting,             \* the loop under way
    systemsKept, regularsKept,   \* messages kept whole
    cut,                 \* tokens of the message cut to size, 0 if none was
    cutRole,
    remaining

windowVars == <<systems, regulars, budget, fitting, systemsKept, regularsKept, cut, cutRole,
                remaining>>

\* createConfiguredModelProfile and the first line of the fitting.
Greater(a, b) == IF a >= b THEN a ELSE b
Lesser(a, b) == IF a <= b THEN a ELSE b
InputBudget(window, output) == Greater(1, window - Lesser(output, window - 1))

SizesUpTo(n) == UNION {[1 .. m -> Sizes] : m \in 0 .. n}

WindowInit ==
    /\ systems \in SizesUpTo(MaxMessages) /\ regulars \in SizesUpTo(MaxMessages)
    /\ Len(systems) + Len(regulars) <= MaxMessages
    /\ \E window \in 2 .. MaxWindow, output \in 1 .. MaxWindow : budget = InputBudget(window, output)
    /\ fitting = "systems"
    /\ systemsKept = 0 /\ regularsKept = 0
    /\ cut = 0 /\ cutRole = "none"
    /\ remaining = budget

Inputs == UNCHANGED <<systems, regulars, budget>>

\* A message that does not fit goes in with what is left over and more.
CutWhole(role, tokens) ==
    /\ cut' = tokens /\ cutRole' = role /\ remaining' = remaining - tokens

\* truncateToTokenBudget: nothing is left of a message without room for text.
Cut(role, tokens) ==
    IF remaining > Overhead
    THEN cut' = remaining /\ cutRole' = role /\ remaining' = 0
    ELSE UNCHANGED <<cut, cutRole, remaining>>

\* System messages from the oldest; the first that does not fit is cut and
\* ends the loop.
FitSystem ==
    /\ fitting = "systems"
    /\ IF systemsKept = Len(systems)
       THEN fitting' = "regulars" /\ UNCHANGED <<systemsKept, cut, cutRole, remaining>>
       ELSE LET tokens == systems[systemsKept + 1]
            IN  \/ /\ tokens <= remaining
                   /\ systemsKept' = systemsKept + 1 /\ remaining' = remaining - tokens
                   /\ UNCHANGED <<fitting, cut, cutRole>>
                \/ /\ tokens > remaining
                   /\ Cut("system", tokens) /\ fitting' = "regulars"
                   /\ UNCHANGED systemsKept
    /\ Inputs /\ UNCHANGED regularsKept

\* The first message that does not fit ends the loop.
Stops(tokens) == tokens > remaining

\* The other messages from the newest; only the newest is cut.
FitRegular ==
    /\ fitting = "regulars"
    /\ IF regularsKept = Len(regulars)
       THEN fitting' = "done" /\ UNCHANGED <<regularsKept, cut, cutRole, remaining>>
       ELSE LET tokens == regulars[Len(regulars) - regularsKept]
            IN  \/ /\ ~Stops(tokens)
                   /\ regularsKept' = regularsKept + 1 /\ remaining' = remaining - tokens
                   /\ UNCHANGED <<fitting, cut, cutRole>>
                \/ /\ Stops(tokens)
                   /\ IF regularsKept = 0 THEN Cut("regular", tokens)
                      ELSE UNCHANGED <<cut, cutRole, remaining>>
                   /\ fitting' = "done"
                   /\ UNCHANGED regularsKept
    /\ Inputs /\ UNCHANGED systemsKept

WindowNext == FitSystem \/ FitRegular

WindowSpec == WindowInit /\ [][WindowNext]_windowVars

----------------------------------------------------------------------------
(* Properties                                                              *)

\* Everything keeps its type.
WindowTypeOK ==
    /\ systems \in Seq(Sizes) /\ regulars \in Seq(Sizes) /\ budget \in Nat
    /\ fitting \in {"systems", "regulars", "done"}
    /\ systemsKept \in 0 .. Len(systems) /\ regularsKept \in 0 .. Len(regulars)
    /\ cut \in Nat /\ cutRole \in {"none", "system", "regular"}
    /\ remaining \in Nat

\* The tokens of the first n system messages and of the last n others.
SumOfFirst(s, n) == LET f[i \in 0 .. n] == IF i = 0 THEN 0 ELSE f[i - 1] + s[i] IN f[n]
NewestFirst(s) == [i \in 1 .. Len(s) |-> s[Len(s) - i + 1]]
FirstTokens(n) == SumOfFirst(systems, n)
LastTokens(n) == SumOfFirst(NewestFirst(regulars), n)
Total == FirstTokens(systemsKept) + LastTokens(regularsKept) + cut

\* The request never exceeds the window, and no message is left out that
\* would have fitted: the system messages are the longest run from the oldest,
\* the others the longest run from the newest in what those leave, and the
\* newest one is there, cut if need be, whenever there is room for any of it.
WindowIsBestFit ==
    fitting = "done" =>
        LET left == budget - FirstTokens(systemsKept) - (IF cutRole = "system" THEN cut ELSE 0)
        IN  /\ Total <= budget
            /\ systemsKept < Len(systems) => FirstTokens(systemsKept + 1) > budget
            /\ regularsKept < Len(regulars) => LastTokens(regularsKept + 1) > left
            /\ (regulars # <<>> /\ left > Overhead) =>
                  regularsKept > 0 \/ cutRole = "regular"
=============================================================================
