---------------------------- MODULE ContextBudget ----------------------------
(***************************************************************************)
(* The input budget of the model's requests: every round of a reply sends  *)
(* the whole conversation, and what does not fit is given up on a copy of  *)
(* it, memories first, then what fit_request takes for the oldest history. *)
(* A message is its kind and its estimated cost.                           *)
(***************************************************************************)
EXTENDS Integers, Sequences, FiniteSets

CONSTANTS
    Limits,         \* the budgets of NEWTALK_CONTEXT_INPUT_TOKENS that are tried
    Overhead,       \* what the request costs besides its messages
    Costs,          \* what a message may cost
    ShortCost,      \* the cost of a truncated memory message
    MaxHistory,     \* bound: messages of earlier turns
    MaxRounds       \* bound: tool calls of a turn

ASSUME BudgetAssumption ==
    /\ Limits \subseteq Nat \ {0} /\ Costs \subseteq Nat \ {0} /\ ShortCost \in Nat \ {0}
    /\ Overhead \in Nat /\ MaxHistory \in Nat /\ MaxRounds \in Nat

VARIABLES
    limit,      \* input_token_budget
    asking,     \* what the conversation is made of next
    context,    \* the conversation of the turn, untrimmed
    fitted      \* of the last request: costs, total, what was truncated and removed

budgetVars == <<limit, asking, context, fitted>>

NotFitted == [costs |-> <<>>, total |-> 0, truncated |-> {}, removed |-> {}]

BudgetInit ==
    /\ limit \in Limits /\ asking = "system" /\ context = <<>> /\ fitted = NotFitted

Says(kind) == \E c \in Costs : context' = Append(context, [kind |-> kind, cost |-> c])

(***************************************************************************)
(* The conversation (start_turn, messages_for, stream_reply): the system   *)
(* prompt, the state of the media, the window of the dialogue, in which an *)
(* interrupted turn has no answer, memories searched beforehand, the input *)
(***************************************************************************)
AddsSystem ==
    /\ asking = "system" /\ asking' = "media"
    /\ Says("system") \/ UNCHANGED context
    /\ UNCHANGED <<limit, fitted>>

AddsMedia ==
    /\ asking = "media" /\ asking' = "history"
    /\ Says("media") \/ UNCHANGED context
    /\ UNCHANGED <<limit, fitted>>

OfTurns == {i \in DOMAIN context : context[i].kind \in {"user", "assistant"}}

AddsTurn ==
    /\ asking = "history" /\ Cardinality(OfTurns) < MaxHistory
    /\ \/ Says("user")
       \/ context # <<>> /\ context[Len(context)].kind = "user" /\ Says("assistant")
    /\ UNCHANGED <<limit, asking, fitted>>

AddsMemories ==
    /\ asking = "history" /\ asking' = "input"
    /\ Says("memory") \/ UNCHANGED context
    /\ UNCHANGED <<limit, fitted>>

AddsInput ==
    /\ asking = "input" /\ asking' = "request"
    /\ Says("user")
    /\ UNCHANGED <<limit, fitted>>

(***************************************************************************)
(* fit_request.                                                            *)
(***************************************************************************)
Kind(kinds) == {i \in DOMAIN context : context[i].kind \in kinds}

\* the last message of the role user; memories and the media have that role too
Input == CHOOSE i \in Kind({"user", "media", "memory"}) : \A j \in Kind({"user", "media", "memory"}) : j <= i

\* what the messages of S cost
Sum(costs, S) ==
    LET upTo[n \in 0 .. Len(costs)] ==
            IF n = 0 THEN 0 ELSE upTo[n - 1] + (IF n \in S THEN costs[n] ELSE 0)
    IN  upTo[Len(costs)]

\* a memory message gives way to a note that it was left out, if that is shorter
Truncate(r, i) ==
    IF r.total <= limit \/ ShortCost >= r.costs[i] THEN r
    ELSE [r EXCEPT !.total = @ + ShortCost - r.costs[i], !.costs[i] = ShortCost, !.truncated = @ \cup {i}]

\* what fit_request takes for history: the state of the media too, which has the role user
Removable == {i \in 1 .. Input - 1 : context[i].kind \notin {"system", "memory"}}

\* mutant: every message for itself
Heads_all == Removable

\* a group begins with a message of the user
Heads == {i \in Removable : context[i].kind # "assistant" \/ \A j \in Removable : i <= j}

Group(h) == {i \in Removable : h <= i /\ \A g \in Heads : g <= h \/ i < g}

\* mutant: the group goes while the request just fits
Removal_early(r, h) ==
    IF r.total < limit THEN r
    ELSE [r EXCEPT !.total = @ - Sum(r.costs, Group(h)), !.removed = @ \cup Group(h)]

Removal(r, h) ==
    IF r.total <= limit THEN r
    ELSE [r EXCEPT !.total = @ - Sum(r.costs, Group(h)), !.removed = @ \cup Group(h)]

\* the results of this turn's searches
SearchResults == {i \in Kind({"recall"}) : i > Input}

\* one of the loops of fit_request, over the messages of S from the first on
Pass(Step(_, _), start, S) ==
    LET after[n \in 0 .. Len(context)] ==
            IF n = 0 THEN start ELSE IF n \in S THEN Step(after[n - 1], n) ELSE after[n - 1]
    IN  after[Len(context)]

Fitted ==
    LET costs == [i \in DOMAIN context |-> context[i].cost]
        whole == [costs |-> costs, total |-> Overhead + Sum(costs, DOMAIN context), truncated |-> {}, removed |-> {}]
    IN  Pass(Removal, Pass(Truncate, Pass(Truncate, whole, Kind({"memory"})), SearchResults), Heads)

\* the request is sent, or refused with context_budget_exceeded
Request ==
    /\ asking = "request" /\ fitted' = Fitted
    /\ asking' = IF fitted'.total > limit THEN "refused" ELSE "sent"
    /\ UNCHANGED <<limit, context>>

\* the model answers with a tool call: the next round sends the conversation with the call
\* and its result
ToolRound ==
    /\ asking = "sent" /\ Cardinality(Kind({"call"})) < MaxRounds
    /\ \E c, d \in Costs, kind \in {"recall", "tool"} :
          context' = context \o <<[kind |-> "call", cost |-> c], [kind |-> kind, cost |-> d]>>
    /\ asking' = "request"
    /\ UNCHANGED <<limit, fitted>>

BudgetNext ==
    AddsSystem \/ AddsMedia \/ AddsTurn \/ AddsMemories \/ AddsInput \/ Request \/ ToolRound

BudgetSpec == BudgetInit /\ [][BudgetNext]_budgetVars

(***************************************************************************)
(* Properties.                                                             *)
(***************************************************************************)
\* What the variables hold.
BudgetTypeOK ==
    /\ limit \in Limits
    /\ asking \in {"system", "media", "history", "input", "request", "sent", "refused"}
    /\ context \in Seq([kind : {"system", "media", "user", "assistant", "memory", "call", "recall", "tool"},
                        cost : Costs])
    /\ fitted.truncated \subseteq DOMAIN context /\ fitted.removed \subseteq DOMAIN context

Kept == DOMAIN context \ fitted.removed

\* what the request would cost with these messages back and whole
With(S) == Overhead + Sum([i \in DOMAIN context |-> IF i \in S THEN context[i].cost ELSE fitted.costs[i]], Kept \cup S)

\* A request that is sent fits, and no more of what fit_request may remove was given up than
\* that takes: whole groups go, each headed by a message of the role user, from the oldest
\* on, only after every memory that can be shortened has been, and neither the last group
\* removed nor the last memory shortened would have fitted; the input, the system prompt
\* and the calls with their results stay. One is refused only when all that is gone. The
\* oldest group is the state of the media if there is one: see MediaStays.
BudgetIsSpent ==
    asking \in {"sent", "refused"} =>
        LET shortened == {i \in Kind({"memory", "recall"}) : context[i].cost > ShortCost}
        IN  /\ fitted.total = With({})
            /\ (asking = "sent" <=> fitted.total <= limit)
            /\ asking = "refused" => fitted.removed = Removable /\ fitted.truncated = shortened
            /\ fitted.removed \subseteq Removable /\ fitted.truncated \subseteq shortened
            /\ \A i \in fitted.removed, j \in Removable \ fitted.removed : i < j
            /\ \A i \in Removable \ fitted.removed : context[i].kind = "assistant" => i - 1 \in Kept
            /\ fitted.removed # {} =>
                  /\ fitted.truncated = shortened
                  /\ \E i \in fitted.removed : With({j \in fitted.removed : i <= j}) > limit
                        /\ \A j \in fitted.removed : j > i => context[j].kind = "assistant"
            /\ \A i \in fitted.truncated, j \in shortened \ fitted.truncated : i < j
            /\ fitted.truncated # {} /\ fitted.removed = {} =>
                  \E i \in fitted.truncated : With({i}) > limit /\ \A j \in fitted.truncated : j <= i

\* Of a request that is sent, only memories and the history of the dialogue were given up,
\* not the state of the media, which every turn is to be given (docs/architecture.md: the
\* input budget, and the media data of a turn). fit_request makes no such difference.
MediaStays == asking = "sent" => fitted.removed \cap Kind({"media"}) = {}

=============================================================================
