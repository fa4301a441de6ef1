------------------------- MODULE PromiseCombinators -------------------------
(***************************************************************************)
(* Promise.all, allSettled, any and race on the intrinsic constructor      *)
(* (promise_combine and the aggregate functions of runtime_promise.c).     *)
(*                                                                         *)
(* The iterator, the elements' `then' methods and everything they hand the *)
(* element functions to are user code: it may call them at any time, from  *)
(* inside `then' too, more than once, with a plain value or a thenable.    *)
(***************************************************************************)
EXTENDS Integers, Sequences, FiniteSets, SequencesExt

CONSTANTS MaxElements,  \* elements the iterator yields
          MaxCalls      \* calls of element functions

ASSUME CombinatorAssumption == MaxElements \in Nat /\ MaxCalls \in Nat

VARIABLES
    kind,       \* the combinator
    at,         \* where promise_combine is
    count,      \* elements so far (index)
    remaining,  \* aggregate->remaining
    settled,    \* aggregate->settled
    values,     \* aggregate->values, one entry per element that has one
    cells,      \* the already-called cells that are set
    promise,    \* the state of the result promise
    result,     \* what the result promise was resolved or rejected with
    log         \* history: what user code did, in order

vars == <<kind, at, count, remaining, settled, values, cells, promise, result, log>>
aggregate == <<remaining, settled, values, cells, promise, result>>

Elements == 1..MaxElements
\* Plain values are told apart by the number of the event that passed them.
Thenable == 0
Shared   == 0   \* the cell of the function that `any' shares

NoResult == [state |-> "none", with |-> <<>>]
Event(what, element, with) == [what |-> what, element |-> element, with |-> with]

Init ==
    /\ kind \in {"all", "allSettled", "any", "race"}
    /\ at = "start" /\ count = 0 /\ remaining = 0 /\ settled = FALSE
    /\ values = <<>> /\ cells = {} /\ promise = "pending"
    /\ result = NoResult /\ log = <<>>

-----------------------------------------------------------------------------

\* A promise that is not pending is left alone.  Resolving with a thenable
\* leaves the promise pending until the thenable's own job settles it.
capability_settle(with, fulfilled, thenable) ==
    IF promise # "pending" THEN UNCHANGED <<promise, result>>
    ELSE /\ promise' = IF ~fulfilled THEN "rejected"
                       ELSE IF thenable THEN "pending" ELSE "fulfilled"
         /\ result' = [state |-> IF fulfilled THEN "resolved" ELSE "rejected", with |-> with]

promise_aggregate_complete(vs) ==
    /\ settled' = TRUE
    /\ capability_settle(vs, kind # "any", FALSE)

Nothing == UNCHANGED <<remaining, settled, values, promise, result>>

\* Mutant of Over: a promise that is resolved but still pending is open.
OverByState == promise # "pending"

Over == settled \/ promise # "pending"

\* oseo_internal_promise_aggregate_settle for a reaction of kind `reaction'.
promise_aggregate_settle(reaction, element, with, fulfilled) ==
    IF Over THEN Nothing
    ELSE IF \/ reaction = "race"
            \/ reaction = "all" /\ ~fulfilled
            \/ reaction = "any" /\ fulfilled
    THEN /\ settled' = TRUE /\ capability_settle(<<with>>, fulfilled, with = Thenable)
         /\ UNCHANGED <<remaining, values>>
    ELSE /\ values' = [i \in DOMAIN values \cup {element} |->
                            IF i = element THEN <<fulfilled, with>> ELSE values[i]]
         /\ remaining' = remaining - 1
         /\ IF remaining = 1 THEN promise_aggregate_complete(values')
            ELSE UNCHANGED <<settled, promise, result>>

\* all shares its reject function, any its fulfill function and race both.
Reaction(fulfilled) == IF kind = "all" /\ ~fulfilled THEN "race" ELSE kind

Cell(element, fulfilled) == IF kind = "any" /\ fulfilled THEN Shared ELSE element

Guarded(reaction) == reaction \in {"all", "allSettled", "any"}

\* User code calls a function that was made for an element.
AggregateFunction(element, with, fulfilled) ==
    /\ at \in {"then", "iterate", "over"} /\ element <= count
    /\ Cardinality({i \in DOMAIN log : log[i].what \in {"fulfill", "reject"}}) < MaxCalls
    /\ log' = Append(log, Event(IF fulfilled THEN "fulfill" ELSE "reject", element, with))
    /\ LET r == Reaction(fulfilled)
           c == Cell(element, fulfilled)
       IN  IF Guarded(r) /\ c \in cells THEN UNCHANGED cells /\ Nothing
           ELSE /\ cells' = IF Guarded(r) THEN cells \cup {c} ELSE cells
                /\ promise_aggregate_settle(r, element, with, fulfilled)
    /\ UNCHANGED <<kind, at, count>>

\* The iterator yields an element whose `then' is called with its functions.
CombineStep ==
    /\ at = "iterate" /\ count < MaxElements
    /\ count' = count + 1
    /\ remaining' = IF kind = "race" THEN remaining ELSE remaining + 1
    /\ at' = "then"
    /\ UNCHANGED <<kind, settled, values, cells, promise, result, log>>

ThenReturns == at = "then" /\ at' = "iterate" /\ UNCHANGED <<kind, count, log, aggregate>>

\* promise_combine_reject_call, which goes through the shared reject function
\* for all and race.
promise_combine_reject_call ==
    /\ IF Over THEN Nothing
       ELSE /\ settled' = TRUE /\ capability_settle(<<-1>>, FALSE, FALSE)
            /\ UNCHANGED <<remaining, values>>
    /\ log' = Append(log, Event("abrupt", 0, -1))

\* The constructor's resolve or the iterable cannot be used.
CombineRefused ==
    /\ at = "start" /\ at' = "over"
    /\ capability_settle(<<-1>>, FALSE, FALSE)
    /\ log' = Append(log, Event("abrupt", 0, -1))
    /\ UNCHANGED <<kind, count, remaining, settled, values, cells>>

\* Mutant of CombineBegins: the iteration does not count itself.
CombineBeginsAtZero ==
    /\ at = "start" /\ at' = "iterate" /\ remaining' = 0
    /\ UNCHANGED <<kind, count, settled, values, cells, promise, result, log>>

CombineBegins ==
    /\ at = "start" /\ at' = "iterate" /\ remaining' = 1
    /\ UNCHANGED <<kind, count, settled, values, cells, promise, result, log>>

\* The iterator throws, or the call of an element's `then' does.
CombineAbrupt ==
    /\ at \in {"iterate", "then"} /\ at' = "over"
    /\ promise_combine_reject_call
    /\ UNCHANGED <<kind, count, cells>>

CombineDone ==
    /\ at = "iterate" /\ at' = "over"
    /\ log' = Append(log, Event("done", 0, 0))
    /\ IF kind = "race" THEN Nothing
       ELSE /\ remaining' = remaining - 1 /\ UNCHANGED values
            /\ IF remaining = 1 THEN promise_aggregate_complete(values)
               ELSE UNCHANGED <<settled, promise, result>>
    /\ UNCHANGED <<kind, count, cells>>

\* The job of the thenable the promise was resolved with settles it.
AdoptionEnds ==
    /\ promise = "pending" /\ result.state = "resolved"
    /\ promise' \in {"fulfilled", "rejected"}
    /\ UNCHANGED <<kind, at, count, remaining, settled, values, cells, result, log>>

Finished == at = "over" /\ UNCHANGED vars

Next ==
    \/ CombineBegins \/ CombineRefused \/ CombineStep \/ ThenReturns \/ CombineAbrupt
    \/ CombineDone \/ AdoptionEnds \/ Finished
    \/ \E e \in Elements, w \in {Thenable, Len(log) + 1}, f \in BOOLEAN : AggregateFunction(e, w, f)

Spec == Init /\ [][Next]_vars

-----------------------------------------------------------------------------
(* Properties.                                                              *)

\* Every variable has its type; the counter of open elements never underflows.
TypeOK ==
    /\ at \in {"start", "iterate", "then", "over"}
    /\ count \in 0..MaxElements /\ remaining \in 0..(MaxElements + 1)
    /\ settled \in BOOLEAN /\ cells \subseteq 0..MaxElements
    /\ DOMAIN values \subseteq Elements
    /\ promise \in {"pending", "fulfilled", "rejected"}
    /\ result.state \in {"none", "resolved", "rejected"}

-----------------------------------------------------------------------------
(* What each combinator promises, as a function of what user code did.      *)

Is(e, whats) == e.what \in whats

\* The events of h that an element's function accepts: the first of each for
\* all (fulfill) and any (reject), the first of either for allSettled.
Counted == CASE kind = "all" -> {"fulfill"} [] kind = "any" -> {"reject"}
             [] kind = "allSettled" -> {"fulfill", "reject"} [] OTHER -> {}
\* The events that decide at once.
Decisive == CASE kind = "all" -> {"reject"} [] kind = "any" -> {"fulfill"}
              [] kind = "race" -> {"fulfill", "reject"} [] OTHER -> {}

First(h, element) == SelectInSeq(h, LAMBDA e : e.element = element /\ Is(e, Counted))

\* Every element has its event in h and the iteration has ended there.
Complete(h) ==
    /\ kind # "race" /\ \E i \in DOMAIN h : h[i].what = "done"
    /\ \A element \in 1..count : First(h, element) # 0

Decided(h) == h # <<>> /\ (Is(Last(h), Decisive \cup {"abrupt"}) \/ Complete(h))

Outcome(h) ==
    IF Is(Last(h), Decisive \cup {"abrupt"})
    THEN [state |-> IF Last(h).what = "fulfill" THEN "resolved" ELSE "rejected",
          with |-> <<Last(h).with>>]
    ELSE [state |-> IF kind = "any" THEN "rejected" ELSE "resolved",
          with |-> [element \in 1..count |->
                        LET e == h[First(h, element)] IN <<e.what = "fulfill", e.with>>]]

Deciding == {n \in DOMAIN log : Decided(SubSeq(log, 1, n))}

Matches ==
    result = IF Deciding = {} THEN NoResult
             ELSE Outcome(SubSeq(log, 1, CHOOSE n \in Deciding : \A k \in Deciding : n <= k))

\* any was resolved with a thenable before the iteration ended (SettledOnce).
Adopting ==
    kind = "any" /\ \E i \in DOMAIN log :
        /\ log[i].what = "fulfill" /\ log[i].with = Thenable
        /\ \A k \in 1..i : log[k].what # "done"

\* The result promise is resolved once, as soon as user code has decided it
\* and never before, and with the value the specification of the combinator
\* names: the deciding argument, or what each element's function was called
\* with first, in element order, whatever calls follow or repeat.  The case of
\* SettledOnce is left out.
CombinatorResult == Adopting \/ Matches

\* "A native capability records aggregate settlement so a later closure cannot
\* settle it again": once the aggregate is settled the result promise is not
\* resolved or rejected with anything else (promise_combine completes an `any'
\* whose only open element was rejected and then resolved with a thenable).
SettledOnce == [][settled => result' = result]_vars

=============================================================================
