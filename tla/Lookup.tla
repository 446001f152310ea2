------------------------------- MODULE Lookup -------------------------------
(***************************************************************************)
(* The question to one provider of metadata: first the answers kept in     *)
(* Redis, then, unless its circuit breaker has opened, the provider, as    *)
(* often as the retries allow (metadata/providers.js, apiCache.js,         *)
(* circuitBreaker.js, metadataService.js buscarCandidatos).                *)
(***************************************************************************)
EXTENDS Naturals

CONSTANTS Askers,      \* books whose metadata is asked for, all with one key
          Attempts,    \* 1 + env.metadataMaxRetries
          Threshold    \* failureThreshold of the breaker

VARIABLES provider,    \* whether it answers, and whether it knows the book
          breaker,     \* state, failures, and whether the cooldown is over
          call,        \* per asker: the attempt (0: idle) and the answer in hand
          answers,     \* the key in Redis
          result       \* per asker: the answer of its last question

vars == <<provider, breaker, call, answers, result>>

Closed == [state |-> "closed", failures |-> 0, cooled |-> FALSE]
None == "none"         \* nothing is kept, or nothing was answered
Answer == {"empty", "record"}
Idle == [attempt |-> 0, got |-> None]
Known == IF provider.published THEN "record" ELSE "empty"

Init == /\ provider = [up |-> TRUE, published |-> FALSE]
        /\ breaker = Closed
        /\ call = [c \in Askers |-> Idle]
        /\ answers = None
        /\ result = [c \in Askers |-> None]

\* A slip: an open breaker lets nobody through, so nothing ever closes it.
NeverHalfOpen == breaker.state # "open"
CanRequest == breaker.state # "open" \/ breaker.cooled

\* cached: what is kept is the answer, the empty one too.
AskCache(c) == /\ call[c] = Idle
               /\ answers # None
               /\ result' = [result EXCEPT ![c] = answers]
               /\ UNCHANGED <<provider, breaker, call, answers>>

\* execute: half-open lets everyone through, not one.
AskProvider(c) == /\ call[c] = Idle
                  /\ answers = None
                  /\ CanRequest
                  /\ breaker' = IF breaker.state = "open" THEN [breaker EXCEPT !.state = "half-open"]
                                ELSE breaker
                  /\ call' = [call EXCEPT ![c].attempt = 1]
                  /\ UNCHANGED <<provider, answers, result>>

\* CIRCUIT_OPEN, which buscarCandidatos takes for an empty answer.
AskRefused(c) == /\ call[c] = Idle
                 /\ answers = None
                 /\ ~CanRequest
                 /\ result' = [result EXCEPT ![c] = "empty"]
                 /\ UNCHANGED <<provider, breaker, call, answers>>

\* failure(): every failure at or above the threshold opens it again.
Failed == [state |-> IF breaker.failures + 1 >= Threshold THEN "open" ELSE breaker.state,
           failures |-> IF breaker.failures < Threshold THEN breaker.failures + 1 ELSE Threshold,
           cooled |-> FALSE]

AttemptFails(c) ==
  /\ call[c].attempt > 0
  /\ ~provider.up
  /\ IF call[c].attempt < Attempts
     THEN call' = [call EXCEPT ![c].attempt = @ + 1] /\ UNCHANGED <<breaker, result>>
     ELSE /\ call' = [call EXCEPT ![c] = Idle]
          /\ breaker' = Failed
          /\ result' = [result EXCEPT ![c] = "empty"]
  /\ UNCHANGED <<provider, answers>>

\* success(), also of a question that was asked before the breaker opened.
Answered(c) == /\ call[c].attempt > 0
               /\ provider.up
               /\ breaker' = Closed
               /\ call' = [call EXCEPT ![c] = [attempt |-> 0, got |-> Known]]
               /\ UNCHANGED <<provider, answers, result>>

\* setCachedApiResult, with Redis or without.
Keep(c) == /\ call[c].got # None
           /\ answers' \in {call[c].got, answers}
           /\ result' = [result EXCEPT ![c] = call[c].got]
           /\ call' = [call EXCEPT ![c] = Idle]
           /\ UNCHANGED <<provider, breaker>>

\* cooldownMs passes.
Cool == /\ breaker.state = "open"
        /\ ~breaker.cooled
        /\ breaker' = [breaker EXCEPT !.cooled = TRUE]
        /\ UNCHANGED <<provider, call, answers, result>>

\* EX: days for an empty answer, more days for the others.
Expire == /\ answers # None
          /\ answers' = None
          /\ UNCHANGED <<provider, breaker, call, result>>

ProviderChanges == /\ provider' \in [up : BOOLEAN, published : BOOLEAN]
                   /\ provider.published => provider'.published
                   /\ UNCHANGED <<breaker, call, answers, result>>

Step(c) == AskCache(c) \/ AskProvider(c) \/ AskRefused(c) \/ AttemptFails(c) \/ Answered(c) \/ Keep(c)
Next == Cool \/ Expire \/ ProviderChanges \/ \E c \in Askers : Step(c)

Fairness == WF_vars(Cool \/ Expire) /\ \A c \in Askers : WF_vars(Step(c))
Spec == Init /\ [][Next]_vars /\ Fairness

TypeOK == /\ provider \in [up : BOOLEAN, published : BOOLEAN]
          /\ breaker \in [state : {"closed", "half-open", "open"}, failures : 0..Threshold, cooled : BOOLEAN]
          /\ call \in [Askers -> [attempt : 0..Attempts, got : Answer \cup {None}]]
          /\ answers \in Answer \cup {None}
          /\ result \in [Askers -> Answer \cup {None}]

\* Once the provider stays up and knows the book, whoever goes on asking gets it:
\* no open breaker and no empty answer kept before stands in the way for ever
\* (circuitBreaker.js:4-6, apiCache.js:6).
LookupsSucceed == \A c \in Askers :
                    <>[](provider.up /\ provider.published) => []<>(result[c] = "record")
=============================================================================
