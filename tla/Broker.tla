-------------------------------- MODULE Broker --------------------------------
(* One call of Broker.Complete: the chain of providers, each tried under a    *)
(* retry policy around a timeout, inside the context of the turn. Time is     *)
(* discrete and counts from the start of the call. It passes while the call   *)
(* waits, and each wait says, as it begins, when it will be over: what bounds *)
(* the call is how the code sets its timers. The initial states, steps and    *)
(* types carry the broker's name, so that the proofs about a worker can       *)
(* extend this module beside the process wall's.                              *)
EXTENDS Naturals

CONSTANTS
  Chain,            \* number of providers
  MaxRetries,       \* retries of one provider
  RetryDelay,       \* ticks between two requests to it
  ProviderTimeout,  \* perProviderTimeout, in ticks
  Deadline          \* what is left of the turn's deadline when the call starts

ASSUME BrokerAssumption ==
  /\ Chain \in Nat \ {0}
  /\ MaxRetries \in Nat
  /\ RetryDelay \in Nat
  /\ ProviderTimeout \in Nat \ {0}
  /\ Deadline \in Nat \ {0}

Provider == 1..Chain

\* What a provider's request ends with, by the type of error go-openai returns:
\* a completion; an APIError, in the provider's own format, with a status of 5xx
\* or 4xx; a RequestError, the response having another format, with a status of
\* 4xx or another; or an error of neither type, among them the adapter's own for
\* a completion without choices.
Answer == {"text", "api5xx", "api4xx", "request4xx", "requestOther", "other"}

VARIABLES
  now,       \* ticks since the call began
  over,      \* when the turn's context is done: its deadline, or the shutdown
  provider,  \* the provider being tried
  attempt,   \* requests made to it, the current one included
  phase,     \* "request", "delay" or "done"
  wake,      \* when the request or the delay is over, whoever hangs
  result,    \* "none", "reply" or "failed"
  tried      \* history: providers asked while the context was live

brokerVars == <<now, over, provider, attempt, phase, wake, result, tried>>

BrokerTypeOK ==
  /\ now \in Nat /\ over \in 0..Deadline /\ wake \in Nat
  /\ provider \in Provider
  /\ attempt \in 1..(MaxRetries + 1)
  /\ phase = "delay" => attempt <= MaxRetries
  /\ phase \in {"request", "delay", "done"}
  /\ result \in {"none", "reply", "failed"}
  /\ phase = "done" <=> result # "none"
  /\ tried \subseteq Provider

\* Mutant: the executor is built without the turn's context.
WithinNot(t, end) == t

\* A timer set for t, under a context that ends at end.
Within(t, end) == IF t < end THEN t ELSE end

BrokerInit ==
  /\ now = 0 /\ over = Deadline
  /\ provider = 1 /\ attempt = 1
  /\ phase = "request" /\ wake = Within(ProviderTimeout, Deadline)
  /\ result = "none" /\ tried = {1}

-----------------------------------------------------------------------------
CtxDone == now >= over

\* A request to provider p begins, under its timeout and the turn's context. If
\* the context is done already it fails at once and reaches nobody.
Request(p) ==
  /\ provider' = p /\ phase' = "request"
  /\ wake' = Within(now + ProviderTimeout, over)
  /\ tried' = IF CtxDone THEN tried ELSE tried \cup {p}

\* Mutant: the wait between two requests is a plain sleep.
BackoffSleeps == now + RetryDelay

\* The policy's wait before a retry ends with the context, too.
Backoff == Within(now + RetryDelay, over)

\* classify: an APIError is worth a retry from 500 up, a RequestError whatever
\* its status, although "a 4xx falls through at once" (broker.go:98).
Transient(answer) == answer \in {"api5xx", "request4xx", "requestOther"}

\* Mutant: after the last provider the chain starts over.
GiveUpRestarts ==
  /\ Request((provider % Chain) + 1) /\ attempt' = 1
  /\ UNCHANGED result

\* The provider failed: the next one is asked, at once and whatever the context
\* says; after the last one the call fails.
GiveUp ==
  \/ /\ provider < Chain
     /\ Request(provider + 1) /\ attempt' = 1
     /\ UNCHANGED result
  \/ /\ provider = Chain
     /\ phase' = "done" /\ result' = "failed"
     /\ UNCHANGED <<provider, attempt, wake, tried>>

\* Mutant: one retry more than the policy allows.
OutOfRetriesLate == attempt > MaxRetries + 1

OutOfRetries == attempt > MaxRetries

\* The provider answers while somebody waits for it: a completion ends the call;
\* a transient error waits for a retry if one is left; any other gives up.
Answers(answer) ==
  /\ phase = "request" /\ ~CtxDone
  /\ \/ /\ answer = "text"
        /\ phase' = "done" /\ result' = "reply"
        /\ UNCHANGED <<provider, attempt, wake, tried>>
     \/ /\ Transient(answer) /\ ~OutOfRetries
        /\ phase' = "delay" /\ wake' = Backoff
        /\ UNCHANGED <<provider, attempt, result, tried>>
     \/ /\ answer # "text" /\ (Transient(answer) => OutOfRetries)
        /\ GiveUp
  /\ UNCHANGED <<now, over>>

\* The wait the call is in is over.
Due == phase # "done" /\ now >= wake

Retry ==
  /\ phase = "delay" /\ Due /\ ~CtxDone
  /\ Request(provider) /\ attempt' = attempt + 1
  /\ UNCHANGED <<now, over, result>>

\* The timeout of one request. Its error is not transient, so that it is not
\* retried.
TimesOut ==
  /\ phase = "request" /\ Due /\ ~CtxDone
  /\ GiveUp
  /\ UNCHANGED <<now, over>>

\* A done context aborts the request or the wait for a retry.
Aborts ==
  /\ Due /\ CtxDone
  /\ GiveUp
  /\ UNCHANGED <<now, over>>

\* The shutdown: what waits under the context waits no longer.
ParentCancels ==
  /\ phase # "done" /\ ~CtxDone
  /\ over' = now /\ wake' = Within(wake, now)
  /\ UNCHANGED <<now, provider, attempt, phase, result, tried>>

\* Time passes while the call waits. A timer that is due fires first.
Tick ==
  /\ phase # "done" /\ ~Due
  /\ now' = now + 1
  /\ UNCHANGED <<over, provider, attempt, phase, wake, result, tried>>

TimerFires == Retry \/ TimesOut \/ Aborts

BrokerNext == \/ \E answer \in Answer : Answers(answer)
              \/ TimerFires \/ ParentCancels \/ Tick

\* A provider may hang; time passes and timers fire.
BrokerSpec == /\ BrokerInit /\ [][BrokerNext]_brokerVars
              /\ WF_brokerVars(Tick) /\ WF_brokerVars(TimerFires)

-----------------------------------------------------------------------------
(* Properties *)

\* A worker the arbiter abandoned at its deadline (arbiter.go:92), or by the
\* shutdown, does not go on beside the worker of the next turn: although Complete
\* goes on to ask the providers that are left, its call is over at the very moment
\* the context is, since every one of its waits is one under the context.
EndsWithTurn == CtxDone ~> (phase = "done" /\ now = over)

\* How many providers are left to give up.
Left == IF phase = "done" THEN 0 ELSE Chain - provider + 1

\* The safety half of it: once the context is done every step of the call gives
\* up a provider, with no retry and no waiting before the next one, so that as
\* many steps as providers are left end it.
WindsDown == [][CtxDone => now' = now /\ Left' < Left]_brokerVars

\* AC2 of story 3-2 ("no hang"): the call ends although providers hang.
CallEnds == <>(phase = "done")

\* The longest a provider takes: every request but the last may take nearly the
\* whole timeout and then fail with an error worth a retry, since the timeout is
\* one request's and not, as deferred-work.md:58 has it, the retry sequence's.
PerProvider == (MaxRetries + 1) * ProviderTimeout + MaxRetries * RetryDelay

\* The chain is at provider p, or ended there, by p times that, whichever way the
\* ones before failed; so a call takes no longer than that for the whole chain.
WorstCase == now <= provider * PerProvider

\* AC1 of story 3-2 (after "a 500/timeout" of the first provider "the turn
\* completes via the next provider in the chain") needs a deadline behind the
\* worst that the providers before can do: then a provider is asked before the
\* call fails, unless the shutdown intervenes. main.go:69 has a deadline of one
\* timeout, which is enough for the first provider only.
FallbackInTime ==
  result = "failed" /\ over = Deadline =>
    \A p \in Provider : (p - 1) * PerProvider < Deadline => p \in tried
==============================================================================
