----------------------------- MODULE WorkerProofs -----------------------------
(* What a worker's turn rests on: that a call of the broker keeps to its time,  *)
(* for any chain, policy and deadline, and that the process wall gives a turn   *)
(* its own result, for any number of turns and of children.                     *)
EXTENDS Broker, Privsep, TLAPS

-----------------------------------------------------------------------------
(* Arithmetic *)

LEMMA Monotone ==
  ASSUME NEW a \in Nat, NEW b \in Nat, NEW c \in Nat, a <= b
  PROVE  a * c <= b * c
<1>1. PICK d \in Nat : b = a + d
  <2> WITNESS b - a \in Nat
  <2> QED  OBVIOUS
<1>2. b * c = a * c + d * c
  BY <1>1, SMT
<1>3. d * c \in Nat /\ a * c \in Nat
  BY SMT
<1> QED  BY <1>2, <1>3

\* The latest start of the k-th request to provider p when no caller cuts it.
Latest(p, k) == (p - 1) * PerProvider + (k - 1) * (ProviderTimeout + RetryDelay)

LEMMA LatestFacts ==
  /\ PerProvider \in Nat
  /\ Latest(1, 1) = 0
  /\ \A p \in Nat \ {0}, k \in Nat \ {0} :
       /\ Latest(p, k) \in Nat
       /\ Latest(p, k + 1) = Latest(p, k) + ProviderTimeout + RetryDelay
  /\ \A p \in Nat \ {0} : Latest(p + 1, 1) = p * PerProvider
  /\ \A p \in Nat \ {0}, k \in 1..(MaxRetries + 1) :
       Latest(p, k) + ProviderTimeout <= Latest(p + 1, 1)
  /\ \A p \in Provider : Latest(p + 1, 1) <= Chain * PerProvider
<1> USE BrokerAssumption
<1>1. PerProvider \in Nat
  BY SMT DEF PerProvider
<1> DEFINE c == ProviderTimeout + RetryDelay
<1>2. c \in Nat
  OBVIOUS
<1>3. PerProvider = MaxRetries * c + ProviderTimeout
  BY SMT DEF PerProvider
<1>4. \A m, x \in Nat : m * x \in Nat /\ (m + 1) * x = m * x + x /\ 0 * x = 0
  BY SMT
<1> HIDE DEF c
<1>5. Latest(1, 1) = 0
  BY <1>1, <1>2, <1>4 DEF Latest, c
<1>6. ASSUME NEW p \in Nat \ {0}, NEW k \in Nat \ {0}
      PROVE  /\ Latest(p, k) \in Nat
             /\ Latest(p, k + 1) = Latest(p, k) + ProviderTimeout + RetryDelay
  <2>1. p - 1 \in Nat /\ k - 1 \in Nat /\ (k - 1) + 1 = (k + 1) - 1
    OBVIOUS
  <2>2. (p - 1) * PerProvider \in Nat /\ (k - 1) * c \in Nat
    BY <1>1, <1>2, <1>4, <2>1
  <2>3. ((k + 1) - 1) * c = (k - 1) * c + c
    BY <1>2, <1>4, <2>1
  <2> QED  BY <2>2, <2>3 DEF Latest, c
<1>7. ASSUME NEW p \in Nat \ {0}
      PROVE  /\ Latest(p + 1, 1) = p * PerProvider
             /\ Latest(p + 1, 1) = (p - 1) * PerProvider + PerProvider
             /\ p * PerProvider \in Nat /\ (p - 1) * PerProvider \in Nat
  <2>1. p - 1 \in Nat /\ (p - 1) + 1 = p /\ (p + 1) - 1 = p /\ 1 - 1 = 0
    OBVIOUS
  <2>2. 0 * c = 0 /\ p * PerProvider \in Nat /\ (p - 1) * PerProvider \in Nat
    BY <1>1, <1>2, <1>4, <2>1
  <2>3. p * PerProvider = (p - 1) * PerProvider + PerProvider
    BY <1>1, <1>4, <2>1
  <2> QED  BY <2>1, <2>2, <2>3 DEF Latest, c
<1>8. ASSUME NEW p \in Nat \ {0}, NEW k \in 1..(MaxRetries + 1)
      PROVE  Latest(p, k) + ProviderTimeout <= Latest(p + 1, 1)
  <2>1. k - 1 \in Nat /\ k - 1 <= MaxRetries
    OBVIOUS
  <2>2. (k - 1) * c <= MaxRetries * c
    BY <1>2, <2>1, Monotone
  <2>3. (k - 1) * c \in Nat /\ MaxRetries * c \in Nat
    BY <1>2, <1>4, <2>1
  <2> QED  BY <1>1, <1>3, <1>7, <2>2, <2>3 DEF Latest, c
<1>9. ASSUME NEW p \in Provider
      PROVE  Latest(p + 1, 1) <= Chain * PerProvider
  <2>1. p \in Nat \ {0} /\ p <= Chain
    BY DEF Provider
  <2> QED  BY <1>1, <1>7, <2>1, Monotone
<1> QED  BY <1>1, <1>5, <1>6, <1>7, <1>8, <1>9

-----------------------------------------------------------------------------
(* Types *)

\* A wait within the context is over by either end of it.
LEMMA WithinFacts ==
  ASSUME NEW t \in Nat, NEW end \in Nat
  PROVE  /\ Within(t, end) \in Nat /\ Within(t, end) <= t /\ Within(t, end) <= end
         /\ \A n \in Nat : n <= t /\ n <= end => n <= Within(t, end)
BY DEF Within

LEMMA BrokerTypeStep == BrokerTypeOK /\ [BrokerNext]_brokerVars => BrokerTypeOK'
<1> SUFFICES ASSUME BrokerTypeOK, [BrokerNext]_brokerVars PROVE BrokerTypeOK'
  OBVIOUS
<1> USE BrokerAssumption DEF BrokerTypeOK, Provider, OutOfRetries
<1>0. over \in Nat /\ now + ProviderTimeout \in Nat /\ now + RetryDelay \in Nat
  OBVIOUS
<1>1. ASSUME NEW p \in Provider, Request(p) PROVE wake' \in Nat /\ tried' \subseteq Provider
  <2>1. wake' \in Nat
    BY <1>0, <1>1, WithinFacts DEF Request
  <2>2. tried' = tried \/ tried' = tried \cup {p}
    BY <1>1 DEF Request
  <2> QED  BY <2>1, <2>2
<1>2. ASSUME GiveUp, now' = now, over' = over, phase # "done"
      PROVE  BrokerTypeOK'
  <2>1. CASE provider < Chain /\ Request(provider + 1) /\ attempt' = 1 /\ UNCHANGED result
    <3>1. provider + 1 \in Provider
      BY <2>1
    <3>2. wake' \in Nat /\ tried' \subseteq Provider
      BY <1>1, <2>1, <3>1
    <3>3. provider' = provider + 1 /\ phase' = "request" /\ attempt' = 1 /\ result' = result
      BY <2>1 DEF Request
    <3> QED  BY <1>2, <3>1, <3>2, <3>3
  <2>2. CASE /\ phase' = "done" /\ result' = "failed"
             /\ UNCHANGED <<provider, attempt, wake, tried>>
    BY <1>2, <2>2
  <2> QED  BY <1>2, <2>1, <2>2 DEF GiveUp
<1>3. ASSUME NEW a \in Answer, Answers(a) PROVE BrokerTypeOK'
  <2>1. now' = now /\ over' = over /\ phase # "done"
    BY <1>3 DEF Answers
  <2>2. CASE GiveUp
    BY <1>2, <2>1, <2>2
  <2>3. CASE phase' = "done" /\ result' = "reply" /\ UNCHANGED <<provider, attempt, wake, tried>>
    BY <2>1, <2>3
  <2>4. CASE /\ ~OutOfRetries /\ phase' = "delay" /\ wake' = Backoff
             /\ UNCHANGED <<provider, attempt, result, tried>>
    <3>1. wake' \in Nat
      BY <1>0, <2>4, WithinFacts DEF Backoff
    <3> QED  BY <2>1, <2>4, <3>1
  <2> QED  BY <1>3, <2>2, <2>3, <2>4 DEF Answers
<1>4. CASE Retry
  <2>1. Request(provider) /\ attempt' = attempt + 1 /\ UNCHANGED <<now, over, result>>
        /\ phase = "delay"
    BY <1>4 DEF Retry
  <2>2. wake' \in Nat /\ tried' \subseteq Provider
    BY <1>1, <2>1
  <2>3. provider' = provider /\ phase' = "request"
    BY <2>1 DEF Request
  <2> QED  BY <2>1, <2>2, <2>3
<1>5. CASE TimesOut
  BY <1>2, <1>5 DEF TimesOut
<1>6. CASE Aborts
  BY <1>2, <1>6 DEF Aborts, Due
<1>7. CASE ParentCancels
  <2>1. wake' \in Nat
    BY <1>7, WithinFacts DEF ParentCancels
  <2>2. over' \in 0..Deadline
    BY <1>7 DEF ParentCancels, CtxDone
  <2> QED  BY <1>7, <2>1, <2>2 DEF ParentCancels
<1>8. CASE Tick
  BY <1>8 DEF Tick
<1>9. CASE UNCHANGED brokerVars
  BY <1>9 DEF brokerVars
<1> QED  BY <1>3, <1>4, <1>5, <1>6, <1>7, <1>8, <1>9 DEF BrokerNext, TimerFires

\* The state of a call is well typed; in particular no provider gets more than
\* MaxRetries + 1 requests.
THEOREM BrokerTypes == BrokerSpec => []BrokerTypeOK
<1>1. BrokerInit => BrokerTypeOK
  <2> SUFFICES ASSUME BrokerInit PROVE BrokerTypeOK
    OBVIOUS
  <2>1. wake \in Nat
    BY BrokerAssumption, WithinFacts DEF BrokerInit
  <2> QED  BY <2>1, BrokerAssumption DEF BrokerInit, BrokerTypeOK, Provider
<1> QED  BY <1>1, BrokerTypeStep, PTL DEF BrokerSpec

-----------------------------------------------------------------------------
(* Time *)

\* The facts above for one request.
LEMMA RequestFacts ==
  ASSUME NEW p \in Provider, NEW k \in 1..(MaxRetries + 1)
  PROVE  /\ p \in Nat \ {0} /\ k \in Nat \ {0}
         /\ Latest(p, k) \in Nat /\ Latest(p, k + 1) \in Nat /\ Latest(p + 1, 1) \in Nat
         /\ Chain * PerProvider \in Nat
         /\ Latest(p, k + 1) = Latest(p, k) + ProviderTimeout + RetryDelay
         /\ Latest(p, k) + ProviderTimeout <= Latest(p + 1, 1)
         /\ k <= MaxRetries => Latest(p, k + 1) + ProviderTimeout <= Latest(p + 1, 1)
         /\ Latest(p + 1, 1) <= Chain * PerProvider
<1> USE BrokerAssumption
<1>1. /\ p \in Nat \ {0} /\ k \in Nat \ {0}
      /\ p + 1 \in Nat \ {0} /\ k + 1 \in Nat \ {0} /\ 1 \in Nat \ {0}
  BY DEF Provider
<1>2. Latest(p, k) \in Nat /\ Latest(p, k + 1) \in Nat /\ Latest(p + 1, 1) \in Nat
  BY <1>1, LatestFacts, Zenon
<1>3. Chain * PerProvider \in Nat
  <2>1. PerProvider \in Nat
    BY LatestFacts
  <2> QED  BY <2>1, SMT
<1>4. Latest(p, k + 1) = Latest(p, k) + ProviderTimeout + RetryDelay
  BY <1>1, LatestFacts, Zenon
<1>5. Latest(p, k) + ProviderTimeout <= Latest(p + 1, 1)
  BY <1>1, LatestFacts, Zenon
<1>6. ASSUME k <= MaxRetries PROVE Latest(p, k + 1) + ProviderTimeout <= Latest(p + 1, 1)
  <2>1. k + 1 \in 1..(MaxRetries + 1)
    BY <1>6
  <2> QED  BY <1>1, <2>1, LatestFacts, Zenon
<1>7. Latest(p + 1, 1) <= Chain * PerProvider
  BY LatestFacts, Zenon
<1> QED  BY <1>1, <1>2, <1>3, <1>4, <1>5, <1>6, <1>7

\* The wait the call is in is not over yet and ends with the context at the
\* latest: whatever a step begins to wait for, it waits for within the context.
InContext == phase # "done" => now <= wake /\ wake <= over

\* Request k to provider p ends within a timeout of Latest(p, k), the wait behind
\* it by Latest(p, k + 1). An ended call ended within the budget of the providers
\* it came to.
Timely ==
  /\ InContext
  /\ phase = "request" => wake <= Latest(provider, attempt) + ProviderTimeout
  /\ phase = "delay" => wake <= Latest(provider, attempt) + ProviderTimeout + RetryDelay
  /\ phase = "done" => now <= Latest(provider + 1, 1)

LEMMA TimelyInit == BrokerInit => Timely
<1> SUFFICES ASSUME BrokerInit PROVE Timely
  OBVIOUS
<1> USE BrokerAssumption
<1>1. wake \in Nat /\ wake <= ProviderTimeout /\ wake <= Deadline
  BY WithinFacts DEF BrokerInit
<1>2. Latest(provider, attempt) = 0
  BY LatestFacts DEF BrokerInit
<1> QED  BY <1>1, <1>2 DEF BrokerInit, Timely, InContext

\* So at any moment the next provider's time has not passed.
LEMMA Bounded == BrokerTypeOK /\ Timely => now <= Latest(provider + 1, 1)
<1> SUFFICES ASSUME BrokerTypeOK, Timely PROVE now <= Latest(provider + 1, 1)
  OBVIOUS
<1>1. /\ provider \in Provider /\ attempt \in 1..(MaxRetries + 1)
      /\ now \in Nat /\ wake \in Nat
      /\ phase \in {"request", "delay", "done"} /\ (phase = "delay" => attempt <= MaxRetries)
  BY DEF BrokerTypeOK
<1> DEFINE begun == Latest(provider, attempt)
           end == Latest(provider + 1, 1)
<1>2. /\ begun \in Nat /\ end \in Nat /\ begun + ProviderTimeout <= end
      /\ phase = "delay" => begun + ProviderTimeout + RetryDelay <= end
  <2>1. phase = "delay" => Latest(provider, attempt + 1) <= end
    BY <1>1, RequestFacts, BrokerAssumption
  <2> QED  BY <1>1, <2>1, RequestFacts, BrokerAssumption
<1>3. /\ phase # "done" => now <= wake
      /\ phase = "request" => wake <= begun + ProviderTimeout
      /\ phase = "delay" => wake <= begun + ProviderTimeout + RetryDelay
      /\ phase = "done" => now <= end
  BY DEF Timely, InContext
<1> HIDE DEF begun, end
<1>4. now <= end
  BY <1>1, <1>2, <1>3, BrokerAssumption
<1> QED  BY <1>4 DEF end

\* A request that begins in time begins a wait that keeps to it.
LEMMA RequestTimely ==
  ASSUME BrokerTypeOK, InContext, phase # "done", NEW p \in Provider, Request(p),
         UNCHANGED <<now, over>>, attempt' \in 1..(MaxRetries + 1),
         now <= Latest(p, attempt')
  PROVE  Timely'
<1> USE BrokerAssumption
<1>1. now \in Nat /\ over \in Nat /\ now <= over /\ now + ProviderTimeout \in Nat
  BY DEF BrokerTypeOK, InContext
<1>2. wake' = Within(now + ProviderTimeout, over) /\ provider' = p /\ phase' = "request"
  BY DEF Request
<1>3. /\ wake' \in Nat /\ wake' <= now + ProviderTimeout /\ wake' <= over /\ now <= wake'
  BY <1>1, <1>2, WithinFacts
<1>4. Latest(p, attempt') \in Nat
  BY RequestFacts
<1>5. wake' <= Latest(provider', attempt') + ProviderTimeout
  BY <1>1, <1>2, <1>3, <1>4
<1>6. InContext'
  BY <1>3 DEF InContext
<1> QED  BY <1>2, <1>5, <1>6 DEF Timely, Latest, PerProvider

\* A provider is given up in time for the next one.
LEMMA GiveUpTimely ==
  ASSUME BrokerTypeOK, Timely, phase # "done", GiveUp, UNCHANGED <<now, over>>
  PROVE  Timely'
<1> USE BrokerAssumption
<1>1. now <= Latest(provider + 1, 1) /\ provider \in Provider
  BY Bounded DEF BrokerTypeOK
<1>2. CASE provider < Chain /\ Request(provider + 1) /\ attempt' = 1
  <2>1. provider + 1 \in Provider /\ 1 \in 1..(MaxRetries + 1)
    BY <1>1, <1>2 DEF Provider
  <2> QED  BY <1>1, <1>2, <2>1, RequestTimely DEF Timely
<1>3. CASE phase' = "done" /\ provider' = provider
  BY <1>1, <1>3 DEF Timely, InContext, Latest, PerProvider
<1> QED  BY <1>2, <1>3 DEF GiveUp

LEMMA TimelyStep == BrokerTypeOK /\ Timely /\ [BrokerNext]_brokerVars => Timely'
<1> SUFFICES ASSUME BrokerTypeOK, Timely, [BrokerNext]_brokerVars PROVE Timely'
  OBVIOUS
<1> USE BrokerAssumption
<1>0. /\ provider \in Provider /\ attempt \in 1..(MaxRetries + 1)
      /\ now \in Nat /\ over \in Nat /\ wake \in Nat
      /\ Latest(provider, attempt) \in Nat
      /\ phase # "done" => now <= wake /\ wake <= over
  <2>1. provider \in Provider /\ attempt \in 1..(MaxRetries + 1)
    BY DEF BrokerTypeOK
  <2>2. Latest(provider, attempt) \in Nat
    BY <2>1, RequestFacts
  <2> QED  BY <2>1, <2>2 DEF BrokerTypeOK, Timely, InContext
<1>1. ASSUME NEW a \in Answer, Answers(a) PROVE Timely'
  <2>1. CASE GiveUp
    BY <1>1, <2>1, GiveUpTimely DEF Answers
  <2>2. phase = "request" /\ now' = now /\ over' = over
    BY <1>1 DEF Answers
  <2>3. CASE phase' = "done" /\ result' = "reply" /\ UNCHANGED <<provider, attempt, wake, tried>>
    BY <2>2, <2>3, Bounded DEF Timely, InContext, Latest, PerProvider
  <2>4. CASE /\ ~OutOfRetries /\ phase' = "delay" /\ wake' = Backoff
             /\ UNCHANGED <<provider, attempt, result, tried>>
    <3>1. wake <= Latest(provider, attempt) + ProviderTimeout
      BY <2>2 DEF Timely
    <3>2. now + RetryDelay \in Nat /\ now <= now + RetryDelay
      BY <1>0
    <3>3. wake' <= now + RetryDelay /\ wake' <= over /\ now <= wake' /\ wake' \in Nat
      BY <1>0, <2>2, <2>4, <3>2, WithinFacts DEF Backoff
    <3>4. wake' <= Latest(provider, attempt) + ProviderTimeout + RetryDelay
      BY <1>0, <2>2, <3>1, <3>3
    <3>5. InContext'
      BY <2>2, <3>3 DEF InContext
    <3> QED  BY <2>4, <3>4, <3>5 DEF Timely, Latest, PerProvider
  <2> QED  BY <1>1, <2>1, <2>3, <2>4 DEF Answers
<1>2. CASE Retry
  <2>1. /\ Request(provider) /\ attempt' = attempt + 1 /\ UNCHANGED <<now, over>>
        /\ phase = "delay" /\ now >= wake
    BY <1>2 DEF Retry, Due
  <2>2. attempt + 1 \in 1..(MaxRetries + 1)
    BY <2>1 DEF BrokerTypeOK
  <2>3. wake <= Latest(provider, attempt) + ProviderTimeout + RetryDelay
    BY <2>1 DEF Timely
  <2>4. Latest(provider, attempt + 1) = Latest(provider, attempt) + ProviderTimeout + RetryDelay
    BY <1>0, RequestFacts
  <2>5. now <= Latest(provider, attempt + 1)
    BY <1>0, <2>1, <2>3, <2>4
  <2> QED  BY <1>0, <2>1, <2>2, <2>5, RequestTimely DEF Timely
<1>3. CASE TimesOut
  BY <1>3, GiveUpTimely DEF TimesOut, Due
<1>4. CASE Aborts
  BY <1>4, GiveUpTimely DEF Aborts, Due
<1>5. CASE ParentCancels
  <2>1. /\ phase # "done" /\ over' = now /\ wake' = Within(wake, now)
        /\ UNCHANGED <<now, provider, attempt, phase>>
    BY <1>5 DEF ParentCancels
  <2>2. wake' \in Nat /\ wake' <= wake /\ wake' <= now /\ now <= wake'
    BY <1>0, <2>1, WithinFacts
  <2>3. InContext'
    BY <2>1, <2>2 DEF InContext
  <2>4. /\ phase = "request" => wake' <= Latest(provider, attempt) + ProviderTimeout
        /\ phase = "delay" => wake' <= Latest(provider, attempt) + ProviderTimeout + RetryDelay
    BY <1>0, <2>2 DEF Timely
  <2> QED  BY <2>1, <2>3, <2>4 DEF Timely, Latest, PerProvider
<1>6. CASE Tick
  <2>1. /\ phase # "done" /\ ~(now >= wake) /\ now' = now + 1
        /\ UNCHANGED <<over, provider, attempt, phase, wake>>
    BY <1>6 DEF Tick, Due
  <2>2. InContext'
    BY <1>0, <2>1 DEF InContext
  <2> QED  BY <2>1, <2>2 DEF Timely, Latest, PerProvider
<1>7. CASE UNCHANGED brokerVars
  BY <1>7 DEF brokerVars, Timely, InContext, Latest, PerProvider
<1> QED  BY <1>1, <1>2, <1>3, <1>4, <1>5, <1>6, <1>7 DEF BrokerNext, TimerFires

LEMMA TimelyInvariant == BrokerSpec => [](BrokerTypeOK /\ Timely)
<1> QED  BY BrokerTypes, TimelyInit, TimelyStep, PTL DEF BrokerSpec

\* Whatever the providers answer and when, the chain has left provider p, or
\* ended there, within p times MaxRetries + 1 timeouts and MaxRetries waits.
THEOREM ChainBudget == BrokerSpec => []WorstCase
<1>1. BrokerTypeOK /\ Timely => WorstCase
  <2> SUFFICES ASSUME BrokerTypeOK, Timely PROVE WorstCase
    OBVIOUS
  <2>1. provider \in Nat \ {0}
    BY DEF BrokerTypeOK, Provider
  <2>2. Latest(provider + 1, 1) = provider * PerProvider
    BY <2>1, LatestFacts
  <2> QED  BY <2>2, Bounded DEF WorstCase
<1> QED  BY <1>1, TimelyInvariant, PTL

\* The providers the call has come to were asked in time, if there was any.
Asked ==
  /\ over = Deadline => \A p \in Provider :
       p <= provider /\ (p - 1) * PerProvider < Deadline => p \in tried
  /\ result = "failed" => provider = Chain

LEMMA GiveUpAsked ==
  ASSUME BrokerTypeOK, Timely, Asked, GiveUp, UNCHANGED <<now, over>>
  PROVE  Asked'
<1> USE BrokerAssumption
<1>1. provider \in Provider /\ provider \in Nat \ {0} /\ now \in Nat
  BY DEF BrokerTypeOK, Provider
<1>2. CASE provider < Chain /\ Request(provider + 1) /\ UNCHANGED result
  <2>1. now <= provider * PerProvider
    <3>1. Latest(provider + 1, 1) = provider * PerProvider
      BY <1>1, LatestFacts
    <3> QED  BY <3>1, Bounded
  <2>2. ASSUME over' = Deadline, NEW p \in Provider, p <= provider',
               (p - 1) * PerProvider < Deadline
        PROVE  p \in tried'
    <3>1. provider' = provider + 1 /\ tried \subseteq tried' /\ over = Deadline
      BY <1>2, <2>2 DEF Request
    <3>2. CASE p <= provider
      BY <2>2, <3>1, <3>2 DEF Asked
    <3>3. CASE p = provider + 1
      <4>1. p - 1 = provider
        BY <1>1, <3>3
      <4>2. provider * PerProvider \in Nat
        BY <1>1, LatestFacts, SMT
      <4>3. now < Deadline
        BY <1>1, <2>1, <2>2, <4>1, <4>2
      <4>4. ~CtxDone
        BY <1>1, <3>1, <4>3 DEF CtxDone
      <4> QED  BY <1>2, <3>3, <4>4 DEF Request
    <3> QED  BY <1>1, <2>2, <3>1, <3>2, <3>3 DEF Provider
  <2>3. result' = "failed" => provider' = Chain
    BY <1>1, <1>2 DEF Request, Asked, Provider
  <2>4. over' = Deadline => \A p \in Provider :
          p <= provider' /\ ((p - 1) * PerProvider < Deadline)' => p \in tried'
    BY <2>2 DEF PerProvider
  <2> QED  BY <2>3, <2>4 DEF Asked
<1>3. CASE provider = Chain /\ UNCHANGED <<provider, tried>>
  BY <1>1, <1>3 DEF Asked, PerProvider, Provider
<1> QED  BY <1>2, <1>3 DEF GiveUp

LEMMA AskedStep == BrokerTypeOK /\ Timely /\ Asked /\ [BrokerNext]_brokerVars => Asked'
<1> SUFFICES ASSUME BrokerTypeOK, Timely, Asked, [BrokerNext]_brokerVars PROVE Asked'
  OBVIOUS
<1>1. ASSUME GiveUp, UNCHANGED <<now, over>> PROVE Asked'
  BY <1>1, GiveUpAsked
<1>2. ASSUME provider' = provider, tried \subseteq tried',
             over' = Deadline => over = Deadline,
             result' = result \/ result' = "reply"
      PROVE  Asked'
  BY <1>2 DEF Asked, PerProvider
<1>3. ASSUME NEW a \in Answer, Answers(a) PROVE Asked'
  BY <1>1, <1>2, <1>3 DEF Answers
<1>4. CASE Retry
  BY <1>2, <1>4 DEF Retry, Request
<1>5. CASE TimesOut \/ Aborts
  BY <1>1, <1>5 DEF TimesOut, Aborts
<1>6. CASE ParentCancels
  <2>1. over' = now /\ now < over /\ over <= Deadline /\ now \in Nat /\ over \in Nat
    BY <1>6, BrokerAssumption DEF ParentCancels, CtxDone, BrokerTypeOK
  <2> QED  BY <1>2, <1>6, <2>1, BrokerAssumption DEF ParentCancels
<1>7. CASE Tick
  BY <1>2, <1>7 DEF Tick
<1>8. CASE UNCHANGED brokerVars
  BY <1>2, <1>8 DEF brokerVars
<1> QED  BY <1>3, <1>4, <1>5, <1>6, <1>7, <1>8 DEF BrokerNext, TimerFires

\* A deadline behind the worst the providers before it can do is enough for a
\* provider to be asked, for any chain, unless the shutdown intervenes.
THEOREM Fallback == BrokerSpec => []FallbackInTime
<1>1. BrokerInit => Asked
  BY BrokerAssumption DEF BrokerInit, Asked, Provider
<1>2. BrokerTypeOK /\ Asked => FallbackInTime
  <2> SUFFICES ASSUME BrokerTypeOK, Asked, result = "failed", over = Deadline,
                      NEW p \in Provider, (p - 1) * PerProvider < Deadline
               PROVE  p \in tried
    BY DEF FallbackInTime
  <2>1. p <= provider
    BY BrokerAssumption DEF Asked, Provider
  <2> QED  BY <2>1 DEF Asked
<1> QED  BY <1>1, <1>2, AskedStep, TimelyInvariant, PTL DEF BrokerSpec

\* What a worker abandoned at the deadline still does (arbiter.go:92): each of its
\* steps gives up a provider, without a retry and without waiting, so that as many
\* steps as providers are left end the call, for any chain and timers.
THEOREM AbandonedWindsDown == BrokerSpec => WindsDown
<1>1. BrokerTypeOK /\ Timely /\ [BrokerNext]_brokerVars
        => [CtxDone => now' = now /\ Left' < Left]_brokerVars
  <2> SUFFICES ASSUME BrokerTypeOK, InContext, BrokerNext, CtxDone
               PROVE  now' = now /\ Left' < Left
    BY DEF Timely
  <2> USE BrokerAssumption
  <2>0. /\ now \in Nat /\ over \in Nat /\ wake \in Nat /\ now >= over
        /\ provider \in Nat /\ provider >= 1 /\ provider <= Chain
    BY DEF BrokerTypeOK, CtxDone, Provider
  <2>1. ~Tick
    <3>1. phase # "done" => now >= wake
      BY <2>0 DEF InContext
    <3> QED  BY <3>1 DEF Tick, Due
  <2>2. phase # "done" /\ GiveUp /\ now' = now
    BY <2>1 DEF BrokerNext, TimerFires, Answers, Retry, TimesOut, Aborts, ParentCancels, Due
  <2>3. CASE provider < Chain /\ Request(provider + 1)
    <3>1. Left = Chain - provider + 1 /\ Left' = Chain - (provider + 1) + 1
      BY <2>2, <2>3 DEF Left, Request
    <3> QED  BY <2>0, <2>2, <3>1
  <2>4. CASE phase' = "done"
    <3>1. Left = Chain - provider + 1 /\ Left' = 0
      BY <2>2, <2>4 DEF Left
    <3> QED  BY <2>0, <2>2, <3>1
  <2> QED  BY <2>2, <2>3, <2>4 DEF GiveUp
<1> QED  BY <1>1, TimelyInvariant, PTL DEF BrokerSpec, WindsDown

-----------------------------------------------------------------------------
(* The process wall: the child and its stream *)

(* What the process wall promises, for any number of turns and of children.   *)
(* No frame carries the name of its turn, and a goroutine left behind by a    *)
(* cancelled turn may read from the connection of a later one. That a turn    *)
(* still gets its own result or an error rests on what is in the stream: while *)
(* a turn waits, everything between it and the one live child is that turn's, *)
(* and a turn that takes a result leaves the stream empty behind it.          *)

\* A turn between Lock and its return holds the mutex, and so does Close while
\* it waits; whoever waits for the child has a connection to it.
Ownership ==
  /\ \A t \in Turn : pc[t] \in {"locked", "await"} => mu = t
  /\ \A t \in Turn : pc[t] = "await" => conn # 0
  /\ closing = "waiting" => mu = Closer /\ conn # 0

\* What has not begun has left no trace.
Unborn ==
  /\ \A c \in Conn : c > made => /\ child[c] = "none"
                                 /\ toChild[c] = <<>> /\ toParent[c] = <<>>
  /\ \A t \in Turn : pc[t] \in {"new", "locked"} =>
       reader[t].at = "none" /\ got[t] = Failure("none")
  /\ \A t \in Turn : reader[t].at \in {"prefix", "body"} => reader[t].on # 0

Basic == TypeOK /\ Ownership /\ Unborn

\* Nothing is under way between the parent and the child at c.
Silent(c) == toChild[c] = <<>> /\ child[c] # "busy" /\ toParent[c] = <<>>

\* What may be left of the frame f in a stream.
Unread(f) == {<<>>, <<[part |-> "body", frame |-> f]>>,
              <<[part |-> "prefix", frame |-> f], [part |-> "body", frame |-> f]>>}

\* The job of t has not been received, or is being worked on, or is answered.
InFlight(t, c) ==
  \/ toChild[c] = <<t>> /\ child[c] # "busy" /\ toParent[c] = <<>>
  \/ toChild[c] = <<>> /\ child[c] = "busy" /\ job[c] = t /\ toParent[c] = <<>>
  \/ /\ toChild[c] = <<>> /\ child[c] # "busy"
     /\ \E f \in Frame : f.of = t /\ toParent[c] \in Unread(f)

\* The stream of the live child is the waiting turn's alone, and empty when
\* nobody waits or the result has been read.
StreamIsTheTurns ==
  /\ conn # 0 /\ (\A t \in Turn : pc[t] # "await") => Silent(conn)
  /\ \A t \in Turn : pc[t] = "await" =>
       /\ InFlight(t, conn)
       /\ reader[t].at \in {"prefix", "body"} => reader[t].on = conn
       /\ got[t] \in Frame => got[t].of = t /\ Silent(conn)

LEMMA FailureIsNoFrame == ASSUME NEW k PROVE Failure(k) \notin Frame
BY PrivsepAssumption DEF Failure, Frame

LEMMA HeadTail ==
  ASSUME NEW S, NEW q \in Seq(S), q # <<>>
  PROVE  Head(q) \in S /\ Tail(q) \in Seq(S)
OBVIOUS

\* A reading goroutine moves on, on the connection it has.
LEMMA ReaderMoves ==
  ASSUME TypeOK, NEW t \in Turn, NEW a \in {"body", "gone"},
         reader' = [reader EXCEPT ![t].at = a]
  PROVE  /\ reader' \in [Turn -> [at : {"none", "spawned", "prefix", "body", "gone"},
                                 on : 0..MaxConns]]
         /\ \A u \in Turn : u # t => reader'[u] = reader[u]
         /\ reader'[t].on = reader[t].on
BY DEF TypeOK

LEMMA BasicInit == Init => Basic
<1> SUFFICES ASSUME Init PROVE Basic
  OBVIOUS
<1>1. Failure("none") \in Outcome
  BY DEF Outcome
<1>2. TypeOK
  <2>1. 0 \in 0..MaxConns /\ closed \subseteq 1..made /\ conn \in 0..made /\ conn \notin closed
    BY PrivsepAssumption DEF Init
  <2>2. toChild \in [Conn -> Seq(Turn)] /\ toParent \in [Conn -> Seq(Part)]
    BY DEF Init
  <2>3. reader \in [Turn -> [at : {"none", "spawned", "prefix", "body", "gone"},
                             on : 0..MaxConns]]
    BY <2>1 DEF Init
  <2> QED  BY <1>1, <2>1, <2>2, <2>3 DEF Init, TypeOK
<1> QED  BY <1>2, PrivsepAssumption DEF Init, Basic, Ownership, Unborn, Conn

-----------------------------------------------------------------------------
(* Types, ownership of the mutex, and what has not begun *)

LEMMA TurnStepBasic ==
  ASSUME Basic, NEW t \in Turn, TurnStep(t)
  PROVE  Basic'
<1>0. /\ None \notin Turn /\ Closer \notin Turn /\ None # Closer
      /\ \A k \in {"none", "start", "wire", "cancelled"} : Failure(k) \in Outcome
  BY PrivsepAssumption DEF Outcome
<1>1. CASE Lock(t)
  <2>1. /\ pc[t] = "new" /\ mu = None /\ mu' = t /\ pc' = [pc EXCEPT ![t] = "locked"]
        /\ UNCHANGED <<expired, conn, made, closed, wire, readers, outcome, closing, panicked>>
    BY <1>1 DEF Lock, At
  <2>2. TypeOK'
    BY <2>1 DEF Basic, TypeOK, wire, readers
  <2>3. Ownership'
    BY <1>0, <2>1 DEF Basic, TypeOK, Ownership
  <2>4. Unborn'
    BY <2>1 DEF Basic, TypeOK, Unborn, wire, readers
  <2> QED  BY <2>2, <2>3, <2>4 DEF Basic
<1>2. CASE Start(t)
  <2>1. /\ pc[t] = "locked" /\ conn = 0 /\ made < MaxConns
        /\ made' = made + 1 /\ conn' = made + 1
        /\ child' = [child EXCEPT ![made + 1] = "idle"]
        /\ UNCHANGED <<mu, pc, expired, closed, job, toChild, toParent, readers,
                       outcome, closing, panicked>>
    BY <1>2 DEF Start, At
  <2>2. /\ made + 1 \in Conn /\ made' \in 0..MaxConns /\ conn' \in 0..made'
        /\ closed \subseteq 1..made' /\ conn' \notin closed /\ conn' # 0
    BY <2>1, PrivsepAssumption DEF Basic, TypeOK, Conn
  <2>3. TypeOK'
    BY <2>1, <2>2 DEF Basic, TypeOK, readers
  <2>4. Ownership'
    BY <2>1, <2>2 DEF Basic, TypeOK, Ownership
  <2>5. Unborn'
    <3>1. \A c \in Conn : c > made' => c > made /\ c # made + 1
      BY <2>1, PrivsepAssumption DEF Basic, TypeOK, Conn
    <3> QED  BY <2>1, <3>1 DEF Basic, TypeOK, Unborn, readers
  <2> QED  BY <2>3, <2>4, <2>5 DEF Basic
<1>3. ASSUME NEW o \in Outcome, Return(t, o), At(t, "locked") \/ At(t, "await"),
             Teardown \/ UNCHANGED <<conn, closed, child>>, Teardown => conn # 0,
             UNCHANGED <<expired, made, job, toChild, toParent, readers, closing, panicked>>
      PROVE  Basic'
  <2>1. /\ pc[t] \in {"locked", "await"} /\ pc' = [pc EXCEPT ![t] = "done"]
        /\ outcome' = [outcome EXCEPT ![t] = o] /\ mu' = None
    BY <1>3 DEF Return, At
  <2>2. /\ mu = t /\ closing # "waiting"
        /\ \A u \in Turn : u # t => pc[u] \notin {"locked", "await"}
    BY <1>0, <2>1 DEF Basic, Ownership
  <2>3. \/ UNCHANGED <<conn, closed, child>>
        \/ /\ conn \in 1..made /\ conn \in Conn
           /\ closed' = closed \cup {conn} /\ conn' = 0
           /\ child' = [child EXCEPT ![conn] = "dead"]
    BY <1>3, PrivsepAssumption DEF Teardown, Basic, TypeOK, Conn
  <2>4. TypeOK'
    <3>1. /\ conn' \in 0..made /\ closed' \subseteq 1..made /\ conn' \notin closed'
          /\ child' \in [Conn -> {"none", "idle", "busy", "dead"}]
      <4>1. CASE UNCHANGED <<conn, closed, child>>
        BY <2>2, <4>1 DEF Basic, TypeOK
      <4>2. CASE ~UNCHANGED <<conn, closed, child>>
        <5>1. /\ conn \in 1..made /\ conn \in Conn
              /\ closed' = closed \cup {conn} /\ conn' = 0
              /\ child' = [child EXCEPT ![conn] = "dead"]
          BY <2>3, <4>2
        <5>2. child' \in [Conn -> {"none", "idle", "busy", "dead"}]
          BY <5>1 DEF Basic, TypeOK
        <5>3. made \in Nat /\ closed \subseteq 1..made
          BY PrivsepAssumption DEF Basic, TypeOK
        <5> QED  BY <5>1, <5>2, <5>3
      <4> QED  BY <4>1, <4>2
    <3> QED  BY <1>3, <2>1, <3>1 DEF Basic, TypeOK, readers
  <2>5. Ownership'
    BY <1>3, <2>1, <2>2 DEF Basic, TypeOK, Ownership
  <2>6. Unborn'
    <3>1. \A c \in Conn : c > made => child'[c] = child[c]
      BY <2>3 DEF Basic, TypeOK
    <3> QED  BY <1>3, <2>1, <3>1 DEF Basic, TypeOK, Unborn, readers
  <2> QED  BY <2>4, <2>5, <2>6 DEF Basic
<1>4. CASE StartFails(t)
  BY <1>0, <1>3, <1>4 DEF StartFails, Teardown, Basic, TypeOK, wire
<1>5. CASE Send(t)
  <2>1. /\ pc[t] = "locked" /\ conn # 0
        /\ toChild' = [toChild EXCEPT ![conn] = Append(@, t)]
        /\ reader' = [reader EXCEPT ![t].at = "spawned"]
        /\ pc' = [pc EXCEPT ![t] = "await"]
        /\ UNCHANGED <<mu, expired, conn, made, closed, child, job, toParent, got,
                       outcome, closing, panicked>>
    BY <1>5 DEF Send, At
  <2>2. conn \in 1..made /\ conn \in Conn
    BY <2>1, PrivsepAssumption DEF Basic, TypeOK, Conn
  <2>3. TypeOK'
    <3>1. toChild' \in [Conn -> Seq(Turn)]
      BY <2>1, <2>2 DEF Basic, TypeOK
    <3>2. reader' \in [Turn -> [at : {"none", "spawned", "prefix", "body", "gone"},
                                on : 0..MaxConns]]
      BY <2>1 DEF Basic, TypeOK
    <3> QED  BY <2>1, <3>1, <3>2 DEF Basic, TypeOK
  <2>4. Ownership'
    BY <2>1 DEF Basic, TypeOK, Ownership
  <2>5. Unborn'
    <3>1. \A c \in Conn : c > made => c # conn
      BY <2>2 DEF Basic, TypeOK
    <3> QED  BY <2>1, <3>1 DEF Basic, TypeOK, Unborn
  <2> QED  BY <2>3, <2>4, <2>5 DEF Basic
<1>6. CASE SendFails(t)
  BY <1>0, <1>3, <1>6 DEF SendFails
<1>7. CASE TakeCancel(t)
  <2>1. conn # 0
    BY <1>7 DEF TakeCancel, At, Basic, Ownership
  <2> QED  BY <1>0, <1>3, <1>7, <2>1 DEF TakeCancel
<1>8. CASE TakeResult(t)
  <2>1. got[t] \in Outcome
    BY DEF Basic, TypeOK
  <2>2. conn # 0
    BY <1>8 DEF TakeResult, At, Basic, Ownership
  <2> QED  BY <1>3, <1>8, <2>1, <2>2 DEF TakeResult, wire
<1>9. CASE TakeWireError(t)
  <2>1. conn # 0
    BY <1>9 DEF TakeWireError, At, Basic, Ownership
  <2> QED  BY <1>0, <1>3, <1>9, <2>1 DEF TakeWireError
<1> QED  BY <1>1, <1>2, <1>4, <1>5, <1>6, <1>7, <1>8, <1>9 DEF TurnStep

\* The goroutine that reads for a turn, and the child, leave the parent's state
\* alone.
LEMMA ReaderStepBasic ==
  ASSUME Basic, NEW t \in Turn, ReaderStep(t)
  PROVE  Basic'
<1>0. Failure("wire") \in Outcome /\ (reader[t].at = "spawned" \/ Reading(t))
      /\ pc[t] \notin {"new", "locked"}
  <2>1. reader[t].at \in {"spawned", "prefix", "body"}
    BY DEF ReaderStep, ReaderStarts, ReadPart, ReadFails, Reading
  <2> QED  BY <2>1 DEF ReaderStep, ReaderStarts, ReadPart, ReadFails, Basic, Unborn, Outcome
<1>1. CASE ReaderStarts(t)
  <2>1. /\ \/ reader' = reader
           \/ conn # 0 /\ reader' = [reader EXCEPT ![t] = [at |-> "prefix", on |-> conn]]
        /\ panicked' \in BOOLEAN
        /\ UNCHANGED <<mu, pc, expired, conn, made, closed, wire, got, outcome, closing>>
    BY <1>1 DEF ReaderStarts, Basic, TypeOK
  <2>2. conn \in 0..MaxConns
    BY PrivsepAssumption DEF Basic, TypeOK
  <2>3. /\ reader' \in [Turn -> [at : {"none", "spawned", "prefix", "body", "gone"},
                                on : 0..MaxConns]]
        /\ \A u \in Turn : u # t => reader'[u] = reader[u]
        /\ \A u \in Turn : reader'[u].at \in {"prefix", "body"} => reader'[u].on # 0
    <3>1. CASE reader' = reader
      BY <3>1 DEF Basic, TypeOK, Unborn
    <3>2. CASE conn # 0 /\ reader' = [reader EXCEPT ![t] = [at |-> "prefix", on |-> conn]]
      <4>1. /\ reader' \in [Turn -> [at : {"none", "spawned", "prefix", "body", "gone"},
                                     on : 0..MaxConns]]
            /\ \A u \in Turn : u # t => reader'[u] = reader[u]
        BY <2>2, <3>2 DEF Basic, TypeOK
      <4>2. reader'[t].on = conn
        BY <3>2 DEF Basic, TypeOK
      <4> QED  BY <3>2, <4>1, <4>2 DEF Basic, Unborn
    <3> QED  BY <2>1, <3>1, <3>2
  <2>4. TypeOK'
    BY <2>1, <2>3 DEF Basic, TypeOK, wire
  <2>5. Ownership'
    BY <2>1 DEF Basic, Ownership
  <2>6. Unborn'
    BY <1>0, <2>1, <2>3 DEF Basic, Unborn, wire
  <2> QED  BY <2>4, <2>5, <2>6 DEF Basic
<1>2. CASE ReadPart(t) \/ ReadFails(t)
  <2> DEFINE c == reader[t].on
             p == Head(toParent[c])
  <2>1. /\ UNCHANGED <<mu, pc, expired, conn, made, closed, child, job, toChild,
                       outcome, closing, panicked>>
        /\ Reading(t)
    BY <1>2 DEF ReadPart, ReadFails, wire
  <2>2. c \in Conn
    BY <2>1, PrivsepAssumption DEF Reading, Basic, TypeOK, Unborn, Conn
  <2>3. \/ toParent' = toParent
        \/ toParent[c] # <<>> /\ toParent' = [toParent EXCEPT ![c] = Tail(@)]
    BY <1>2 DEF ReadPart, ReadFails, wire
  <2>4. toParent[c] # <<>> => p.frame \in Outcome /\ Tail(toParent[c]) \in Seq(Part)
    <3>1. toParent[c] \in Seq(Part)
      BY <2>2 DEF Basic, TypeOK
    <3>2. toParent[c] # <<>> => p \in Part /\ Tail(toParent[c]) \in Seq(Part)
      BY <3>1, HeadTail
    <3> QED  BY <3>2 DEF Part, Outcome
  <2>5. \/ reader' = [reader EXCEPT ![t].at = "body"] /\ got' = got
        \/ /\ reader' = [reader EXCEPT ![t].at = "gone"]
           /\ got' = [got EXCEPT ![t] = Failure("wire")]
        \/ /\ toParent[c] # <<>>
           /\ reader' = [reader EXCEPT ![t].at = "gone"]
           /\ got' = [got EXCEPT ![t] = p.frame]
    BY <1>2 DEF ReadPart, ReadFails, Leaves
  <2>6. toParent' \in [Conn -> Seq(Part)]
    <3>1. toParent \in [Conn -> Seq(Part)]
      BY DEF Basic, TypeOK
    <3> HIDE DEF c
    <3> QED  BY <2>2, <2>3, <2>4, <3>1
  <2> HIDE DEF c, p
  <2>7. got' \in [Turn -> Outcome]
    BY <1>0, <2>4, <2>5 DEF Basic, TypeOK
  <2>8. /\ reader' \in [Turn -> [at : {"none", "spawned", "prefix", "body", "gone"},
                                on : 0..MaxConns]]
        /\ \A u \in Turn : reader'[u].on = reader[u].on
        /\ \A u \in Turn : u # t => reader'[u] = reader[u] /\ got'[u] = got[u]
    <3>1. \E a \in {"body", "gone"} : reader' = [reader EXCEPT ![t].at = a]
      BY <2>5
    <3>2. \A u \in Turn : u # t => got'[u] = got[u]
      BY <2>5 DEF Basic, TypeOK
    <3> QED  BY <3>1, <3>2, ReaderMoves DEF Basic
  <2>9. TypeOK'
    BY <2>1, <2>6, <2>7, <2>8 DEF Basic, TypeOK
  <2>10. Ownership'
    BY <2>1 DEF Basic, Ownership
  <2>11. Unborn'
    <3>1. \A d \in Conn : toParent[d] = <<>> => toParent'[d] = <<>>
      BY <2>3 DEF Basic, TypeOK
    <3>2. c # 0
      BY <2>2, PrivsepAssumption DEF Conn
    <3> QED  BY <1>0, <2>1, <2>8, <3>1, <3>2 DEF Basic, Unborn, c
  <2> QED  BY <2>9, <2>10, <2>11 DEF Basic
<1> QED  BY <1>1, <1>2 DEF ReaderStep

\* The two parts of a result frame.
Parts(f) == <<[part |-> "prefix", frame |-> f], [part |-> "body", frame |-> f]>>

LEMMA ChildStepBasic ==
  ASSUME Basic, NEW c \in Conn, ChildStep(c)
  PROVE  Basic'
<1>1. /\ child[c] \in {"idle", "busy"}
      /\ \E s \in {"idle", "busy", "dead"} : child' = [child EXCEPT ![c] = s]
      /\ UNCHANGED <<mu, pc, expired, conn, made, closed, readers, outcome, closing, panicked>>
  BY DEF ChildStep, ChildReceives, ChildReplies, ChildEnds, Alive
<1>2. ~(c > made)
  BY <1>1 DEF Basic, Unborn
<1>3. \/ UNCHANGED <<toChild, job>>
      \/ /\ toChild[c] # <<>> /\ toChild' = [toChild EXCEPT ![c] = Tail(@)]
         /\ job' = [job EXCEPT ![c] = Head(toChild[c])]
  BY DEF ChildStep, ChildReceives, ChildReplies, ChildEnds
<1>4. toChild' \in [Conn -> Seq(Turn)] /\ job' \in [Conn -> Turn \cup {None}]
  <2>1. /\ toChild \in [Conn -> Seq(Turn)] /\ job \in [Conn -> Turn \cup {None}]
        /\ toChild[c] \in Seq(Turn)
    BY DEF Basic, TypeOK
  <2>2. toChild[c] # <<>> => Head(toChild[c]) \in Turn /\ Tail(toChild[c]) \in Seq(Turn)
    BY <2>1, HeadTail
  <2> QED  BY <1>3, <2>1, <2>2
<1>5. \/ toParent' = toParent
      \/ \E f \in Frame : toParent' = [toParent EXCEPT ![c] = @ \o Parts(f)]
  BY DEF ChildStep, ChildReceives, ChildReplies, ChildEnds, Parts
<1>6. toParent' \in [Conn -> Seq(Part)]
  <2>1. toParent \in [Conn -> Seq(Part)] /\ toParent[c] \in Seq(Part)
    BY DEF Basic, TypeOK
  <2>2. \A f \in Frame : Parts(f) \in Seq(Part)
    BY DEF Parts, Part
  <2>3. \A f \in Frame : toParent[c] \o Parts(f) \in Seq(Part)
    BY <2>1, <2>2
  <2> QED  BY <1>5, <2>1, <2>3
<1>7. TypeOK'
  BY <1>1, <1>4, <1>6 DEF Basic, TypeOK, readers
<1>8. Ownership'
  BY <1>1 DEF Basic, Ownership
<1>9. Unborn'
  <2>1. \A d \in Conn : d # c => /\ child'[d] = child[d] /\ toChild'[d] = toChild[d]
                                 /\ toParent'[d] = toParent[d]
    BY <1>1, <1>3, <1>5 DEF Basic, TypeOK
  <2> QED  BY <1>1, <1>2, <2>1 DEF Basic, Unborn, readers
<1> QED  BY <1>7, <1>8, <1>9 DEF Basic

LEMMA BasicStep == Basic /\ [Next]_vars => Basic'
<1> SUFFICES ASSUME Basic, [Next]_vars PROVE Basic'
  OBVIOUS
<1>1. ASSUME NEW t \in Turn, Expire(t) PROVE Basic'
  BY <1>1 DEF Expire, Basic, TypeOK, Ownership, Unborn, wire, readers
<1>2. CASE CloseBegins
  <2>1. /\ closing = "no" /\ mu = None
        /\ \/ conn = 0 /\ closing' = "done" /\ UNCHANGED <<mu, closed>>
           \/ /\ conn # 0 /\ closing' = "waiting" /\ mu' = Closer
              /\ closed' = closed \cup {conn}
        /\ UNCHANGED <<pc, expired, conn, made, wire, readers, outcome, panicked>>
    BY <1>2 DEF CloseBegins
  <2>2. closed' \subseteq 1..made
    <3>1. conn # 0 => conn \in 1..made
      BY PrivsepAssumption DEF Basic, TypeOK
    <3> QED  BY <2>1, <3>1 DEF Basic, TypeOK
  <2>3. TypeOK'
    BY <2>1, <2>2 DEF Basic, TypeOK, wire, readers
  <2>4. Ownership'
    BY <2>1, PrivsepAssumption DEF Basic, TypeOK, Ownership
  <2>5. Unborn'
    BY <2>1 DEF Basic, Unborn, wire, readers
  <2> QED  BY <2>3, <2>4, <2>5 DEF Basic
<1>3. CASE CloseEnds
  <2>1. /\ closing = "waiting" /\ closing' = "done" /\ mu' = None
        /\ child' = [child EXCEPT ![conn] = "dead"] /\ conn' = 0
        /\ UNCHANGED <<pc, expired, made, closed, job, toChild, toParent, readers,
                       outcome, panicked>>
    BY <1>3 DEF CloseEnds
  <2>2. mu = Closer /\ conn # 0
    BY <2>1 DEF Basic, Ownership
  <2>3. conn \in 1..made /\ conn' \in 0..made /\ conn' \notin closed
    BY <2>1, <2>2, PrivsepAssumption DEF Basic, TypeOK
  <2>4. TypeOK'
    BY <2>1, <2>3 DEF Basic, TypeOK, readers
  <2>5. Ownership'
    BY <2>1, <2>2, PrivsepAssumption DEF Basic, Ownership
  <2>6. Unborn'
    <3>1. \A c \in Conn : c > made => child'[c] = child[c]
      BY <2>1, <2>3 DEF Basic, TypeOK
    <3> QED  BY <2>1, <3>1 DEF Basic, Unborn, readers
  <2> QED  BY <2>4, <2>5, <2>6 DEF Basic
<1>4. CASE UNCHANGED vars
  BY <1>4 DEF vars, Basic, TypeOK, Ownership, Unborn, wire, readers
<1> QED
  BY <1>1, <1>2, <1>3, <1>4, TurnStepBasic, ReaderStepBasic, ChildStepBasic DEF Next

\* The state of the wall is well typed: each connection that is closed was made,
\* none is closed but kept, but while Close waits, and no stream or slot of a
\* turn holds what does not belong there.
THEOREM WallTypes == Spec => []TypeOK
BY BasicInit, BasicStep, PTL DEF Spec, Basic

-----------------------------------------------------------------------------
(* One live child *)

LEMMA OneLiveStep ==
  ASSUME Basic, OneLiveChild, [Next]_vars
  PROVE  OneLiveChild'
<1>0. /\ child \in [Conn -> {"none", "idle", "busy", "dead"}] /\ 0 \notin Conn
      /\ conn # 0 => conn \in Conn
  BY PrivsepAssumption DEF Basic, TypeOK, Conn
<1>1. CASE UNCHANGED <<conn, closed, child>>
  BY <1>1 DEF OneLiveChild, Alive
<1>2. ASSUME NEW t \in Turn, Start(t) PROVE OneLiveChild'
  <2>1. /\ conn = 0 /\ conn' = made + 1 /\ child' = [child EXCEPT ![made + 1] = "idle"]
        /\ closed' = closed
    BY <1>2 DEF Start
  <2> QED  BY <1>0, <2>1 DEF OneLiveChild, Alive
<1>3. CASE conn # 0 /\ Teardown
  BY <1>0, <1>3 DEF Teardown, OneLiveChild, Alive
<1>4. ASSUME NEW c \in Conn, ChildStep(c) PROVE OneLiveChild'
  <2>1. /\ Alive(c) /\ \A d \in Conn : d # c => child'[d] = child[d]
        /\ UNCHANGED <<conn, closed>>
    BY <1>0, <1>4 DEF ChildStep, ChildReceives, ChildReplies, ChildEnds, Alive
  <2> QED  BY <2>1 DEF OneLiveChild, Alive
<1>5. CASE CloseBegins
  BY <1>5 DEF CloseBegins, wire, OneLiveChild, Alive
<1>6. CASE CloseEnds
  <2>1. conn # 0
    BY <1>6 DEF CloseEnds, Basic, Ownership
  <2> QED  BY <1>0, <1>6, <2>1 DEF CloseEnds, OneLiveChild, Alive
<1>7. ASSUME NEW t \in Turn, TurnStep(t)
      PROVE  UNCHANGED <<conn, closed, child>> \/ Start(t) \/ (conn # 0 /\ Teardown)
  <2>1. pc[t] = "await" => conn # 0
    BY DEF Basic, Ownership
  <2> QED  BY <1>7, <2>1 DEF TurnStep, Lock, StartFails, Send, SendFails, TakeCancel,
                              TakeResult, TakeWireError, At, wire
<1>8. ASSUME NEW t \in Turn, ReaderStep(t) \/ Expire(t)
      PROVE  UNCHANGED <<conn, closed, child>>
  BY <1>8 DEF ReaderStep, ReaderStarts, ReadPart, ReadFails, Expire, wire
<1>9. CASE UNCHANGED vars
  BY <1>1, <1>9 DEF vars, wire
<1> QED  BY <1>1, <1>2, <1>3, <1>4, <1>5, <1>6, <1>7, <1>8, <1>9 DEF Next

\* However turns are cancelled, and whatever goroutines they leave behind, there
\* is one child at most the parent can still speak to: that of Worker.conn.
THEOREM WallOneChild == Spec => []OneLiveChild
<1>1. Init => OneLiveChild
  BY DEF Init, OneLiveChild, Alive
<1> QED  BY <1>1, BasicInit, BasicStep, OneLiveStep, PTL DEF Spec

-----------------------------------------------------------------------------
(* Whose frames are in the stream *)

LEMMA NobodyElseWaits ==
  ASSUME Basic, NEW t \in Turn, mu = t \/ mu \notin Turn \/ pc[t] \in {"locked", "await"}
  PROVE  \A u \in Turn : u # t => pc[u] # "await"
BY DEF Basic, Ownership

\* A step that leaves nobody waiting and no connection, or an idle stream.
LEMMA NobodyWaits ==
  ASSUME \A t \in Turn : pc'[t] # "await",
         conn' # 0 => Silent(conn)' 
  PROVE  StreamIsTheTurns'
BY DEF StreamIsTheTurns

LEMMA TurnStepStream ==
  ASSUME Basic, StreamIsTheTurns, NEW t \in Turn, TurnStep(t)
  PROVE  StreamIsTheTurns'
<1>0. /\ pc \in [Turn -> {"new", "locked", "await", "done"}]
      /\ conn # 0 => conn \in Conn
      /\ toChild \in [Conn -> Seq(Turn)] /\ child \in [Conn -> {"none", "idle", "busy", "dead"}]
      /\ None \notin Turn
  BY PrivsepAssumption DEF Basic, TypeOK, Conn
<1>1. \A u \in Turn : u # t => pc[u] # "await" /\ pc'[u] = pc[u]
  <2>1. mu = None \/ pc[t] \in {"locked", "await"}
    BY DEF TurnStep, Lock, Start, StartFails, Send, SendFails, TakeCancel, TakeResult,
           TakeWireError, At
  <2>2. \E l \in {"locked", "await", "done"} : pc' = [pc EXCEPT ![t] = l] \/ pc' = pc
    BY DEF TurnStep, Lock, Start, StartFails, Send, SendFails, TakeCancel, TakeResult,
           TakeWireError, Return
  <2> QED  BY <1>0, <2>1, <2>2, NobodyElseWaits
<1>2. CASE Lock(t)
  <2>1. pc[t] = "new" /\ pc'[t] = "locked" /\ UNCHANGED <<conn, child, toChild, toParent>>
    BY <1>0, <1>2 DEF Lock, At, wire
  <2>2. conn # 0 => Silent(conn)
    BY <1>1, <2>1 DEF StreamIsTheTurns
  <2> QED  BY <1>1, <2>1, <2>2, NobodyWaits DEF Silent
<1>3. CASE Start(t)
  <2>1. /\ pc[t] = "locked" /\ conn' = made + 1 /\ made < MaxConns
        /\ child' = [child EXCEPT ![made + 1] = "idle"]
        /\ UNCHANGED <<pc, toChild, toParent>>
    BY <1>3 DEF Start, At
  <2>2. made + 1 \in Conn /\ made + 1 > made
    BY <2>1, PrivsepAssumption DEF Basic, TypeOK, Conn
  <2>3. toChild[made + 1] = <<>> /\ toParent[made + 1] = <<>>
    BY <2>2 DEF Basic, Unborn
  <2>4. Silent(conn)'
    BY <1>0, <2>1, <2>2, <2>3 DEF Silent
  <2> QED  BY <1>1, <2>1, <2>4, NobodyWaits
<1>4. CASE Send(t)
  <2>1. /\ pc[t] = "locked" /\ conn # 0 /\ conn \in Conn /\ pc'[t] = "await"
        /\ toChild' = [toChild EXCEPT ![conn] = Append(@, t)]
        /\ reader' = [reader EXCEPT ![t].at = "spawned"]
        /\ UNCHANGED <<conn, child, toParent, got>>
    BY <1>0, <1>4 DEF Send, At
  <2>2. Silent(conn)
    BY <1>1, <2>1 DEF StreamIsTheTurns
  <2>3. toChild'[conn] = <<t>>
    BY <1>0, <2>1, <2>2 DEF Silent
  <2>4. got'[t] \notin Frame
    BY <2>1, FailureIsNoFrame DEF Basic, Unborn
  <2>5. reader'[t].at = "spawned"
    BY <2>1 DEF Basic, TypeOK
  <2>6. InFlight(t, conn)'
    BY <2>1, <2>2, <2>3 DEF InFlight, Silent
  <2> QED  BY <1>1, <2>1, <2>4, <2>5, <2>6 DEF StreamIsTheTurns
<1>5. CASE StartFails(t) \/ SendFails(t) \/ TakeCancel(t) \/ TakeWireError(t)
  <2>1. conn' = 0 /\ pc'[t] = "done"
    BY <1>0, <1>5 DEF StartFails, SendFails, TakeCancel, TakeWireError, Teardown, Return
  <2> QED  BY <1>1, <2>1, NobodyWaits
<1>6. CASE TakeResult(t)
  <2>1. /\ pc[t] = "await" /\ got[t] \in Frame /\ pc'[t] = "done"
        /\ UNCHANGED <<conn, child, toChild, toParent>>
    BY <1>0, <1>6 DEF TakeResult, Return, At, wire
  <2>2. Silent(conn)
    BY <2>1 DEF StreamIsTheTurns
  <2> QED  BY <1>1, <2>1, <2>2, NobodyWaits DEF Silent
<1> QED  BY <1>2, <1>3, <1>4, <1>5, <1>6 DEF TurnStep

\* What is left of a frame gets shorter, and its body is what comes last.
LEMMA UnreadTail ==
  ASSUME NEW f, NEW q \in Unread(f), q # <<>>
  PROVE  /\ Tail(q) \in Unread(f) /\ Head(q).frame = f
         /\ Head(q).part # "prefix" => Tail(q) = <<>>
<1> DEFINE pre == [part |-> "prefix", frame |-> f]
           body == [part |-> "body", frame |-> f]
<1>1. /\ pre.part = "prefix" /\ pre.frame = f /\ body.frame = f
      /\ q = <<body>> \/ q = <<pre, body>>
      /\ {<<>>, <<body>>} \subseteq Unread(f)
  BY DEF Unread
<1> HIDE DEF pre, body
<1>2. /\ Head(<<body>>) = body /\ Tail(<<body>>) = <<>>
      /\ Head(<<pre, body>>) = pre /\ Tail(<<pre, body>>) = <<body>>
  OBVIOUS
<1> QED  BY <1>1, <1>2

LEMMA ReaderStepStream ==
  ASSUME Basic, StreamIsTheTurns, NEW u \in Turn, ReaderStep(u)
  PROVE  StreamIsTheTurns'
<1>0. UNCHANGED <<pc, conn, child, job, toChild>>
  BY DEF ReaderStep, ReaderStarts, ReadPart, ReadFails, wire
<1>1. \A t \in Turn : t # u => reader'[t] = reader[t] /\ got'[t] = got[t]
  BY DEF ReaderStep, ReaderStarts, ReadPart, ReadFails, Leaves, Basic, TypeOK
<1>2. CASE ReaderStarts(u)
  <2>1. UNCHANGED <<toParent, got>> /\ (reader' = reader \/ reader'[u].on = conn)
    BY <1>2 DEF ReaderStarts, wire, Basic, TypeOK
  <2> QED  BY <1>0, <1>1, <2>1 DEF StreamIsTheTurns, InFlight, Silent
<1>3. CASE ReadFails(u)
  <2>1. toParent' = toParent /\ got'[u] = Failure("wire") /\ reader'[u].on = reader[u].on
        /\ reader'[u].at = "gone"
    BY <1>3 DEF ReadFails, Leaves, wire, Basic, TypeOK
  <2> QED  BY <1>0, <1>1, <2>1, FailureIsNoFrame DEF StreamIsTheTurns, InFlight, Silent
<1>4. CASE ReadPart(u)
  <2> DEFINE c == reader[u].on
             p == Head(toParent[c])
  <2>1. /\ Reading(u) /\ toParent[c] # <<>>
        /\ toParent' = [toParent EXCEPT ![c] = Tail(@)]
        /\ c \in Conn
    BY <1>4, PrivsepAssumption DEF ReadPart, Reading, Basic, TypeOK, Unborn, Conn
  <2>2. /\ reader'[u].on = c
        /\ \/ got'[u] = got[u]
           \/ got'[u] = Failure("wire")
           \/ got'[u] = p.frame /\ p.part # "prefix"
    BY <1>4 DEF ReadPart, Leaves, Basic, TypeOK
  <2>3. /\ toParent'[c] = Tail(toParent[c])
        /\ \A d \in Conn : d # c => toParent'[d] = toParent[d]
    BY <2>1 DEF Basic, TypeOK
  <2>4. reader[u].at \in {"prefix", "body"}
    BY <2>1 DEF Reading
  <2> HIDE DEF c, p
  <2>5. conn # 0 => conn \in Conn
    BY PrivsepAssumption DEF Basic, TypeOK, Conn
  <2>6. CASE c # conn
    <3>1. pc[u] # "await"
      BY <2>4, <2>6 DEF StreamIsTheTurns, c
    <3>2. conn # 0 => toParent'[conn] = toParent[conn]
      BY <2>3, <2>5, <2>6
    <3>3. \A t \in Turn : pc[t] = "await" => conn # 0
      BY DEF Basic, Ownership
    <3> QED  BY <1>0, <1>1, <3>1, <3>2, <3>3 DEF StreamIsTheTurns, InFlight, Silent
  <2>7. CASE c = conn
    <3>1. ~Silent(conn) /\ conn # 0
      BY <2>1, <2>7, PrivsepAssumption DEF Silent, Conn
    <3>2. PICK t \in Turn : pc[t] = "await"
      BY <3>1 DEF StreamIsTheTurns
    <3>3. \A s \in Turn : s # t => pc[s] # "await"
      BY <3>2, NobodyElseWaits
    <3>4. got[t] \notin Frame /\ InFlight(t, conn)
          /\ (reader[t].at \in {"prefix", "body"} => reader[t].on = conn)
      BY <3>1, <3>2 DEF StreamIsTheTurns
    <3>5. PICK f \in Frame : f.of = t /\ toParent[conn] \in Unread(f)
      BY <2>1, <2>7, <3>4 DEF InFlight
    <3>6. toChild[conn] = <<>> /\ child[conn] # "busy"
      BY <2>1, <2>7, <3>4 DEF InFlight
    <3>7. /\ Tail(toParent[conn]) \in Unread(f) /\ p.frame = f
          /\ p.part # "prefix" => Tail(toParent[conn]) = <<>>
      BY <2>1, <2>7, <3>5, UnreadTail DEF p
    <3>8. InFlight(t, conn)'
      BY <1>0, <2>3, <2>7, <3>5, <3>6, <3>7 DEF InFlight
    <3>9. reader'[t].at \in {"prefix", "body"} => reader'[t].on = conn
      BY <1>1, <2>2, <2>7, <3>4
    <3>10. got'[t] \in Frame => got'[t].of = t /\ Silent(conn)'
      <4>1. CASE got'[t] = got[t] \/ got'[t] = Failure("wire")
        BY <3>4, <4>1, FailureIsNoFrame
      <4>2. CASE got'[t] = f /\ Tail(toParent[conn]) = <<>>
        BY <1>0, <2>3, <2>7, <3>5, <3>6, <4>2 DEF Silent
      <4> QED  BY <1>1, <2>2, <3>7, <4>1, <4>2
    <3> QED  BY <1>0, <3>2, <3>3, <3>8, <3>9, <3>10 DEF StreamIsTheTurns
  <2> QED  BY <2>6, <2>7
<1> QED  BY <1>2, <1>3, <1>4 DEF ReaderStep

LEMMA ChildStepStream ==
  ASSUME Basic, StreamIsTheTurns, NEW c \in Conn, ChildStep(c)
  PROVE  StreamIsTheTurns'
<1>0. UNCHANGED <<pc, conn, reader, got>>
  BY DEF ChildStep, ChildReceives, ChildReplies, ChildEnds, readers
<1>1. \A d \in Conn : d # c => /\ child'[d] = child[d] /\ job'[d] = job[d]
                               /\ toChild'[d] = toChild[d] /\ toParent'[d] = toParent[d]
  BY DEF ChildStep, ChildReceives, ChildReplies, ChildEnds, Basic, TypeOK
<1>2. conn # 0 => conn \in Conn
  BY PrivsepAssumption DEF Basic, TypeOK, Conn
<1>3. \A t \in Turn : pc[t] = "await" => conn # 0
  BY DEF Basic, Ownership
<1>4. CASE c # conn
  BY <1>0, <1>1, <1>2, <1>3, <1>4 DEF StreamIsTheTurns, InFlight, Silent
<1>5. CASE c = conn /\ ChildEnds(c)
  <2>1. child'[c] = "dead" /\ UNCHANGED <<job, toChild, toParent>> /\ child[c] \in {"idle", "busy"}
    BY <1>5 DEF ChildEnds, Alive, Basic, TypeOK
  <2>2. \A t \in Turn : InFlight(t, conn) => InFlight(t, conn)'
    <3> SUFFICES ASSUME NEW t \in Turn, InFlight(t, conn) PROVE InFlight(t, conn)'
      OBVIOUS
    <3>1. CASE toChild[conn] = <<>> /\ child[conn] = "busy" /\ job[conn] = t /\ toParent[conn] = <<>>
      <4>1. [of |-> t, kind |-> "result"] \in Frame /\ <<>> \in Unread([of |-> t, kind |-> "result"])
        BY DEF Frame, Unread
      <4> QED  BY <1>0, <1>5, <2>1, <3>1, <4>1 DEF InFlight
    <3>2. CASE ~(child[conn] = "busy")
      BY <1>0, <1>5, <2>1, <3>2 DEF InFlight
    <3> QED  BY <3>1, <3>2 DEF InFlight
  <2>3. Silent(conn) => Silent(conn)'
    BY <1>0, <1>5, <2>1 DEF Silent
  <2> QED  BY <1>0, <2>2, <2>3 DEF StreamIsTheTurns
<1>6. CASE c = conn /\ (ChildReceives(c) \/ ChildReplies(c))
  <2>1. ~Silent(conn) /\ conn # 0
    BY <1>6, PrivsepAssumption DEF ChildReceives, ChildReplies, Silent, Conn
  <2>2. PICK t \in Turn : pc[t] = "await"
    BY <2>1 DEF StreamIsTheTurns
  <2>3. \A s \in Turn : s # t => pc[s] # "await"
    BY <2>2, NobodyElseWaits
  <2>4. got[t] \notin Frame /\ InFlight(t, conn)
        /\ (reader[t].at \in {"prefix", "body"} => reader[t].on = conn)
    BY <2>1, <2>2 DEF StreamIsTheTurns
  <2>5. InFlight(t, conn)'
    <3>1. CASE ChildReceives(c)
      <4>1. toChild[c] = <<t>> /\ toParent[c] = <<>>
        BY <1>6, <2>4, <3>1 DEF ChildReceives, InFlight
      <4>2. child'[c] = "busy" /\ job'[c] = Head(toChild[c])
            /\ toChild'[c] = Tail(toChild[c]) /\ toParent' = toParent
        BY <3>1 DEF ChildReceives, Basic, TypeOK
      <4>3. Head(<<t>>) = t /\ Tail(<<t>>) = <<>>
        OBVIOUS
      <4> QED  BY <1>0, <1>6, <4>1, <4>2, <4>3 DEF InFlight
    <3>2. CASE ChildReplies(c)
      <4>1. toChild[c] = <<>> /\ job[c] = t /\ toParent[c] = <<>>
        BY <1>6, <2>4, <3>2 DEF ChildReplies, InFlight
      <4>2. PICK f \in Frame : f.of = job[c] /\ toParent' = [toParent EXCEPT ![c] = @ \o Parts(f)]
        BY <3>2 DEF ChildReplies, Parts
      <4>3. child'[c] = "idle" /\ toChild' = toChild /\ toParent'[c] = toParent[c] \o Parts(f)
        BY <3>2, <4>2 DEF ChildReplies, Basic, TypeOK
      <4>4. <<>> \o Parts(f) = Parts(f)
        BY DEF Parts
      <4>5. Parts(f) \in Unread(f)
        BY DEF Parts, Unread
      <4> QED  BY <1>0, <1>6, <4>1, <4>2, <4>3, <4>4, <4>5 DEF InFlight
    <3> QED  BY <1>6, <3>1, <3>2
  <2> QED  BY <1>0, <2>2, <2>3, <2>4, <2>5 DEF StreamIsTheTurns
<1> QED  BY <1>4, <1>5, <1>6 DEF ChildStep

LEMMA StreamStep ==
  ASSUME Basic, StreamIsTheTurns, [Next]_vars
  PROVE  StreamIsTheTurns'
<1>1. CASE UNCHANGED <<pc, conn, wire, readers>>
  BY <1>1 DEF StreamIsTheTurns, InFlight, Silent, wire, readers
<1>2. CASE CloseEnds
  <2>1. conn' = 0 /\ UNCHANGED pc /\ mu = Closer
    BY <1>2 DEF CloseEnds, Basic, Ownership
  <2>2. \A t \in Turn : pc'[t] # "await"
    BY <2>1, PrivsepAssumption DEF Basic, Ownership
  <2> QED  BY <2>1, <2>2, NobodyWaits
<1> QED  BY <1>1, <1>2, TurnStepStream, ReaderStepStream, ChildStepStream
         DEF Next, Expire, CloseBegins, vars

\* No turn returns the result, or the error, of another one, for any number of
\* turns, cancelled at any moment, and any number of goroutines they left behind.
THEOREM WallOwnResult == Spec => []OwnResult
<1>1. Init => StreamIsTheTurns /\ OwnResult
  BY FailureIsNoFrame DEF Init, StreamIsTheTurns, OwnResult
<1>2. Basic /\ StreamIsTheTurns /\ [Next]_vars => StreamIsTheTurns'
  BY StreamStep
<1>3. Basic /\ StreamIsTheTurns /\ OwnResult /\ [Next]_vars => OwnResult'
  <2> SUFFICES ASSUME Basic, StreamIsTheTurns, OwnResult, [Next]_vars
               PROVE  OwnResult'
    OBVIOUS
  <2>1. ASSUME NEW t \in Turn, NEW o, o \in Frame => o.of = t,
               outcome' = [outcome EXCEPT ![t] = o]
        PROVE  OwnResult'
    BY <2>1 DEF OwnResult, Basic, TypeOK
  <2>2. CASE UNCHANGED outcome
    BY <2>2 DEF OwnResult
  <2>3. ASSUME NEW t \in Turn, TakeResult(t) PROVE OwnResult'
    <3>1. got[t].of = t /\ outcome' = [outcome EXCEPT ![t] = got[t]]
      BY <2>3 DEF TakeResult, Return, At, StreamIsTheTurns
    <3> QED  BY <2>1, <3>1
  <2>4. ASSUME NEW t \in Turn,
               StartFails(t) \/ SendFails(t) \/ TakeCancel(t) \/ TakeWireError(t)
        PROVE  OwnResult'
    <3>1. \E k \in {"start", "wire", "cancelled"} :
            outcome' = [outcome EXCEPT ![t] = Failure(k)]
      BY <2>4 DEF StartFails, SendFails, TakeCancel, TakeWireError, Return
    <3> QED  BY <2>1, <3>1, FailureIsNoFrame
  <2> QED  BY <2>2, <2>3, <2>4
           DEF Next, TurnStep, ReaderStep, ChildStep, Expire, Lock, Start, Send,
               ReaderStarts, ReadPart, ReadFails, ChildReceives, ChildReplies, ChildEnds,
               CloseBegins, CloseEnds, vars
<1> QED  BY <1>1, <1>2, <1>3, BasicInit, BasicStep, PTL DEF Spec
================================================================================
