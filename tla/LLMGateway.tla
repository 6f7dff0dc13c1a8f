----------------------------- MODULE LLMGateway -----------------------------
(***************************************************************************)
(* One call of LLMService.chat (services/llm/llm_service.py): providers in *)
(* their order, each tried MaxTries times with a doubling wait between the *)
(* tries, until one answers.  Both awaits, the provider's ainvoke and the  *)
(* sleep, are actions; a cancelled request is cancelled at one of them.    *)
(*                                                                         *)
(* The SDKs do not retry by themselves (max_retries=0), so an ask is one   *)
(* request to a provider.  A try that fails before it is sent, while the    *)
(* messages are converted, counts as an ask that failed.                   *)
(***************************************************************************)
EXTENDS Integers, Sequences, FiniteSets

CONSTANTS
  ProviderCount,  \* providers configured
  MaxTries        \* range(3)

ASSUME GatewayAssumption ==
  ProviderCount \in Nat \ {0} /\ MaxTries \in Nat \ {0}

VARIABLES
  chat_pc,    \* what the coroutine awaits, or how it ended
  provider,   \* index of the provider being tried
  attempt,
  log         \* history: the asks and the sleeps

chatVars == <<chat_pc, provider, attempt, log>>

----------------------------------------------------------------------------

(* An ask fails, is answered, or is answered and then lost, because reading *)
(* the usage or recording the metrics raises inside the same try.           *)
Ask == [op : {"ask"}, provider : 1..ProviderCount,
        outcome : {"failed", "answered", "lost"}]
Sleep == [op : {"sleep"}, provider : 1..ProviderCount,
          seconds : {2 ^ n : n \in 0..(MaxTries - 2)}]

Asked(outcome) ==
  log' = Append(log, [op |-> "ask", provider |-> provider, outcome |-> outcome])

Init ==
  /\ chat_pc = "ask"
  /\ provider = 1
  /\ attempt = 0
  /\ log = <<>>

Answered ==
  /\ chat_pc = "ask"
  /\ Asked("answered")
  /\ chat_pc' = "returned"
  /\ UNCHANGED <<provider, attempt>>

MoreTriesOffByOne == attempt < MaxTries
MoreTries == attempt < MaxTries - 1

FallBackKeepsAttempt ==
  /\ provider' = provider + 1
  /\ chat_pc' = "ask"
  /\ UNCHANGED attempt

(* The next iteration of the loop over the providers.                       *)
FallBack ==
  /\ provider' = provider + 1
  /\ attempt' = 0
  /\ chat_pc' = "ask"

FallBackOnlyOnce == provider = 1 /\ ProviderCount > 1
HasFallback == provider < ProviderCount

(* A try that came to nothing is followed by a wait, by the next provider,  *)
(* or by RuntimeError.                                                      *)
Failed ==
  /\ chat_pc = "ask"
  /\ Asked("failed") \/ Asked("lost")
  /\ \/ /\ MoreTries
        /\ chat_pc' = "sleep"
        /\ UNCHANGED <<provider, attempt>>
     \/ /\ ~MoreTries /\ HasFallback
        /\ FallBack
     \/ /\ ~MoreTries /\ ~HasFallback
        /\ chat_pc' = "raised"
        /\ UNCHANGED <<provider, attempt>>

BackoffIsProduct == 2 * attempt
Backoff == 2 ^ attempt

Wake ==
  /\ chat_pc = "sleep"
  /\ log' = Append(log, [op |-> "sleep", provider |-> provider,
                         seconds |-> Backoff])
  /\ attempt' = attempt + 1
  /\ chat_pc' = "ask"
  /\ UNCHANGED provider

(* "except Exception" does not catch a cancellation.                        *)
Cancelled ==
  /\ chat_pc \in {"ask", "sleep"}
  /\ chat_pc' = "cancelled"
  /\ UNCHANGED <<provider, attempt, log>>

Work == Answered \/ Failed \/ Wake

Next == Work \/ Cancelled

Spec == Init /\ [][Next]_chatVars

----------------------------------------------------------------------------
(* Properties.                                                              *)

(* The call has its type, and the tries stay within their bounds.           *)
TypeOK ==
  /\ chat_pc \in {"ask", "sleep", "returned", "raised", "cancelled"}
  /\ provider \in 1..ProviderCount
  /\ attempt \in 0..(MaxTries - 1)
  /\ log \in Seq(Ask \union Sleep)

AsksOf(p) == {i \in 1..Len(log) : log[i].op = "ask" /\ log[i].provider = p}

(* How many asks of p come before the i-th entry of the log.                *)
AsksBefore(p, i) == {j \in AsksOf(p) : j < i}

(* Providers are taken in the configured order: one is asked only when each *)
(* one before it has been asked MaxTries times, always in vain, and none is *)
(* asked more often than that or returned to.                               *)
FallsBackInOrder ==
  /\ \A p \in 1..ProviderCount : Cardinality(AsksOf(p)) <= MaxTries
  /\ \A i \in 1..Len(log), p \in 1..ProviderCount :
       /\ p < log[i].provider =>
            /\ Cardinality(AsksBefore(p, i)) = MaxTries
            /\ \A j \in AsksBefore(p, i) : log[j].outcome # "answered"
       /\ p > log[i].provider => AsksBefore(p, i) = {}

(* Two asks of the same provider are always separated by exactly one wait,  *)
(* twice as long as the one before it and starting from a second; there is  *)
(* no wait before the next provider is asked or the call gives up.          *)
WaitsDouble ==
  \A i \in 1..Len(log) :
    LET p == log[i].provider
    IN /\ log[i].op = "sleep" =>
            /\ i - 1 \in AsksOf(p)
            /\ i < Len(log) => i + 1 \in AsksOf(p)
            /\ i = Len(log) => chat_pc \notin {"raised", "returned"}
            /\ log[i].seconds = 2 ^ (Cardinality(AsksBefore(p, i)) - 1)
       /\ i \in AsksOf(p) /\ i > 1 /\ log[i - 1].provider = p =>
            log[i - 1].op = "sleep"

(* A text is returned exactly when the last ask was answered and kept, and  *)
(* RuntimeError is raised only after every provider used up its tries.      *)
OutcomeIsJustified ==
  /\ chat_pc = "returned" <=>
       \E i \in 1..Len(log) : log[i].op = "ask" /\ log[i].outcome = "answered"
  /\ chat_pc = "returned" => log[Len(log)].op = "ask"
  /\ chat_pc = "raised" =>
       \A p \in 1..ProviderCount : Cardinality(AsksOf(p)) = MaxTries

=============================================================================
