-------------------------- MODULE LLMGatewayProofs --------------------------
(***************************************************************************)
(* What LLMGateway guarantees for every number of providers and of tries.  *)
(* GatewayInv adds to the properties what the place of the coroutine says  *)
(* about the log: how often the current provider has been asked (Counts),  *)
(* and what the last entry is (LastEntry).                                 *)
(***************************************************************************)
EXTENDS LLMGateway, FiniteSetTheorems, TLAPS

Entry == Ask \union Sleep
Last == log[Len(log)]

AsksIn(lg, p) == {i \in 1..Len(lg) : lg[i].op = "ask" /\ lg[i].provider = p}
BeforeIn(lg, p, i) == {j \in AsksIn(lg, p) : j < i}

(* The providers before the current one are used up, the ones after it      *)
(* untouched, and attempt counts the tries of the current one.              *)
Counts ==
  /\ \A p \in 1..ProviderCount :
       /\ p < provider => Cardinality(AsksIn(log, p)) = MaxTries
       /\ p > provider => AsksIn(log, p) = {}
  /\ \A i \in 1..Len(log) : log[i].provider <= provider
  /\ Cardinality(AsksIn(log, provider)) <= MaxTries
  /\ chat_pc = "ask" => Cardinality(AsksIn(log, provider)) = attempt
  /\ chat_pc = "sleep" => /\ Cardinality(AsksIn(log, provider)) = attempt + 1
                          /\ attempt < MaxTries - 1
  /\ chat_pc = "raised" => /\ Cardinality(AsksIn(log, provider)) = MaxTries
                           /\ provider = ProviderCount

(* Nothing has been answered until the call returns.                        *)
Answers ==
  /\ chat_pc # "returned" =>
       \A i \in 1..Len(log) : log[i].op = "ask" => log[i].outcome # "answered"
  /\ chat_pc = "returned" =>
       log # <<>> /\ Last.op = "ask" /\ Last.outcome = "answered"

(* What the coroutine has just done.                                        *)
LastEntry ==
  /\ chat_pc = "ask" /\ attempt = 0 => log = <<>> \/ Last.provider < provider
  /\ chat_pc = "ask" /\ attempt > 0 => log # <<>> /\ Last.provider = provider
  /\ chat_pc = "ask" /\ log # <<>> /\ Last.provider = provider =>
       Last.op = "sleep"
  /\ chat_pc = "ask" /\ log # <<>> /\ Last.op = "sleep" =>
       Last.provider = provider
  /\ chat_pc = "sleep" =>
       log # <<>> /\ Last.op = "ask" /\ Last.provider = provider
  /\ chat_pc = "raised" => log # <<>> /\ Last.op = "ask"

GatewayInv ==
  /\ TypeOK /\ Counts /\ Answers /\ LastEntry
  /\ FallsBackInOrder /\ WaitsDouble

----------------------------------------------------------------------------

LEMMA AsksFinite ==
  ASSUME log \in Seq(Entry), NEW p
  PROVE  /\ IsFiniteSet(AsksIn(log, p))
         /\ Cardinality(AsksIn(log, p)) \in Nat
  <1>1. IsFiniteSet(1..Len(log))
    BY FS_Interval
  <1>2. AsksIn(log, p) \in SUBSET (1..Len(log))
    BY DEF AsksIn
  <1> QED
    BY <1>1, <1>2, FS_Subset, FS_CardinalityType

(* What a new entry does to the log and to the counts.                      *)
LEMMA EntryAdds ==
  ASSUME log \in Seq(Entry), NEW e \in Entry, log' = Append(log, e)
  PROVE  /\ log' \in Seq(Entry) /\ log' # <<>>
         /\ Len(log) \in Nat /\ Len(log') = Len(log) + 1
         /\ \A i \in 1..Len(log) : log'[i] = log[i]
         /\ log'[Len(log) + 1] = e
         /\ \A p : AsksIn(log', p) =
              IF e.op = "ask" /\ e.provider = p
              THEN AsksIn(log, p) \union {Len(log) + 1} ELSE AsksIn(log, p)
         /\ \A p : Cardinality(AsksIn(log', p)) =
              IF e.op = "ask" /\ e.provider = p
              THEN Cardinality(AsksIn(log, p)) + 1
              ELSE Cardinality(AsksIn(log, p))
         /\ \A p, i : i \in 1..Len(log) =>
              BeforeIn(log', p, i) = BeforeIn(log, p, i)
         /\ \A p : BeforeIn(log', p, Len(log) + 1) = AsksIn(log, p)
  <1>1. /\ log' \in Seq(Entry) /\ log' # <<>>
        /\ Len(log) \in Nat /\ Len(log') = Len(log) + 1
        /\ \A i \in 1..Len(log) : log'[i] = log[i]
        /\ log'[Len(log) + 1] = e
    OBVIOUS
  <1>2. 1..Len(log') = 1..Len(log) \union {Len(log) + 1}
    BY <1>1
  <1>3. ASSUME NEW p
        PROVE  AsksIn(log', p) =
                 IF e.op = "ask" /\ e.provider = p
                 THEN AsksIn(log, p) \union {Len(log) + 1} ELSE AsksIn(log, p)
    BY <1>1, <1>2 DEF AsksIn
  <1>4. ASSUME NEW p
        PROVE  Cardinality(AsksIn(log', p)) =
                 IF e.op = "ask" /\ e.provider = p
                 THEN Cardinality(AsksIn(log, p)) + 1
                 ELSE Cardinality(AsksIn(log, p))
    <2>1. IsFiniteSet(AsksIn(log, p))
      BY AsksFinite
    <2>2. Len(log) + 1 \notin AsksIn(log, p)
      BY <1>1 DEF AsksIn
    <2> QED
      BY <1>3, <2>1, <2>2, FS_AddElement
  <1>5. ASSUME NEW p, NEW i, i \in 1..Len(log)
        PROVE  BeforeIn(log', p, i) = BeforeIn(log, p, i)
    BY <1>1, <1>3, <1>5 DEF BeforeIn
  <1>6. ASSUME NEW p PROVE BeforeIn(log', p, Len(log) + 1) = AsksIn(log, p)
    <2>1. \A j \in AsksIn(log, p) : j < Len(log) + 1
      BY <1>1 DEF AsksIn
    <2> QED
      BY <1>1, <1>3, <2>1 DEF BeforeIn
  <1> QED
    BY <1>1, <1>3, <1>4, <1>5, <1>6

(* FallsBackInOrder and WaitsDouble, as operators of a log.                 *)
OrderOf(lg) ==
  /\ \A p \in 1..ProviderCount : Cardinality(AsksIn(lg, p)) <= MaxTries
  /\ \A i \in 1..Len(lg), p \in 1..ProviderCount :
       /\ p < lg[i].provider =>
            /\ Cardinality(BeforeIn(lg, p, i)) = MaxTries
            /\ \A j \in BeforeIn(lg, p, i) : lg[j].outcome # "answered"
       /\ p > lg[i].provider => BeforeIn(lg, p, i) = {}

WaitsOf(lg, ended) ==
  \A i \in 1..Len(lg) :
    /\ lg[i].op = "sleep" =>
         /\ i - 1 \in AsksIn(lg, lg[i].provider)
         /\ i < Len(lg) => i + 1 \in AsksIn(lg, lg[i].provider)
         /\ i = Len(lg) => ~ended
         /\ lg[i].seconds = 2 ^ (Cardinality(BeforeIn(lg, lg[i].provider, i)) - 1)
    /\ i \in AsksIn(lg, lg[i].provider) /\ i > 1
         /\ lg[i - 1].provider = lg[i].provider => lg[i - 1].op = "sleep"

LEMMA OrderIn ==
  /\ FallsBackInOrder <=> OrderOf(log)
  /\ FallsBackInOrder' <=> OrderOf(log')
  BY DEF FallsBackInOrder, AsksOf, AsksBefore, AsksIn, BeforeIn, OrderOf

LEMMA WaitsIn ==
  /\ WaitsDouble <=> WaitsOf(log, chat_pc \in {"raised", "returned"})
  /\ WaitsDouble' <=> WaitsOf(log', chat_pc' \in {"raised", "returned"})
  BY DEF WaitsDouble, AsksOf, AsksBefore, AsksIn, BeforeIn, WaitsOf

LEMMA GatewayInit == Init => GatewayInv
  <1> SUFFICES ASSUME Init PROVE GatewayInv
    OBVIOUS
  <1> USE GatewayAssumption DEF Init
  <1>1. \A p : AsksIn(log, p) = {}
    BY DEF AsksIn
  <1>2. \A p : Cardinality(AsksIn(log, p)) = 0
    BY <1>1, FS_EmptySet
  <1>3. TypeOK /\ Answers /\ LastEntry
    BY DEF TypeOK, Answers, LastEntry
  <1>4. Counts
    BY <1>1, <1>2 DEF Counts
  <1>5. FallsBackInOrder
    BY <1>1, <1>2, OrderIn DEF OrderOf
  <1>6. WaitsDouble
    BY DEF WaitsDouble
  <1> QED
    BY <1>3, <1>4, <1>5, <1>6 DEF GatewayInv

(* An ask of the current provider, made where an ask is due, keeps the      *)
(* order of providers and comes after a wait if it is not the first.        *)
LEMMA AskKeepsOrder ==
  ASSUME GatewayInv, chat_pc = "ask", NEW e \in Ask, e.provider = provider,
         log' = Append(log, e)
  PROVE  FallsBackInOrder' /\ WaitsDouble'
  <1> USE GatewayAssumption
  <1>0. /\ TypeOK /\ Counts /\ Answers /\ LastEntry
        /\ FallsBackInOrder /\ WaitsDouble /\ log \in Seq(Entry)
        /\ e \in Entry /\ e.op = "ask" /\ provider \in 1..ProviderCount
    BY DEF GatewayInv, TypeOK, Entry, Ask
  <1>1. /\ log' \in Seq(Entry) /\ log' # <<>>
        /\ Len(log) \in Nat /\ Len(log') = Len(log) + 1
        /\ \A i \in 1..Len(log) : log'[i] = log[i]
        /\ log'[Len(log) + 1] = e
        /\ \A p : AsksIn(log', p) =
             IF provider = p THEN AsksIn(log, p) \union {Len(log) + 1}
             ELSE AsksIn(log, p)
        /\ \A p : Cardinality(AsksIn(log', p)) =
             IF provider = p THEN Cardinality(AsksIn(log, p)) + 1
             ELSE Cardinality(AsksIn(log, p))
        /\ \A p, i : i \in 1..Len(log) =>
             BeforeIn(log', p, i) = BeforeIn(log, p, i)
        /\ \A p : BeforeIn(log', p, Len(log) + 1) = AsksIn(log, p)
    BY <1>0, EntryAdds
  <1>2. /\ attempt \in 0..(MaxTries - 1)
        /\ Cardinality(AsksIn(log, provider)) = attempt
    BY <1>0 DEF TypeOK, Counts
  <1>3. ASSUME NEW p \in 1..ProviderCount
        PROVE  Cardinality(AsksIn(log', p)) <= MaxTries
    BY <1>0, <1>1, <1>2, OrderIn DEF OrderOf
  <1>4. ASSUME NEW p \in 1..ProviderCount, NEW i \in 1..Len(log')
        PROVE  /\ p < log'[i].provider =>
                    /\ Cardinality(BeforeIn(log', p, i)) = MaxTries
                    /\ \A j \in BeforeIn(log', p, i) :
                         log'[j].outcome # "answered"
               /\ p > log'[i].provider => BeforeIn(log', p, i) = {}
    <2>1. CASE i \in 1..Len(log)
      <3>1. /\ p < log[i].provider =>
                 /\ Cardinality(BeforeIn(log, p, i)) = MaxTries
                 /\ \A j \in BeforeIn(log, p, i) : log[j].outcome # "answered"
            /\ p > log[i].provider => BeforeIn(log, p, i) = {}
        BY <1>0, <2>1, OrderIn DEF OrderOf
      <3>2. BeforeIn(log, p, i) \subseteq 1..Len(log)
        BY DEF BeforeIn, AsksIn
      <3> QED
        BY <1>1, <2>1, <3>1, <3>2
    <2>2. CASE i = Len(log) + 1
      <3>1. \A j \in AsksIn(log, p) :
              /\ log'[j] = log[j] /\ log[j].outcome # "answered"
        BY <1>0, <1>1 DEF AsksIn, Answers
      <3> QED
        BY <1>0, <1>1, <2>2, <3>1 DEF Counts
    <2>3. i \in 1..Len(log) \/ i = Len(log) + 1
      BY <1>1
    <2> QED
      BY <2>1, <2>2, <2>3
  <1>5. FallsBackInOrder'
    BY <1>3, <1>4, OrderIn DEF OrderOf
  <1>6. ASSUME NEW i \in 1..Len(log')
        PROVE  LET p == log'[i].provider
               IN /\ log'[i].op = "sleep" =>
                       /\ i - 1 \in AsksIn(log', p)
                       /\ i < Len(log') => i + 1 \in AsksIn(log', p)
                       /\ i # Len(log')
                       /\ log'[i].seconds =
                            2 ^ (Cardinality(BeforeIn(log', p, i)) - 1)
                  /\ i \in AsksIn(log', p) /\ i > 1
                       /\ log'[i - 1].provider = p => log'[i - 1].op = "sleep"
    <2> DEFINE p == log[i].provider
    <2>1. CASE i \in 1..Len(log)
      <3>1. /\ log[i].op = "sleep" =>
                 /\ i - 1 \in AsksIn(log, p)
                 /\ i < Len(log) => i + 1 \in AsksIn(log, p)
                 /\ log[i].seconds = 2 ^ (Cardinality(BeforeIn(log, p, i)) - 1)
            /\ i \in AsksIn(log, p) /\ i > 1 /\ log[i - 1].provider = p =>
                 log[i - 1].op = "sleep"
        BY <1>0, <2>1, WaitsIn DEF WaitsOf
      <3>2. log'[i] = log[i] /\ i # Len(log')
            /\ (i > 1 => log'[i - 1] = log[i - 1])
        BY <1>1, <2>1
      <3>3. i \in AsksIn(log', p) <=> i \in AsksIn(log, p)
        BY <1>1, <2>1
      <3>4. log[i].op = "sleep" /\ i = Len(log) => p = provider
        BY <1>0, <2>1 DEF LastEntry, Last
      <3>5. BeforeIn(log', p, i) = BeforeIn(log, p, i)
            /\ AsksIn(log, p) \subseteq AsksIn(log', p)
        BY <1>1, <2>1
      <3>6. log[i].op = "sleep" => i + 1 \in AsksIn(log', p)
        BY <1>1, <2>1, <3>1, <3>4, <3>5
      <3> QED
        BY <3>1, <3>2, <3>3, <3>5, <3>6
    <2>2. CASE i = Len(log) + 1
      <3>1. log'[i] = e /\ (i > 1 => log # <<>> /\ log'[i - 1] = Last)
        BY <1>1, <2>2 DEF Last
      <3> QED
        BY <1>0, <2>2, <3>1 DEF LastEntry
    <2> QED
      BY <1>1, <2>1, <2>2
  <1>7. WaitsDouble'
    BY <1>6, WaitsIn DEF WaitsOf
  <1> QED
    BY <1>5, <1>7

(* So does a wait after a try that failed and was not the last.             *)
LEMMA WaitKeepsOrder ==
  ASSUME GatewayInv, Wake
  PROVE  FallsBackInOrder' /\ WaitsDouble' /\ Counts' /\ log' \in Seq(Entry)
  <1> USE GatewayAssumption
  <1> DEFINE e == [op |-> "sleep", provider |-> provider, seconds |-> Backoff]
  <1>0. /\ TypeOK /\ Counts /\ Answers /\ LastEntry
        /\ FallsBackInOrder /\ WaitsDouble /\ log \in Seq(Entry)
        /\ provider \in 1..ProviderCount /\ attempt \in Nat
        /\ chat_pc = "sleep" /\ chat_pc' = "ask"
        /\ attempt' = attempt + 1 /\ provider' = provider
        /\ attempt \in 0..(MaxTries - 2)
        /\ Cardinality(AsksIn(log, provider)) = attempt + 1
        /\ log # <<>> /\ Last.op = "ask" /\ Last.provider = provider
    BY DEF GatewayInv, TypeOK, Entry, Wake, Counts, LastEntry
  <1>e. e \in Entry /\ e.op = "sleep" /\ log' = Append(log, e)
    BY <1>0 DEF Wake, Entry, Sleep, Backoff
  <1>1. /\ log' \in Seq(Entry) /\ log' # <<>>
        /\ Len(log) \in Nat /\ Len(log') = Len(log) + 1
        /\ \A i \in 1..Len(log) : log'[i] = log[i]
        /\ log'[Len(log) + 1] = e
        /\ \A p : AsksIn(log', p) = AsksIn(log, p)
        /\ \A p : Cardinality(AsksIn(log', p)) = Cardinality(AsksIn(log, p))
        /\ \A p, i : i \in 1..Len(log) =>
             BeforeIn(log', p, i) = BeforeIn(log, p, i)
        /\ \A p : BeforeIn(log', p, Len(log) + 1) = AsksIn(log, p)
    BY <1>0, <1>e, EntryAdds
  <1>2. \A i \in 1..Len(log') : i \in 1..Len(log) \/ i = Len(log) + 1
    BY <1>1
  <1>3. Len(log) \in AsksIn(log, provider) /\ Len(log) >= 1
    BY <1>0 DEF Last, AsksIn
  <1>4. Counts'
    BY <1>0, <1>1, <1>2 DEF Counts
  <1>5. ASSUME NEW p \in 1..ProviderCount, NEW i \in 1..Len(log')
        PROVE  /\ p < log'[i].provider =>
                    /\ Cardinality(BeforeIn(log', p, i)) = MaxTries
                    /\ \A j \in BeforeIn(log', p, i) :
                         log'[j].outcome # "answered"
               /\ p > log'[i].provider => BeforeIn(log', p, i) = {}
    <2>1. CASE i \in 1..Len(log)
      <3>1. /\ p < log[i].provider =>
                 /\ Cardinality(BeforeIn(log, p, i)) = MaxTries
                 /\ \A j \in BeforeIn(log, p, i) : log[j].outcome # "answered"
            /\ p > log[i].provider => BeforeIn(log, p, i) = {}
        BY <1>0, <2>1, OrderIn DEF OrderOf
      <3>2. BeforeIn(log, p, i) \subseteq 1..Len(log)
        BY DEF BeforeIn, AsksIn
      <3> QED
        BY <1>1, <2>1, <3>1, <3>2
    <2>2. CASE i = Len(log) + 1
      <3>1. \A j \in AsksIn(log, p) :
              /\ log'[j] = log[j] /\ log[j].outcome # "answered"
        BY <1>0, <1>1 DEF AsksIn, Answers
      <3> QED
        BY <1>0, <1>1, <2>2, <3>1 DEF Counts
    <2> QED
      BY <1>2, <2>1, <2>2
  <1>6. FallsBackInOrder'
    <2>1. \A p \in 1..ProviderCount : Cardinality(AsksIn(log', p)) <= MaxTries
      BY <1>0, <1>1, OrderIn DEF OrderOf
    <2> QED
      BY <1>5, <2>1, OrderIn DEF OrderOf
  <1>7. ASSUME NEW i \in 1..Len(log')
        PROVE  LET p == log'[i].provider
               IN /\ log'[i].op = "sleep" =>
                       /\ i - 1 \in AsksIn(log', p)
                       /\ i < Len(log') => i + 1 \in AsksIn(log', p)
                       /\ log'[i].seconds =
                            2 ^ (Cardinality(BeforeIn(log', p, i)) - 1)
                  /\ i \in AsksIn(log', p) /\ i > 1
                       /\ log'[i - 1].provider = p => log'[i - 1].op = "sleep"
    <2> DEFINE p == log[i].provider
    <2>1. CASE i \in 1..Len(log)
      <3>1. /\ log[i].op = "sleep" =>
                 /\ i - 1 \in AsksIn(log, p)
                 /\ i < Len(log) => i + 1 \in AsksIn(log, p)
                 /\ log[i].seconds = 2 ^ (Cardinality(BeforeIn(log, p, i)) - 1)
            /\ i \in AsksIn(log, p) /\ i > 1 /\ log[i - 1].provider = p =>
                 log[i - 1].op = "sleep"
        BY <1>0, <2>1, WaitsIn DEF WaitsOf
      <3>2. log'[i] = log[i] /\ (i > 1 => log'[i - 1] = log[i - 1])
        BY <1>1, <2>1
      <3>3. log[i].op = "sleep" => i # Len(log)
        BY <1>0 DEF Last
      <3> QED
        BY <1>1, <2>1, <3>1, <3>2, <3>3
    <2>2. CASE i = Len(log) + 1
      <3>1. log'[i] = e /\ i - 1 = Len(log) /\ i \notin AsksIn(log', provider)
        BY <1>1, <2>2 DEF AsksIn
      <3>2. (attempt + 1) - 1 = attempt
        BY <1>0
      <3> QED
        BY <1>0, <1>1, <1>3, <2>2, <3>1, <3>2 DEF Backoff
    <2> QED
      BY <1>2, <2>1, <2>2
  <1>8. WaitsDouble'
    BY <1>0, <1>7, WaitsIn DEF WaitsOf
  <1> QED
    BY <1>1, <1>4, <1>6, <1>8

(* Every step of the call keeps the invariant.                              *)
LEMMA GatewayStep == GatewayInv /\ [Next]_chatVars => GatewayInv'
  <1> SUFFICES ASSUME GatewayInv, [Next]_chatVars PROVE GatewayInv'
    OBVIOUS
  <1> USE GatewayAssumption
  <1>0. /\ TypeOK /\ Counts /\ Answers /\ LastEntry
        /\ FallsBackInOrder /\ WaitsDouble /\ log \in Seq(Entry)
        /\ provider \in 1..ProviderCount /\ attempt \in 0..(MaxTries - 1)
    BY DEF GatewayInv, TypeOK, Entry
  <1>a. ASSUME NEW o \in {"failed", "answered", "lost"}, Asked(o),
               chat_pc = "ask"
        PROVE  /\ FallsBackInOrder' /\ WaitsDouble' /\ log' \in Seq(Entry)
               /\ log' # <<>> /\ Len(log') = Len(log) + 1 /\ Len(log) \in Nat
               /\ \A i \in 1..Len(log) : log'[i] = log[i]
               /\ Last' = [op |-> "ask", provider |-> provider, outcome |-> o]
               /\ \A p : Cardinality(AsksIn(log', p)) =
                    IF provider = p THEN attempt + 1
                    ELSE Cardinality(AsksIn(log, p))
               /\ \A p : p # provider => AsksIn(log', p) = AsksIn(log, p)
    <2> DEFINE e == [op |-> "ask", provider |-> provider, outcome |-> o]
    <2>1. e \in Ask /\ e \in Entry /\ log' = Append(log, e)
      BY <1>0, <1>a DEF Asked, Ask, Entry
    <2>2. e.op = "ask" /\ e.provider = provider
      OBVIOUS
    <2>3. FallsBackInOrder' /\ WaitsDouble'
      BY <1>a, <2>1, <2>2, AskKeepsOrder
    <2>4. Cardinality(AsksIn(log, provider)) = attempt
      BY <1>0, <1>a DEF Counts
    <2>5. /\ log' \in Seq(Entry) /\ log' # <<>>
          /\ Len(log) \in Nat /\ Len(log') = Len(log) + 1
          /\ \A i \in 1..Len(log) : log'[i] = log[i]
          /\ log'[Len(log) + 1] = e
      BY <1>0, <2>1, EntryAdds
    <2>6. /\ \A p : AsksIn(log', p) =
               IF provider = p
               THEN AsksIn(log, p) \union {Len(log) + 1} ELSE AsksIn(log, p)
          /\ \A p : Cardinality(AsksIn(log', p)) =
               IF provider = p THEN Cardinality(AsksIn(log, p)) + 1
               ELSE Cardinality(AsksIn(log, p))
      BY <1>0, <2>1, <2>2, EntryAdds
    <2> QED
      BY <2>3, <2>4, <2>5, <2>6 DEF Last
  <1>1. CASE Answered
    <2>1. Asked("answered") /\ chat_pc = "ask" /\ chat_pc' = "returned"
          /\ UNCHANGED <<provider, attempt>>
      BY <1>1 DEF Answered
    <2>2. TypeOK'
      BY <1>0, <1>a, <2>1 DEF TypeOK, Entry
    <2>3. Counts'
      <3>1. \A i \in 1..Len(log') : i \in 1..Len(log) \/ i = Len(log')
        BY <1>a, <2>1
      <3>2. Cardinality(AsksIn(log', provider)) <= MaxTries
        BY <1>0, <1>a, <2>1
      <3>3. \A i \in 1..Len(log') : log'[i].provider <= provider'
        BY <1>0, <1>a, <2>1, <3>1 DEF Counts, Last
      <3>4. \A p \in 1..ProviderCount :
              /\ p < provider' => Cardinality(AsksIn(log', p)) = MaxTries
              /\ p > provider' => AsksIn(log', p) = {}
        BY <1>0, <1>a, <2>1 DEF Counts
      <3> QED
        BY <2>1, <3>2, <3>3, <3>4 DEF Counts
    <2>4. Answers' /\ LastEntry'
      BY <1>0, <1>a, <2>1 DEF Answers, LastEntry
    <2> QED
      BY <1>a, <2>1, <2>2, <2>3, <2>4 DEF GatewayInv
  <1>2. CASE Failed
    <2>1. PICK o \in {"failed", "lost"} : Asked(o)
      BY <1>2 DEF Failed
    <2>2. /\ FallsBackInOrder' /\ WaitsDouble' /\ log' \in Seq(Entry)
          /\ log' # <<>> /\ Len(log') = Len(log) + 1 /\ Len(log) \in Nat
          /\ \A i \in 1..Len(log) : log'[i] = log[i]
          /\ Last' = [op |-> "ask", provider |-> provider, outcome |-> o]
          /\ \A p : Cardinality(AsksIn(log', p)) =
               IF provider = p THEN attempt + 1
               ELSE Cardinality(AsksIn(log, p))
          /\ \A p : p # provider => AsksIn(log', p) = AsksIn(log, p)
      BY <1>a, <1>2, <2>1 DEF Failed
    <2>3. \A i \in 1..Len(log') :
            \/ i \in 1..Len(log) /\ log'[i] = log[i]
            \/ log'[i] = [op |-> "ask", provider |-> provider, outcome |-> o]
      BY <2>2 DEF Last
    <2>4. chat_pc = "ask" /\ chat_pc' # "returned"
      BY <1>2 DEF Failed, FallBack
    <2>5. Answers'
      BY <1>0, <2>3, <2>4 DEF Answers
    <2>6. CASE MoreTries /\ chat_pc' = "sleep" /\ UNCHANGED <<provider, attempt>>
      <3>1. TypeOK'
        BY <1>0, <2>2, <2>6 DEF TypeOK, Entry
      <3>2. Counts'
        BY <1>0, <2>2, <2>3, <2>6 DEF Counts, MoreTries
      <3>3. LastEntry'
        BY <2>2, <2>6 DEF LastEntry
      <3> QED
        BY <2>2, <2>5, <3>1, <3>2, <3>3 DEF GatewayInv
    <2>7. CASE ~MoreTries /\ HasFallback /\ FallBack
      <3>1. /\ attempt = MaxTries - 1 /\ provider < ProviderCount
            /\ provider' = provider + 1 /\ attempt' = 0 /\ chat_pc' = "ask"
        BY <1>0, <2>7 DEF MoreTries, HasFallback, FallBack
      <3>2. TypeOK'
        BY <1>0, <2>2, <3>1 DEF TypeOK, Entry
      <3>3. AsksIn(log', provider') = {} /\ Cardinality(AsksIn(log', provider')) = 0
        <4>1. provider' \in 1..ProviderCount /\ provider' > provider
          BY <1>0, <3>1
        <4>2. AsksIn(log, provider') = {}
          BY <1>0, <4>1 DEF Counts
        <4>3. provider' # provider
          BY <1>0, <3>1
        <4>4. AsksIn(log', provider') = {}
          BY <2>2, <4>2, <4>3
        <4> QED
          BY <4>4, FS_EmptySet
      <3>4. Counts'
        <4>1. \A i \in 1..Len(log') : log'[i].provider <= provider'
          BY <1>0, <2>3, <3>1 DEF Counts, Entry, Ask, Sleep
        <4>2. \A p \in 1..ProviderCount :
                /\ p < provider' => Cardinality(AsksIn(log', p)) = MaxTries
                /\ p > provider' => AsksIn(log', p) = {}
          BY <1>0, <2>2, <3>1 DEF Counts
        <4> QED
          BY <3>1, <3>3, <4>1, <4>2 DEF Counts
      <3>5. LastEntry'
        BY <1>0, <2>2, <3>1 DEF LastEntry
      <3> QED
        BY <2>2, <2>5, <3>2, <3>4, <3>5 DEF GatewayInv
    <2>8. CASE ~MoreTries /\ ~HasFallback /\ chat_pc' = "raised"
               /\ UNCHANGED <<provider, attempt>>
      <3>1. attempt = MaxTries - 1 /\ provider = ProviderCount
        BY <1>0, <2>8 DEF MoreTries, HasFallback
      <3>2. TypeOK'
        BY <1>0, <2>2, <2>8 DEF TypeOK, Entry
      <3>3. Counts'
        BY <1>0, <2>2, <2>3, <2>8, <3>1 DEF Counts
      <3>4. LastEntry'
        BY <2>2, <2>8 DEF LastEntry
      <3> QED
        BY <2>2, <2>5, <3>2, <3>3, <3>4 DEF GatewayInv
    <2> QED
      BY <1>2, <2>6, <2>7, <2>8 DEF Failed
  <1>3. CASE Wake
    <2> DEFINE e == [op |-> "sleep", provider |-> provider, seconds |-> Backoff]
    <2>1. FallsBackInOrder' /\ WaitsDouble' /\ Counts' /\ log' \in Seq(Entry)
      BY <1>3, WaitKeepsOrder
    <2>2. /\ log' = Append(log, e) /\ chat_pc' = "ask"
          /\ attempt' = attempt + 1 /\ provider' = provider
          /\ attempt < MaxTries - 1 /\ chat_pc = "sleep"
      BY <1>0, <1>3 DEF Wake, Counts
    <2>3. TypeOK'
      BY <1>0, <2>1, <2>2 DEF TypeOK, Entry
    <2>4. /\ \A i \in 1..Len(log') :
               (i \in 1..Len(log) /\ log'[i] = log[i]) \/ log'[i] = e
          /\ log' # <<>> /\ Last' = e
      BY <1>0, <2>2 DEF Last
    <2>5. Answers'
      BY <1>0, <2>2, <2>4 DEF Answers
    <2>6. LastEntry'
      BY <1>0, <2>2, <2>4 DEF LastEntry
    <2> QED
      BY <2>1, <2>3, <2>5, <2>6 DEF GatewayInv
  <1>4. ASSUME UNCHANGED <<provider, attempt, log>>,
               \/ chat_pc' = chat_pc
               \/ chat_pc # "returned" /\ chat_pc' = "cancelled"
        PROVE  GatewayInv'
    <2>1. TypeOK'
      BY <1>0, <1>4 DEF TypeOK
    <2>2. Counts' /\ LastEntry'
      BY <1>0, <1>4 DEF Counts, LastEntry, Last
    <2>3. Answers'
      BY <1>0, <1>4 DEF Answers, Last
    <2>4. FallsBackInOrder'
      BY <1>0, <1>4, OrderIn
    <2>5. WaitsDouble'
      <3>1. chat_pc' \in {"raised", "returned"} =>
              chat_pc \in {"raised", "returned"}
        BY <1>4
      <3> QED
        BY <1>0, <1>4, <3>1, WaitsIn DEF WaitsOf
    <2> QED
      BY <2>1, <2>2, <2>3, <2>4, <2>5 DEF GatewayInv
  <1>5. CASE Cancelled
    BY <1>4, <1>5 DEF Cancelled
  <1>6. CASE UNCHANGED chatVars
    BY <1>4, <1>6 DEF chatVars
  <1> QED
    BY <1>1, <1>2, <1>3, <1>5, <1>6 DEF Next, Work

(* The invariant holds throughout a call.                                   *)
THEOREM GatewayInvariant == Spec => []GatewayInv
  <1> QED
    BY GatewayInit, GatewayStep, PTL DEF Spec

(* A call keeps its types: no provider beyond the last is ever reached for, *)
(* no try beyond the third is begun, no wait is longer than the last but    *)
(* one try calls for.                                                       *)
THEOREM TypeCorrect == Spec => []TypeOK
  <1>1. GatewayInv => TypeOK
    BY DEF GatewayInv
  <1> QED
    BY <1>1, GatewayInvariant, PTL

(* Providers are taken in order, each asked at most MaxTries times, and one *)
(* is fallen back to only when all before it were used up in vain.          *)
THEOREM ProvidersInOrder == Spec => []FallsBackInOrder
  <1>1. GatewayInv => FallsBackInOrder
    BY DEF GatewayInv
  <1> QED
    BY <1>1, GatewayInvariant, PTL

(* The waits stand between two tries of one provider, one wait between any  *)
(* two, and double from one second on.                                      *)
THEOREM WaitsAreDoubling == Spec => []WaitsDouble
  <1>1. GatewayInv => WaitsDouble
    BY DEF GatewayInv
  <1> QED
    BY <1>1, GatewayInvariant, PTL

(* A text is returned exactly when the last ask was answered and kept, and  *)
(* an error is raised only when every provider used up its tries.           *)
THEOREM OutcomesAreJustified == Spec => []OutcomeIsJustified
  <1>1. GatewayInv => OutcomeIsJustified
    <2> SUFFICES ASSUME GatewayInv PROVE OutcomeIsJustified
      OBVIOUS
    <2>1. TypeOK /\ Counts /\ Answers /\ LastEntry /\ log \in Seq(Entry)
      BY DEF GatewayInv, TypeOK, Entry
    <2>2. log # <<>> => Len(log) \in 1..Len(log)
      BY <2>1
    <2>3. chat_pc = "returned" <=>
            \E i \in 1..Len(log) : log[i].op = "ask" /\ log[i].outcome = "answered"
      BY <2>1, <2>2 DEF Answers, Last
    <2>4. chat_pc = "returned" => log[Len(log)].op = "ask"
      BY <2>1 DEF Answers, Last
    <2>5. chat_pc = "raised" =>
            \A p \in 1..ProviderCount : Cardinality(AsksIn(log, p)) = MaxTries
      BY <2>1, GatewayAssumption DEF Counts, TypeOK
    <2> QED
      BY <2>3, <2>4, <2>5 DEF OutcomeIsJustified, AsksOf, AsksIn
  <1> QED
    BY <1>1, GatewayInvariant, PTL
=============================================================================
