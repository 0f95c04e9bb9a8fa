--------------------------- MODULE SwapCoordinator ---------------------------
(***************************************************************************)
(* The DomainSwapCoordinator of proxy/domain-swap-coordinator.ts: one      *)
(* chain of promises per compute domain.  A call of run() replaces the     *)
(* tail of the first domain's chain by a promise of its own and awaits the *)
(* promise it replaced, then does the same on the next domain; when its    *)
(* function ends, well or not, it resolves all its promises.               *)
(*                                                                         *)
(* The promises made on a domain are numbered from 1; number 0 stands for  *)
(* the resolved promise that an empty chain starts with.                   *)
(***************************************************************************)
EXTENDS Integers, Sequences, FiniteSets, Functions

CONSTANTS
  Calls,        \* calls of run()
  DomainKeys,   \* compute domains, the keys of tails
  Rank,         \* Rank[k]: the place of k in the string order of the keys
  DomainLists,  \* the domains arguments, in any order, with duplicates
  NoKey

ASSUME SwapAssumption ==
  /\ IsFiniteSet(DomainKeys)
  /\ Rank \in [DomainKeys -> 1..Cardinality(DomainKeys)]
  /\ \A k, m \in DomainKeys : Rank[k] = Rank[m] => k = m
  /\ DomainLists \subseteq Seq(DomainKeys) \ {<<>>}
  /\ NoKey \notin DomainKeys

VARIABLES
  stage,    \* how far each call is
  domains,  \* its argument
  joined,   \* the keys whose tail it has replaced
  awaits,   \* the key whose prior promise it awaits
  ticket,   \* ticket[c][k]: the number of the promise c has put on k
  tails,    \* tails[k]: the number of the last promise put on k
  resolved  \* resolved[k]: the promises of k that are resolved

swapVars == <<stage, domains, joined, awaits, ticket, tails, resolved>>

Keys(c) == Range(domains[c])

IsResolved(k, n) == n = 0 \/ n \in resolved[k]

(* Seeded fault: the keys are taken in the order they were given in.       *)
LeastKeyAsGiven(S, list) ==
  list[CHOOSE n \in DOMAIN list :
         list[n] \in S /\ \A m \in 1..(n - 1) : list[m] \notin S]

(* The next key of the sorted list without duplicates.                     *)
LeastKey(S, list) == CHOOSE k \in S : \A m \in S : Rank[k] <= Rank[m]

-----------------------------------------------------------------------------
SwapInit ==
  /\ stage = [c \in Calls |-> "idle"]
  /\ domains = [c \in Calls |-> <<>>]
  /\ joined = [c \in Calls |-> {}]
  /\ awaits = [c \in Calls |-> NoKey]
  /\ ticket = [c \in Calls |-> [k \in DomainKeys |-> 0]]
  /\ tails = [k \in DomainKeys |-> 0]
  /\ resolved = [k \in DomainKeys |-> {}]

(* tails.set(key, held): from here on the next caller awaits this promise. *)
Join(c, k) ==
  /\ ticket' = [ticket EXCEPT ![c][k] = tails[k] + 1]
  /\ tails' = [tails EXCEPT ![k] = @ + 1]
  /\ joined' = [joined EXCEPT ![c] = @ \cup {k}]
  /\ awaits' = [awaits EXCEPT ![c] = k]

Run(c, list) ==
  /\ stage[c] = "idle"
  /\ stage' = [stage EXCEPT ![c] = "queueing"]
  /\ domains' = [domains EXCEPT ![c] = list]
  /\ Join(c, LeastKey(Range(list), list))
  /\ UNCHANGED resolved

(* The prior promise of the awaited key.                                   *)
Prior(c) == ticket[c][awaits[c]] - 1

CanProceed(c) == stage[c] = "queueing" /\ IsResolved(awaits[c], Prior(c))

(* Seeded fault: the function runs once the first domain is held.          *)
ProceedAfterFirst(c) ==
  /\ CanProceed(c)
  /\ stage' = [stage EXCEPT ![c] = "running"]
  /\ UNCHANGED <<domains, joined, awaits, ticket, tails, resolved>>

(* await prior returns: the next key's turn, or the function's.            *)
Proceed(c) ==
  /\ CanProceed(c)
  /\ IF joined[c] = Keys(c)
     THEN /\ stage' = [stage EXCEPT ![c] = "running"]
          /\ UNCHANGED <<joined, awaits, ticket, tails>>
     ELSE /\ Join(c, LeastKey(Keys(c) \ joined[c], domains[c]))
          /\ UNCHANGED stage
  /\ UNCHANGED <<domains, resolved>>

(* Seeded faults: a promise of every chain is resolved, also where none was *)
(* made; only the first domain's promise is resolved.                      *)
FinishEverywhere(c) ==
  /\ stage[c] = "running"
  /\ stage' = [stage EXCEPT ![c] = "done"]
  /\ resolved' = [k \in DomainKeys |-> resolved[k] \cup {ticket[c][k]}]
  /\ UNCHANGED <<domains, joined, awaits, ticket, tails>>

FinishFirst(c) ==
  /\ stage[c] = "running"
  /\ stage' = [stage EXCEPT ![c] = "done"]
  /\ resolved' = [resolved EXCEPT
       ![LeastKey(Keys(c), domains[c])] = @ \cup {ticket[c][LeastKey(Keys(c), domains[c])]}]
  /\ UNCHANGED <<domains, joined, awaits, ticket, tails>>

(* The function returned or threw: the finally block.                      *)
Finish(c) ==
  /\ stage[c] = "running"
  /\ stage' = [stage EXCEPT ![c] = "done"]
  /\ resolved' = [k \in DomainKeys |->
       IF k \in Keys(c) THEN resolved[k] \cup {ticket[c][k]} ELSE resolved[k]]
  /\ UNCHANGED <<domains, joined, awaits, ticket, tails>>

SwapNext ==
  \E c \in Calls :
    \/ \E list \in DomainLists : Run(c, list)
    \/ Proceed(c)
    \/ Finish(c)

SwapSpec == SwapInit /\ [][SwapNext]_swapVars

(* The event loop runs the continuation of a resolved promise, and every   *)
(* readiness executor ends: its waits have time limits.                    *)
FairSwapSpec == SwapSpec /\ \A c \in Calls : WF_swapVars(Proceed(c)) /\ WF_swapVars(Finish(c))

-----------------------------------------------------------------------------
(* Properties.                                                             *)

(* Every variable holds a value of its type, and only promises that were   *)
(* made are resolved.                                                      *)
SwapTypeOK ==
  /\ stage \in [Calls -> {"idle", "queueing", "running", "done"}]
  /\ domains \in [Calls -> Seq(DomainKeys)]
  /\ joined \in [Calls -> SUBSET DomainKeys]
  /\ awaits \in [Calls -> DomainKeys \cup {NoKey}]
  /\ ticket \in [Calls -> [DomainKeys -> Nat]]
  /\ tails \in [DomainKeys -> Nat]
  /\ resolved \in [DomainKeys -> SUBSET Nat]
  /\ \A k \in DomainKeys : resolved[k] \subseteq 1..tails[k]

(* c got past key k: it awaits a later key, or its function runs or ended. *)
Passed(c, k) == k \in joined[c] /\ (awaits[c] # k \/ stage[c] \in {"running", "done"})

(* On every domain the calls take their turns in the order in which they   *)
(* joined the chain, each after all before it have finished.               *)
InOrder ==
  \A c, d \in Calls, k \in DomainKeys :
    k \in joined[c] /\ Passed(d, k) /\ ticket[c][k] < ticket[d][k] => stage[c] = "done"

(* No circular wait: while a call queues, some call can take a step.       *)
NoStuckCall ==
  (\E c \in Calls : stage[c] = "queueing") =>
    \E c \in Calls : stage[c] = "running" \/ CanProceed(c)

(* Turns are taken in order, and whoever queues there is a next one.       *)
TurnsAreTaken == InOrder /\ NoStuckCall

(* Every call gets its turn on all its domains.                            *)
EveryCallRuns == \A c \in Calls : stage[c] = "queueing" ~> stage[c] = "running"

(* Swaps on a shared domain never overlap: a call that runs holds every    *)
(* domain it asked for.                                                    *)
Claims == [c \in Calls |-> Range(domains[c])]

Exclusive == INSTANCE ExclusiveSwaps WITH Domains <- DomainKeys, claims <- Claims

ExclusiveSpec == Exclusive!Spec
==============================================================================
