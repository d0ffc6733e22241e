------------------------------ MODULE SimRound ------------------------------
(***************************************************************************)
(* Block building over the shared simulation cache: BlockBuild::run_build  *)
(* (crates/sim/src/task.rs), SharedSimEnv::sim_round (env/shared.rs) and   *)
(* the blocking task with its simulation threads (env/sim_env.rs), while   *)
(* the feeds write the cache.                                              *)
(*                                                                         *)
(* What the EVM makes of an item (its score and its gas) is chosen when    *)
(* its thread ends.  Host gas is accounted exactly as rollup gas and left  *)
(* out.  accept_aggregates cannot fail here: its checked removal repeats   *)
(* the check the simulation passed on the same fill state (see Market for  *)
(* orders with an output of amount zero).                                  *)
(***************************************************************************)
EXTENDS SimCache, Sequences

CONSTANTS
  Gas,            \* gas an item may use
  Score,          \* scores an item may reach
  MaxGas,         \* max_gas of the block
  MaxRounds,      \* bound on the rounds
  FeedsInRound,   \* whether the feeds write the cache during a round
  RoundTimesOut   \* whether the deadline may pass after run_build has polled
                  \* it and before sim_round polls it in its own select

ASSUME RoundAssumption ==
  /\ Gas \subseteq Nat /\ Score \subseteq Nat
  /\ MaxGas \in Nat /\ MaxRounds \in Nat
  /\ FeedsInRound \in BOOLEAN /\ RoundTimesOut \in BOOLEAN

VARIABLES
  stage,      \* where run_build is
  tasks,      \* the blocking tasks, the last one of the current round
  block,      \* items ingested, each with what was simulated for it
  gasUsed,    \* gas_used of the block
  applied     \* items whose state changes the environment has accepted

buildVars == <<stage, tasks, block, gasUsed, applied>>
vars == <<items, seen, disallowed, adding, reading, candidates, valid, never,
          condemned, newcomers, stage, tasks, block, gasUsed, applied>>

NoOutcome == [rank |-> 0, item |-> "none", score |-> 0, gas |-> 0]
TaskIds == DOMAIN tasks
Current == Len(tasks)
InRound == stage \in {"reading", "simulating"}

-----------------------------------------------------------------------------
Init ==
  /\ CacheInit
  /\ stage = "outer"
  /\ tasks = <<>>
  /\ block = <<>>
  /\ gasUsed = 0
  /\ applied = {}

(* The feeds and the cleaning, at any time or only between rounds.         *)
Feed ==
  /\ FeedsInRound \/ stage = "outer"
  /\ FeedNext
  /\ UNCHANGED buildVars

(* The loop of run_build begins a round if there is an item to simulate.   *)
StartRound ==
  /\ stage = "outer"
  /\ Current < MaxRounds
  /\ FeedsInRound \/ Unlocked
  /\ Ranks # {}
  /\ BeginRead
  /\ stage' = "reading"
  /\ UNCHANGED <<tasks, block, gasUsed, applied>>

(* An item that was applied to the environment has used its nonces up: it  *)
(* is not valid now, whether its balance or its nonces are judged first.   *)
Preflight ==
  /\ stage = "reading"
  /\ \/ \E rank \in DOMAIN candidates, verdict \in Verdict :
          /\ candidates[rank] \in applied => verdict # "now"
          /\ CheckEntry(rank, verdict)
          /\ UNCHANGED stage
     \/ /\ ReadError
        /\ stage' = "outer"
  /\ UNCHANGED <<tasks, block, gasUsed, applied>>

(* Mutant of GasAllowed: every item may use the gas of the whole block.    *)
WholeBlock == MaxGas

GasAllowed == MaxGas - gasUsed

(* The read ends and the valid items are handed to a blocking task.        *)
Spawn ==
  /\ stage = "reading"
  /\ EndRead
  /\ IF valid = {}
     THEN /\ stage' = "outer"
          /\ UNCHANGED tasks
     ELSE /\ stage' = "simulating"
          /\ tasks' = Append(tasks, [running |-> valid, sent |-> {}, best |-> NoOutcome,
                                     limit |-> GasAllowed, top |-> 0])
  /\ UNCHANGED <<block, gasUsed, applied>>

-----------------------------------------------------------------------------
Succeeds(task, outcome) == outcome.score > 0 /\ outcome.gas <= task.limit

(* A simulation thread ends.  Its outcome is sent to the blocking task; if *)
(* it failed, scores nothing or exceeds the gas, the entry that is now at  *)
(* the item's rank is removed from the cache.                              *)
ThreadEnds(t, entry) ==
  /\ entry \in tasks[t].running
  /\ \E score \in Score, gas \in Gas :
       LET outcome == [rank |-> entry[1], item |-> entry[2], score |-> score, gas |-> gas] IN
       IF Succeeds(tasks[t], outcome)
       THEN /\ tasks' = [tasks EXCEPT ![t].running = @ \ {entry},
                                      ![t].sent = @ \cup {outcome},
                                      ![t].top = IF score > @ THEN score ELSE @]
            /\ UNCHANGED storeVars
       ELSE /\ Unlocked
            /\ tasks' = [tasks EXCEPT ![t].running = @ \ {entry}]
            /\ Remove({entry[1]})
            /\ UNCHANGED disallowed
  /\ UNCHANGED <<adding, readVars, history, stage, block, gasUsed, applied>>

(* Mutant of Better: the last candidate wins.                              *)
LastWins(outcome, best) == TRUE

Better(outcome, best) == outcome.score > best.score

(* The blocking task receives a candidate and publishes the best one.      *)
Receive(t) ==
  /\ \E outcome \in tasks[t].sent :
       tasks' = [tasks EXCEPT
         ![t].sent = @ \ {outcome},
         ![t].best = IF Better(outcome, @) THEN outcome ELSE @]
  /\ UNCHANGED <<storeVars, adding, readVars, history, stage, block, gasUsed, applied>>

(* Mutant of Ended: the task waits for a candidate.                        *)
FoundOne(t) == tasks[t].running = {} /\ tasks[t].sent = {} /\ tasks[t].best # NoOutcome

(* The scope has joined its threads and the channel is closed and drained: *)
(* the task gives up its reference to the environment.                     *)
Ended(t) == tasks[t].running = {} /\ tasks[t].sent = {}

(* Mutant of Taken: the best entry of the cache is the simulated one.      *)
TopEntry(best) == IF Ranks = {} THEN {} ELSE {r \in Ranks : \A q \in Ranks : q <= r}

Taken(best) == Ranks \cap {best.rank}

(* Mutant of Committed: the state of the environment stays as it was.      *)
NotCommitted(best) == applied

Committed(best) == applied \cup {best.item}

(* Where run_build goes on: past the deadline it begins no round.          *)
After == IF Ended(Current) THEN "outer" ELSE "built"

(* After the select of sim_round: the item at the best outcome's rank is   *)
(* taken out of the cache; the environment must not be shared any more.    *)
Accept ==
  LET best == tasks[Current].best IN
  /\ IF best = NoOutcome
     THEN /\ stage' = After
          /\ UNCHANGED <<storeVars, block, gasUsed, applied>>
     ELSE /\ Unlocked
          /\ Remove(Taken(best))
          /\ UNCHANGED disallowed
          /\ \/ /\ Taken(best) = {}
                /\ stage' = After
                /\ UNCHANGED <<block, gasUsed, applied>>
             \/ /\ Taken(best) # {}
                /\ \E t \in TaskIds : tasks[t].running # {} \/ tasks[t].sent # {}
                /\ stage' = "panicked"
                /\ UNCHANGED <<block, gasUsed, applied>>
             \/ /\ Taken(best) # {}
                /\ \A t \in TaskIds : tasks[t].running = {} /\ tasks[t].sent = {}
                /\ stage' = After
                /\ \E r \in Taken(best) :
                     block' = Append(block, [item |-> items[r], simulated |-> best.item,
                                             gas |-> best.gas, score |-> best.score])
                /\ gasUsed' = gasUsed + best.gas
                /\ applied' = Committed(best)
  /\ UNCHANGED <<adding, readVars, history, tasks>>

RoundDone ==
  /\ stage = "simulating"
  /\ Ended(Current)
  /\ Accept

(* The deadline wins the select of sim_round, and its task goes on.        *)
RoundTimeout ==
  /\ RoundTimesOut
  /\ stage = "simulating"
  /\ ~Ended(Current)
  /\ Accept

(* The deadline of run_build: the round is dropped with whatever it was    *)
(* awaiting; a blocking task goes on by itself.                            *)
Deadline ==
  /\ stage \in {"outer", "reading", "simulating"}
  /\ stage' = "built"
  /\ reading' = "idle"
  /\ candidates' = NoItems
  /\ valid' = {}
  /\ never' = {}
  /\ UNCHANGED <<storeVars, adding, history, tasks, block, gasUsed, applied>>

Simulate(t) == \E entry \in tasks[t].running : ThreadEnds(t, entry)

Next ==
  \/ Feed
  \/ StartRound
  \/ Preflight
  \/ Spawn
  \/ \E t \in TaskIds : Simulate(t) \/ Receive(t)
  \/ RoundDone
  \/ RoundTimeout
  \/ Deadline

Spec == Init /\ [][Next]_vars

(* The feeds give the lock back, parking_lot's lock is eventually fair to  *)
(* whoever waits for it, checks and simulations are bounded by time        *)
(* limits, and the runtime polls what is ready.                            *)
FairSpec ==
  /\ Spec
  /\ WF_vars(EndAdd /\ UNCHANGED buildVars)
  /\ SF_vars(Preflight)
  /\ SF_vars(Spawn)
  /\ SF_vars(RoundDone)
  /\ \A t \in 1..MaxRounds :
       SF_vars(t \in TaskIds /\ Simulate(t)) /\ WF_vars(t \in TaskIds /\ Receive(t))

-----------------------------------------------------------------------------
TypeOK ==
  /\ CacheTypeOK
  /\ stage \in {"outer", "reading", "simulating", "built", "panicked"}
  /\ \A t \in TaskIds :
       /\ tasks[t].running \subseteq Rank \X Item
       /\ tasks[t].limit \in 0..MaxGas
       /\ tasks[t].top \in Score \cup {0}
  /\ gasUsed \in Nat
  /\ applied \subseteq Item

(* The block never holds more gas than its limit, although the items of a  *)
(* round are simulated in parallel, each against all that is left.         *)
GasWithinLimit == gasUsed <= MaxGas

(* The expectation "all of our simulations are done and cleaned up" in     *)
(* sim_round is met: what it takes out of the cache it can also apply.  It *)
(* fails when a candidate is published before the deadline of the select,  *)
(* whose task goes on and shares the environment.                          *)
SimsDropped == stage # "panicked"

(* What goes into the block is what was simulated, so the gas, the state   *)
(* and the fills that were accepted are those of the block's items.        *)
IncludedWasSimulated == \A i \in DOMAIN block : block[i].item = block[i].simulated

(* No item is included twice, even if the feeds offer it again.            *)
IncludedOnce ==
  \A i, j \in DOMAIN block : block[i].item = block[j].item => i = j

(* Of the candidates of a round the one of the highest score is included,  *)
(* in whatever order the threads end.                                      *)
BestIsIncluded ==
  [][block' # block => block'[Len(block')].score = tasks[Current].top]_vars

(* A round always ends by itself, without the help of the deadline, while  *)
(* the feeds keep writing: no thread, check or lock holds it up forever.   *)
RoundsEnd == InRound ~> ~InRound
=============================================================================
