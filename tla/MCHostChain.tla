---------------------------- MODULE MCHostChain ----------------------------
(***************************************************************************)
(* Instances of JournalSet, RollupChain and ZenithBlock, what follows a    *)
(* chain.  They share no state, so each behaviour has one of them move.    *)
(*                                                                         *)
(* JournalSet: two branches that part after genesis, another genesis, a    *)
(* journal that skips a height, and one on a journal that does not exist.  *)
(* RollupChain: the chains of mainnet, which has no USD, and of a genesis  *)
(* whose USDs have few or many decimals, one of them not permitted.        *)
(* ZenithBlock: data that is no list, and a list with junk in it.          *)
(***************************************************************************)
EXTENDS JournalSet, RollupChain, ZenithBlock

CONSTANTS alice, contract, nil, genesis, genesis2, a1, a2, a3, a4, b1, b2, b3, c2, c3, skips, orphan

MCJournal == {genesis, genesis2, a1, a2, a3, a4, b1, b2, b3, c2, c3, skips, orphan}
MCHash == MCJournal \cup {nil}
MCHeightOf ==
  [j \in MCJournal |-> CASE j \in {genesis, genesis2} -> 0
                         [] j \in {a1, b1} -> 1
                         [] j \in {a2, b2, c2, skips, orphan} -> 2
                         [] j \in {a3, b3, c3} -> 3
                         [] j = a4 -> 4]
MCPrevOf ==
  [j \in MCJournal |-> CASE j \in {genesis, genesis2, orphan} -> nil
                         [] j \in {a1, b1, skips} -> genesis
                         [] j \in {a2, c2} -> a1
                         [] j = b2 -> b1
                         [] j = b3 -> b2
                         [] j = c3 -> c2
                         [] j = a3 -> a2
                         [] j = a4 -> a3]

-----------------------------------------------------------------------------
HostGenesis ==
  [signetConstants |->
     System(1, 100, Append(Usds(6, 20), UsdRecord("dai", "DAI", 18)), 15)]

Permitted(usds) == {"wbtc", "weth", Native} \cup usds

MCPairs ==
  {[sys |-> s, permitted |-> Permitted({})] : s \in FromName("mainnet")}
    \cup {[sys |-> s, permitted |-> Permitted({"usdc", "usdt"})] :
             s \in FromGenesis(HostGenesis)}

MCRuBlocks ==
  {RuBlockSpec(<<>>, {}, {}), RuBlockSpec(<<"tx">>, {30000000}, {"builder"})}

(* Forks that are activated with the first blocks of either chain.         *)
MCRuGenesis ==
  [gasLimit |-> 1000, coinbase |-> "coinbase", alloc |-> "alloc",
   config |-> [byBlock |-> [f \in {"Homestead", "Dao", "London"} |->
                              IF f = "London" THEN 1 ELSE 0],
               byTime |-> [f \in {"Shanghai", "Cancun", "Bpo1", "Prague"} |->
                             CASE f = "Shanghai" -> 0
                               [] f = "Prague" -> 1224
                               [] OTHER -> 24],
               daoSupport |-> FALSE, ttdPassed |-> TRUE]]

NoList == [list |-> FALSE, items |-> <<>>]
WithJunk == [list |-> TRUE, items |-> <<"junk", "call", "blob">>]
MCForeign == {NoList, WithJunk}

-----------------------------------------------------------------------------
VARIABLE part   \* which of them moves

MCInit ==
  /\ Init /\ RollupInit /\ DataInit
  /\ part \in {"journals", "rollup", "data"}

Journals(A) == part = "journals" /\ A /\ UNCHANGED <<rollupVars, dataVars, part>>
Rollup(A) == part = "rollup" /\ A /\ UNCHANGED <<vars, dataVars, part>>
BlockData(A) == part = "data" /\ A /\ UNCHANGED <<vars, rollupVars, part>>

MCNext == Journals(Next) \/ Rollup(RollupNext) \/ BlockData(DataNext)

MCSpec == MCInit /\ [][MCNext]_<<vars, rollupVars, dataVars, part>>

MCTypeOK == TypeOK /\ FeedTypeOK
=============================================================================
