--------------------------- MODULE SystemConstants ---------------------------
(***************************************************************************)
(* The constants of a pair of chains (crates/constants): where the system  *)
(* contracts of the host chain and the rollup are, which tokens cross the  *)
(* bridge, and how the heights of the two chains correspond.  An address   *)
(* is named for its role; ticker and chain names are strings; the slot     *)
(* parameters, which only calculate times, are left out.                   *)
(*                                                                         *)
(* An Option is a set of at most one value.                                *)
(***************************************************************************)
EXTENDS Integers, SequencesExt

(* NATIVE_TOKEN_ADDRESS and MINTER_ADDRESS.                                *)
Native == "native"
Minter == "minter"

HostPermitted == {"USDC", "USDT", "WBTC", "WETH"}
RollupPermitted == {"USD", "WBTC", "WETH"}
ToRollup(token) == IF token \in {"USDC", "USDT"} THEN "USD" ELSE token

(* UsdRecords, a list: push panics, and deserialising fails, beyond the    *)
(* capacity.                                                               *)
UsdCapacity == 5
UsdRecord(address, ticker, decimals) ==
  [address |-> address, ticker |-> ticker, decimals |-> decimals]

-----------------------------------------------------------------------------
(* HostTokens.                                                             *)
FirstOf(tokens, records) ==
  LET at == {i \in DOMAIN tokens.usds : tokens.usds[i] \in records}
  IN  {tokens.usds[i] : i \in {j \in at : \A k \in at : j <= k}}

UsdRecordOf(tokens, address) ==
  FirstOf(tokens, {r \in Range(tokens.usds) : r.address = address})
IsUsd(tokens, address) == UsdRecordOf(tokens, address) # {}
IsEth(tokens, address) == address \in {tokens.weth, Native}

(* HostTokens::token_for; a USD with another ticker is not permitted.      *)
TokenFor(tokens, address) ==
  IF address = tokens.wbtc THEN {"WBTC"}
  ELSE IF IsEth(tokens, address) THEN {"WETH"}
  ELSE {r.ticker : r \in UsdRecordOf(tokens, address)} \cap {"USDC", "USDT"}

(* HostTokens::address_for; empty where the code panics.                   *)
HostAddressFor(tokens, token) ==
  CASE token = "WBTC" -> {tokens.wbtc}
    [] token = "WETH" -> {tokens.weth}
    [] OTHER ->
         {r.address : r \in FirstOf(tokens, {u \in Range(tokens.usds) : u.ticker = token})}

(* RollupTokens.  Nothing on the rollup stands for USD but the native      *)
(* asset, whose address token_for nevertheless reads as WETH.              *)
RollupTokenFor(tokens, address) ==
  IF address = tokens.wbtc THEN {"WBTC"}
  ELSE IF address \in {tokens.weth, Native} THEN {"WETH"} ELSE {}
RollupAddressFor(tokens, token) ==
  CASE token = "WBTC" -> tokens.wbtc
    [] token = "WETH" -> tokens.weth
    [] token = "USD" -> Native

-----------------------------------------------------------------------------
(* SignetSystemConstants: sys is [host, rollup].                           *)

(* Mutant of IsHostToken: the function of that name on HostTokens, for     *)
(* which any USD record counts, whatever its ticker.                       *)
IsRecordedToken(sys, address) ==
  \/ address = sys.host.tokens.wbtc
  \/ IsEth(sys.host.tokens, address)
  \/ IsUsd(sys.host.tokens, address)

(* SignetSystemConstants::is_host_token, through HostTokens::is_token.     *)
IsHostToken(sys, address) == TokenFor(sys.host.tokens, address) # {}

RollupAddressFromHost(sys, address) ==
  {RollupAddressFor(sys.rollup.tokens, ToRollup(t)) :
     t \in TokenFor(sys.host.tokens, address)}

OrdersFor(sys, chainId) ==
  IF chainId = sys.host.chainId THEN {sys.host.orders}
  ELSE IF chainId = sys.rollup.chainId THEN {sys.rollup.orders} ELSE {}

HostContracts(sys) ==
  {sys.host.zenith, sys.host.orders, sys.host.passage, sys.host.transactor}
RollupContracts(sys) == {sys.rollup.orders, sys.rollup.passage}

(* Block numbers of the two chains differ by the deploy height.            *)
ToHostHeight(sys, rollup) == rollup + sys.host.deployHeight
ToRollupHeight(sys, host) ==
  IF host < sys.host.deployHeight THEN {} ELSE {host - sys.host.deployHeight}
PairRu(sys, rollup) == [host |-> ToHostHeight(sys, rollup), rollup |-> rollup]
PairHost(sys, host) ==
  {[host |-> host, rollup |-> r] : r \in ToRollupHeight(sys, host)}

-----------------------------------------------------------------------------
(* The chains known by name.                                               *)
HostConstants(chainId, deployHeight, usds) ==
  [chainId |-> chainId, deployHeight |-> deployHeight,
   zenith |-> "zenith", orders |-> "orders", passage |-> "passage",
   transactor |-> "transactor",
   tokens |-> [usds |-> usds, wbtc |-> "wbtc", weth |-> "weth"]]

RollupConstants(chainId) ==
  [chainId |-> chainId, orders |-> "ruOrders", passage |-> "ruPassage",
   baseFeeRecipient |-> "baseFee",
   tokens |-> [wbtc |-> "ruWbtc", weth |-> "ruWeth"]]

Usds(usdcDecimals, usdtDecimals) ==
  <<UsdRecord("usdc", "USDC", usdcDecimals),
    UsdRecord("usdt", "USDT", usdtDecimals)>>

System(hostChainId, deployHeight, usds, ruChainId) ==
  [host |-> HostConstants(hostChainId, deployHeight, usds),
   rollup |-> RollupConstants(ruChainId)]

(* The records of mainnet's USDs are declared but not in its list.         *)
Mainnet == System(1, 0, <<>>, 519)
Parmigiana == System(3151908, 0, Usds(6, 6), 88888)
Gouda == System(3151908, 1143386, Usds(6, 6), 792669)
Pecorino == System(3151908, 366, Usds(6, 6), 14174)
Test == System(1, 100, Usds(6, 12), 15)

(* FromStr and TryFrom<KnownChains>, the same for every kind of constants. *)
KnownChains == {"mainnet", "parmigiana", "gouda", "pecorino", "test"}
FromName(name) ==
  CASE name = "mainnet" -> {Mainnet}
    [] name = "parmigiana" -> {Parmigiana}
    [] name = "gouda" -> {Gouda}
    [] name = "pecorino" -> {Pecorino}
    [] name = "test" -> {Test}
    [] OTHER -> {}
HostFromName(name) == {sys.host : sys \in FromName(name)}
RollupFromName(name) == {sys.rollup : sys \in FromName(name)}

(* try_from_genesis: the constants under signetConstants, or a part of     *)
(* them; a genesis without them, or with too many USDs, is refused.        *)
FromGenesis(genesis) ==
  {sys \in {genesis[key] : key \in DOMAIN genesis \cap {"signetConstants"}} :
     Len(sys.host.tokens.usds) <= UsdCapacity}
HostFromGenesis(genesis) == {sys.host : sys \in FromGenesis(genesis)}
RollupFromGenesis(genesis) == {sys.rollup : sys \in FromGenesis(genesis)}
=============================================================================
