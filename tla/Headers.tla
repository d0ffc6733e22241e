------------------------------ MODULE Headers ------------------------------
(***************************************************************************)
(* Headers of the rollup (crates/types/src/primitives/header): which       *)
(* headers the driver may make, and which one a genesis has under its      *)
(* hardforks (crates/evm/src/hardfork.rs).                                 *)
(*                                                                         *)
(* A hash is the value it is of, in a sequence: <<>> is the zero hash.  An *)
(* Option is a set of at most one value.  What a header copies from that   *)
(* of the host block besides the timestamp, and its bloom, is left out; a  *)
(* base fee is known by the number of blocks since the initial one.        *)
(***************************************************************************)
EXTENDS Integers, SequencesExt

EmptyRoot == <<>>
HashOf(value) == <<value>>

DefaultHeader ==
  [parentHash |-> <<>>, number |-> 0, gasLimit |-> 0, timestamp |-> 0,
   baseFee |-> {}, beneficiary |-> "zero", gasUsed |-> 0,
   transactionsRoot |-> EmptyRoot, receiptsRoot |-> EmptyRoot,
   ommersHash |-> <<>>, stateRoot |-> EmptyRoot, withdrawalsRoot |-> {},
   blobGasUsed |-> {}, excessBlobGas |-> {}, requestsHash |-> {},
   extraData |-> <<>>]

(* check_shared_defaults, check_roots_empty, check_roots_non_empty: the    *)
(* names of the fields that are wrong.                                     *)
SharedDefaults ==
  {"ommersHash", "stateRoot", "withdrawalsRoot", "blobGasUsed",
   "excessBlobGas", "requestsHash", "extraData"}
Roots == {"transactionsRoot", "receiptsRoot"}

NotDefault(header) == {f \in SharedDefaults : header[f] # DefaultHeader[f]}
RootsNotEmpty(header) == {f \in Roots : header[f] # EmptyRoot}
RootsEmpty(header) == Roots \ RootsNotEmpty(header)

(* SignetHeaderV1 and the experimental SignetHeaderV2: an Option.          *)
HeaderV1(header) ==
  IF NotDefault(header) \cup RootsNotEmpty(header) = {} THEN {header} ELSE {}
HeaderV2(header) ==
  IF NotDefault(header) \cup RootsEmpty(header) = {} THEN {header} ELSE {}

-----------------------------------------------------------------------------
(* EthereumHardfork: the forks in the order of their bits, and the SpecId  *)
(* of each but the BPOs.                                                   *)
Bpos == <<"Bpo1", "Bpo2", "Bpo3", "Bpo4", "Bpo5">>
UntilOsaka ==
  <<"Frontier", "Homestead", "Dao", "Tangerine", "SpuriousDragon", "Byzantium",
    "Constantinople", "Petersburg", "Istanbul", "MuirGlacier", "Berlin",
    "London", "ArrowGlacier", "GrayGlacier", "Paris", "Shanghai", "Cancun",
    "Prague", "Osaka">>
Forks == UntilOsaka \o Bpos \o <<"Amsterdam">>

SpecForks == Append(UntilOsaka, "Amsterdam")
Specs ==
  <<"FRONTIER", "HOMESTEAD", "DAO_FORK", "TANGERINE", "SPURIOUS_DRAGON",
    "BYZANTIUM", "CONSTANTINOPLE", "PETERSBURG", "ISTANBUL", "MUIR_GLACIER",
    "BERLIN", "LONDON", "ARROW_GLACIER", "GRAY_GLACIER", "MERGE", "SHANGHAI",
    "CANCUN", "PRAGUE", "OSAKA", "AMSTERDAM">>

IndexIn(seq, x) == CHOOSE i \in DOMAIN seq : seq[i] = x
Latest(seq, forks) == Max({i \in DOMAIN seq : seq[i] \in forks})

(* spec_id; Frontier is the answer if nothing else is active.              *)
SpecId(forks) == Specs[Latest(SpecForks, forks \cup {"Frontier"})]

BitForSpecId(spec) ==
  IF spec = "FRONTIER_THAWING" THEN "Frontier" ELSE SpecForks[IndexIn(Specs, spec)]
FromSpecId(spec) ==
  {Forks[i] : i \in 1..IndexIn(Forks, BitForSpecId(spec))}

(* active_hardforks.  A ChainConfig is [byBlock, byTime, daoSupport,       *)
(* ttdPassed]: where forks are activated, if they are, and two flags.      *)
ActiveHardforks(config, block, timestamp) ==
  {"Frontier"}
    \cup {f \in DOMAIN config.byBlock :
            block >= config.byBlock[f] /\ (f = "Dao" => config.daoSupport)}
    \cup {f \in {"Paris"} : config.ttdPassed}
    \cup {f \in DOMAIN config.byTime : timestamp >= config.byTime[f]}
ActiveAtHeader(config, header) ==
  ActiveHardforks(config, header.number, header.timestamp)

(* Mutant of LatestHardfork: the BPOs count.                               *)
LatestWithBpos(config, block, timestamp) ==
  Forks[Latest(Forks, ActiveHardforks(config, block, timestamp))]

LatestHardfork(config, block, timestamp) ==
  Forks[Latest(Forks, ActiveHardforks(config, block, timestamp) \ ToSet(Bpos))]

(* genesis_header.                                                         *)
InitialBaseFee == 0
GenesisHeader(genesis, forks) ==
  LET Since(fork, value) == IF fork \in forks THEN {value} ELSE {}
  IN  [DefaultHeader EXCEPT
         !.gasLimit = genesis.gasLimit, !.beneficiary = genesis.coinbase,
         !.stateRoot = HashOf(genesis.alloc),
         !.baseFee = Since("London", InitialBaseFee),
         !.withdrawalsRoot = Since("Shanghai", <<>>),
         !.blobGasUsed = Since("Cancun", 0), !.excessBlobGas = Since("Cancun", 0),
         !.requestsHash = Since("Prague", <<>>)]
=============================================================================
