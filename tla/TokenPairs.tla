----------------------------- MODULE TokenPairs -----------------------------
(***************************************************************************)
(* The token pair registry of x/erc20: the pairs stored under their id and *)
(* the two indexes from contract address and from denomination to the id.  *)
(* On top of the ledger's fields, a context has                            *)
(*   pairs[id]    the pair stored under id, or Nil;                        *)
(*   erc20Map[c]  the id stored for contract c, or Nil;                    *)
(*   denomMap[d]  the id stored for denomination d, or Nil;                *)
(*   meta[d]      the bank metadata of denomination d, or Nil.             *)
(* A pair's id is the hash of its contract address and denomination; the   *)
(* hash is taken to be injective, so the id is the two of them.            *)
(***************************************************************************)
EXTENDS Ledger

CONSTANTS
    Nil,            \* an absent value of the store
    MetadataNames   \* names a coin's metadata can carry besides its base

Owners == {"OWNER_MODULE", "OWNER_EXTERNAL", "OWNER_UNSPECIFIED"}
Ids == Contracts \X Denoms
TokenPair == [erc20 : Contracts, denom : Denoms, enabled : BOOLEAN, owner : Owners]
Metadata == [base : Denoms, name : Denoms \cup MetadataNames]
Tokens == Contracts \cup Denoms

ASSUME TokenPairsAssumption ==
    /\ Nil \notin Ids
    /\ Nil \notin TokenPair
    /\ Nil \notin Metadata
    /\ MetadataNames \cap Denoms = {}

GetID(p) == <<p.erc20, p.denom>>

NewTokenPair(c, d, owner) ==
    [erc20 |-> c, denom |-> d, enabled |-> TRUE, owner |-> owner]

GetTokenPairID(x, token) ==
    IF token \in Contracts THEN x.erc20Map[token] ELSE x.denomMap[token]

GetTokenPair(x, id) == IF id = Nil THEN Nil ELSE x.pairs[id]

SetTokenPair(x, p) == [x EXCEPT !.pairs[GetID(p)] = p]

(* Mutant: the index by denomination is forgotten.                         *)
StoreTokenPairNoDenomMap(x, p) ==
    [x EXCEPT !.pairs[GetID(p)] = p, !.erc20Map[p.erc20] = GetID(p)]

(* What every registration ends with: the pair and both indexes.           *)
StoreTokenPair(x, p) ==
    [x EXCEPT !.pairs[GetID(p)] = p,
              !.denomMap[p.denom] = GetID(p),
              !.erc20Map[p.erc20] = GetID(p)]

(* Mutants: one of the indexes keeps its entry.                            *)
DeleteTokenPairKeepDenomMap(x, p) ==
    [x EXCEPT !.pairs[GetID(p)] = Nil, !.erc20Map[p.erc20] = Nil]
DeleteTokenPairKeepErc20Map(x, p) ==
    [x EXCEPT !.pairs[GetID(p)] = Nil, !.denomMap[p.denom] = Nil]

DeleteTokenPair(x, p) ==
    [x EXCEPT !.pairs[GetID(p)] = Nil,
              !.erc20Map[p.erc20] = Nil,
              !.denomMap[p.denom] = Nil]

IsERC20Registered(x, c) == x.erc20Map[c] # Nil

(* A metadata name need not be a denomination, so it need not be a key.    *)
IsDenomRegistered(x, name) == name \in Denoms /\ x.denomMap[name] # Nil

(* ExportGenesis writes the stored pairs; Validate is what a node runs on  *)
(* a genesis file before it starts from it.                                *)
GetTokenPairs(x) == {x.pairs[id] : id \in Ids} \ {Nil}

GenesisValidate(ps) ==
    \A p, q \in ps : p # q => p.erc20 # q.erc20 /\ p.denom # q.denom

(* The registry InitGenesis builds from a valid list of pairs.             *)
InitGenesis(ps) ==
    [pairs    |-> [id \in Ids |->
                     IF \E p \in ps : GetID(p) = id
                     THEN CHOOSE p \in ps : GetID(p) = id ELSE Nil],
     erc20Map |-> [c \in Contracts |->
                     IF \E p \in ps : p.erc20 = c
                     THEN GetID(CHOOSE p \in ps : p.erc20 = c) ELSE Nil],
     denomMap |-> [d \in Denoms |->
                     IF \E p \in ps : p.denom = d
                     THEN GetID(CHOOSE p \in ps : p.denom = d) ELSE Nil]]
=============================================================================
