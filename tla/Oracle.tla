------------------------------- MODULE Oracle -------------------------------
(***************************************************************************)
(* The oracle of the bridge (src/chaincode/src/oracle): who speaks for it, *)
(* the prices that these have asserted, and the transaction fees of other  *)
(* chains that bridge requests were charged by.                            *)
(***************************************************************************)
EXTENDS Integers, FiniteSets

CONSTANTS
  Users,
  Definitions,       \* the authorities of OracleDefinitionDtos
  Curators,          \* users of the curators' organization
  None,              \* no definition of the oracle
  BridgeAssertions,  \* the OracleBridgeFeeAssertionDtos that have been signed
  Expiration,        \* ORACLE_ASSERTION_EXPIRATION
  Times              \* of transactions

(***************************************************************************)
(* The pair of tokens, their exchange rate and their source are recorded   *)
(* as they are: nothing in the chaincode depends on them, nor does it      *)
(* calculate the gas or a cross rate anew.                                 *)
(***************************************************************************)
OraclePriceAssertionDtos == [identity : Users]

OraclePriceAssertions == [identity : Users, tx : Nat]

OracleBridgeFeeAssertionDtos ==
  [signer : Users, signingIdentity : Users, timestamp : Nat, gas : Nat]

OracleBridgeFeeAssertions == [signingIdentity : Users, tx : Nat, gas : Nat]

OracleDefinitionDtos == [authorities : Definitions]

ASSUME OracleAssumption ==
  /\ Curators \subseteq Users /\ Definitions \subseteq SUBSET Users
  /\ Times \subseteq Nat /\ Expiration \in Nat
  /\ BridgeAssertions \subseteq OracleBridgeFeeAssertionDtos

VARIABLES
  authorities,   \* of the OracleDefinition, or None
  prices,        \* the OraclePriceAssertions
  bridgeFees     \* the OracleBridgeFeeAssertions

oracleVars == <<authorities, prices, bridgeFees>>

InitOracle == authorities = None /\ prices = {} /\ bridgeFees = {}

Administers(user) ==
  user \in Curators \/ (authorities # None /\ user \in authorities)

\* Of a definition without authorities the caller becomes the only one.
SaveOracleDefinition(by, users) ==
  /\ Administers(by)
  /\ authorities' = IF users = {} THEN {by} ELSE users
  /\ UNCHANGED <<prices, bridgeFees>>

DeleteOracleDefinition(by) ==
  /\ authorities # None
  /\ Administers(by)
  /\ authorities' = None
  /\ UNCHANGED <<prices, bridgeFees>>

\* The identity is that of the one who signed the assertion.
SaveOraclePriceAssertion(identity, tx) ==
  /\ authorities # None /\ identity \in authorities
  /\ prices' = prices \cup {[identity |-> identity, tx |-> tx]}
  /\ UNCHANGED <<authorities, bridgeFees>>

\* The keys of assertions, one at least.
DeleteOracleAssertionsDtos == (SUBSET prices) \ {{}}

\* Who may call this is up to the contract that has the method.
DeleteOraclePriceAssertions(assertions) ==
  /\ prices' = prices \ assertions
  /\ UNCHANGED <<authorities, bridgeFees>>

\* An assertion may serve for any number of requests while it has not expired.
IsValidAssertion(a, now) ==
  /\ a.timestamp > now - Expiration
  /\ authorities \cap {a.signer, a.signingIdentity} # {}

PutBridgeFee(a, tx) ==
  bridgeFees' = bridgeFees \cup {[signingIdentity |-> a.signingIdentity, tx |-> tx, gas |-> a.gas]}

OracleTypeOK ==
  /\ authorities \in ((SUBSET Users) \ {{}}) \cup {None}
  /\ prices \subseteq OraclePriceAssertions
  /\ bridgeFees \subseteq OracleBridgeFeeAssertions
=============================================================================
