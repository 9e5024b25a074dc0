---------------------------- MODULE UserProfiles ----------------------------
(***************************************************************************)
(* Users of a contract: their public keys, profiles, signers and roles     *)
(* (src/chaincode/src/services/PublicKeyService.ts), the calls of          *)
(* PublicKeyContract that change them, and who is authenticated by the     *)
(* signatures of a call (contracts/authenticate.ts, authorize.ts).         *)
(*                                                                         *)
(* A key stands for a key pair, its public key and its eth address.  A     *)
(* signature is the key that made it.  The contract uses role based        *)
(* authorization (USE_RBAC), and the environment names an admin.           *)
(***************************************************************************)
EXTENDS Integers, FiniteSets, Sequences

CONSTANTS
  KeyPairs,
  ClientNames,  \* x of the aliases client|x that are used
  Absent,       \* a field or an object that is not there
  AdminKey,     \* DEV_ADMIN_PUBLIC_KEY
  AdminName,    \* DEV_ADMIN_USER_ID is client|AdminName
  Named,        \* bound of the model: names x by which client|x is referred to
  MaxSigners    \* bound of the model: signers of one profile

ASSUME KeysAssumption ==
  /\ IsFiniteSet(KeyPairs) /\ IsFiniteSet(ClientNames)
  /\ AdminKey \in KeyPairs /\ AdminName \in ClientNames
  /\ Absent \notin KeyPairs /\ "invalidated" \notin ClientNames
  /\ \A name \in ClientNames : <<"client", name>> \notin KeyPairs

ASSUME BoundsAssumption == Named \subseteq ClientNames /\ MaxSigners \in Nat

VARIABLES
  publicKeys,  \* PublicKey objects, by alias
  profiles,    \* UserProfile objects, by eth address, or by alias for a multisig profile
  last         \* the call that was made last

userVars == <<publicKeys, profiles, last>>

Eth(k) == <<"eth", k>>
Client(name) == <<"client", name>>

EthAliases == {Eth(k) : k \in KeyPairs}
ClientAliases == {Client(name) : name \in ClientNames}

\* References to users, as they are in a DTO: an eth address is one to its eth alias.
Refs == EthAliases \cup {Client(name) : name \in Named}

\* The alias of the profile that takes the place of that of an old key.
Invalidated == Client("invalidated")

Aliases == EthAliases \cup ClientAliases \cup {Invalidated}

DefaultRoles == {"SUBMIT"}
AdminRoles == {"REGISTRAR"}
Roles == DefaultRoles \cup AdminRoles

(***************************************************************************)
(* UserProfile.  A multisig profile has signers and no address; the address*)
(* of an invalidated one is nobody's.                                      *)
(***************************************************************************)
Profiles == [alias : Aliases, ethAddress : KeyPairs \cup {Absent}, roles : SUBSET Roles,
             signers : (SUBSET Aliases) \cup {Absent}, quorum : Nat]

ASSUME NoneAssumption ==
  Absent \notin Aliases /\ Absent \notin Profiles /\ \A signers \in SUBSET Aliases : signers # Absent

SingleSigned(alias, k, roles, quorum) ==
  [alias |-> alias, ethAddress |-> k, roles |-> roles, signers |-> Absent, quorum |-> quorum]

InvalidatedAsEth == SingleSigned(Eth("invalidated"), Absent, {}, 1)

InvalidatedProfile == SingleSigned(Invalidated, Absent, {}, 1)

DefaultProfile(k) == SingleSigned(Eth(k), k, DefaultRoles, 1)

AdminProfile == SingleSigned(Client(AdminName), AdminKey, Roles, 1)

\* The admin of the environment has a profile and a key that are not saved.
GetUserProfile(address) ==
  IF profiles[address] = Absent /\ address = AdminKey THEN AdminProfile ELSE profiles[address]

GetPublicKey(alias) ==
  IF publicKeys[alias] = Absent /\ alias = Client(AdminName) THEN AdminKey ELSE publicKeys[alias]

\* The profile a signature with the key stands for.
ProfileOf(k) == IF GetUserProfile(k) = Absent THEN DefaultProfile(k) ELSE GetUserProfile(k)

ResolveUserAlias(ref) ==
  IF ref \in EthAliases THEN ProfileOf(ref[2]).alias ELSE ref

IsMultisig(profile) == profile # Absent /\ profile.signers # Absent

-----------------------------------------------------------------------------
(***************************************************************************)
(* A signed call: the keys that signed it, and the signerAddress, which is *)
(* the alias of a multisig profile, or not there.  Who the caller is       *)
(* follows from both.                                                      *)
(***************************************************************************)
Calls == {call \in [keys : (SUBSET KeyPairs) \ {{}}, signerAddress : ClientAliases \cup {Absent}] :
            Cardinality(call.keys) > 1 => call.signerAddress # Absent}

SignedBy(call) == {ProfileOf(k).alias : k \in call.keys}

SenderProfile(call) ==
  IF call.signerAddress = Absent THEN ProfileOf(CHOOSE k \in call.keys : TRUE)
  ELSE GetUserProfile(call.signerAddress)

IsAuthenticated(call) ==
  IF call.signerAddress = Absent
  THEN SenderProfile(call).quorum <= 1
  ELSE /\ IsMultisig(SenderProfile(call))
       /\ SignedBy(call) \subseteq SenderProfile(call).signers
       /\ Cardinality(SignedBy(call)) = Cardinality(call.keys)
       /\ Cardinality(SignedBy(call)) >= SenderProfile(call).quorum

HasRole(call, role) == role \in SenderProfile(call).roles

CallingUser(call) == SenderProfile(call).alias

Authorized(call, role) ==
  /\ IsAuthenticated(call) /\ HasRole(call, role)
  /\ last' = call

-----------------------------------------------------------------------------

InitUsers ==
  /\ publicKeys = [a \in Aliases |-> Absent]
  /\ profiles = [a \in KeyPairs \cup ClientAliases |-> Absent]
  /\ last = Absent

PutUserProfile(address, profile) == profiles' = [profiles EXCEPT ![address] = profile]

\* RegisterUser with the public key of a key pair that its owner has.
RegisterUser(call, alias, k) ==
  /\ Authorized(call, "REGISTRAR")
  /\ GetPublicKey(alias) = Absent
  /\ GetUserProfile(k) = Absent /\ GetUserProfile(alias) = Absent
  /\ publicKeys' = [publicKeys EXCEPT ![alias] = k]
  /\ PutUserProfile(k, SingleSigned(alias, k, DefaultRoles, 1))

Multisig(alias, roles, signers, quorum) ==
  [alias |-> alias, ethAddress |-> Absent, roles |-> roles, signers |-> signers, quorum |-> quorum]

(***************************************************************************)
(* RegisterUser with signers.  They are distinct users, but need not be    *)
(* registered.                                                             *)
(***************************************************************************)
RegisterMultisig(call, alias, refs, quorum) ==
  LET signers == {ResolveUserAlias(r) : r \in refs}
  IN  /\ Authorized(call, "REGISTRAR")
      /\ Cardinality(signers) = Cardinality(refs)
      /\ quorum \in 1 .. Cardinality(signers)
      /\ GetPublicKey(alias) = Absent /\ GetUserProfile(alias) = Absent
      /\ PutUserProfile(alias, Multisig(alias, DefaultRoles, signers, quorum))
      /\ UNCHANGED publicKeys

(***************************************************************************)
(* UpdatePublicKey.  A user who is not registered keeps the alias of the   *)
(* old address.  The new key must not have a profile, so an old key is     *)
(* never used again.                                                       *)
(***************************************************************************)
UpdatePublicKeyKeepingOld(call, dto) ==
  LET user == CallingUser(call)
      k    == dto.publicKey
  IN  /\ Authorized(call, "SUBMIT")
      /\ SenderProfile(call).ethAddress # Absent
      /\ GetUserProfile(k) = Absent /\ k # SenderProfile(call).ethAddress
      /\ publicKeys' = [publicKeys EXCEPT ![user] = k]
      /\ PutUserProfile(k, SingleSigned(user, k, SenderProfile(call).roles, 1))

UpdatePublicKeyToAny(call, dto) ==
  LET user == CallingUser(call)
      old  == SenderProfile(call).ethAddress
      k    == dto.publicKey
  IN  /\ Authorized(call, "SUBMIT")
      /\ Cardinality(SignedBy(call)) = 1
      /\ dto.publicKeySignature = k
      /\ old # Absent
      /\ IF GetPublicKey(user) # Absent THEN GetPublicKey(user) = old ELSE user \in EthAliases
      /\ k # old
      /\ publicKeys' = [publicKeys EXCEPT ![user] = k]
      /\ profiles' = [profiles EXCEPT ![old] = InvalidatedProfile,
                                      ![k] = SingleSigned(user, k, ProfileOf(old).roles, ProfileOf(old).quorum)]

UpdatePublicKey(call, dto) ==
  LET user == CallingUser(call)
      old  == SenderProfile(call).ethAddress
      k    == dto.publicKey
  IN  /\ Authorized(call, "SUBMIT")
      /\ Cardinality(SignedBy(call)) = 1
      /\ dto.publicKeySignature = k
      /\ old # Absent
      /\ IF GetPublicKey(user) # Absent THEN GetPublicKey(user) = old ELSE user \in EthAliases
      /\ GetUserProfile(k) = Absent /\ k # old
      /\ publicKeys' = [publicKeys EXCEPT ![user] = k]
      /\ profiles' = [profiles EXCEPT ![old] = InvalidatedProfile,
                                      ![k] = SingleSigned(user, k, ProfileOf(old).roles, ProfileOf(old).quorum)]

\* Where the profile of a user is, and what it is for one who is not registered.
AddressOf(user) ==
  IF GetPublicKey(user) # Absent THEN GetPublicKey(user)
  ELSE IF user \in EthAliases THEN user[2] ELSE user

ProfileToUpdate(user) ==
  IF GetUserProfile(AddressOf(user)) = Absent /\ user \in EthAliases
  THEN DefaultProfile(AddressOf(user)) ELSE GetUserProfile(AddressOf(user))

PutRoles(user, roles) ==
  LET profile == ProfileToUpdate(user)
  IN  PutUserProfile(IF profile.ethAddress # Absent THEN profile.ethAddress ELSE user,
                     [profile EXCEPT !.alias = user, !.roles = roles])

UpdateUserRoles(call, ref, roles) ==
  LET user == ResolveUserAlias(ref)
  IN  /\ Authorized(call, "REGISTRAR")
      /\ user # Invalidated /\ ProfileToUpdate(user) # Absent
      /\ user = CallingUser(call) => ProfileToUpdate(user).roles \cap AdminRoles \subseteq roles
      /\ PutRoles(user, roles)
      /\ UNCHANGED publicKeys

-----------------------------------------------------------------------------
(***************************************************************************)
(* Calls of a multisig user that change its profile, which is the one saved*)
(* under the alias of the caller.                                          *)
(***************************************************************************)
CanRemoveSelf(signers, quorum, signedBy, signer) ==
  /\ Cardinality(signers) > 1
  /\ Cardinality(signers) - 1 >= quorum

CanRemoveSigner(signers, quorum, signedBy, signer) ==
  /\ Cardinality(signers) > 1
  /\ Cardinality(signers) - 1 >= quorum
  /\ signer \notin signedBy

MultisigCall(call) ==
  /\ Authorized(call, "SUBMIT")
  /\ CallingUser(call) \in ClientAliases /\ IsMultisig(GetUserProfile(CallingUser(call)))
  /\ UNCHANGED publicKeys

PutSigners(user, signers) ==
  /\ Cardinality(signers) <= MaxSigners
  /\ profiles' = [profiles EXCEPT ![user].signers = signers]

AddSigner(call, ref) ==
  LET user == CallingUser(call)
      signer == ResolveUserAlias(ref)
  IN  /\ MultisigCall(call)
      /\ signer \notin profiles[user].signers
      /\ PutSigners(user, profiles[user].signers \cup {signer})

\* A signer who is not one is removed without effect.
RemoveSigner(call, ref) ==
  LET user == CallingUser(call)
      signer == ResolveUserAlias(ref)
  IN  /\ MultisigCall(call)
      /\ CanRemoveSigner(profiles[user].signers, profiles[user].quorum, SignedBy(call), signer)
      /\ PutSigners(user, profiles[user].signers \ {signer})

(***************************************************************************)
(* UpdateSigners removes, then adds, one signer after the other, each by a *)
(* call of the service.                                                    *)
(***************************************************************************)
UpdateSigners(call, toRemove, toAdd) ==
  LET user    == CallingUser(call)
      removed == [i \in DOMAIN toRemove |-> ResolveUserAlias(toRemove[i])]
      added   == [i \in DOMAIN toAdd |-> ResolveUserAlias(toAdd[i])]
      KeptBefore(i) == profiles[user].signers \ {removed[j] : j \in 1 .. i - 1}
      kept    == KeptBefore(Len(toRemove) + 1)
  IN  /\ MultisigCall(call)
      /\ \A i \in DOMAIN toRemove, j \in DOMAIN toAdd : removed[i] # added[j]
      /\ \A i \in DOMAIN toRemove :
           CanRemoveSigner(KeptBefore(i), profiles[user].quorum, SignedBy(call), removed[i])
      /\ \A i, j \in DOMAIN toAdd : added[i] \notin kept /\ (added[i] = added[j] => i = j)
      /\ PutSigners(user, kept \cup {added[i] : i \in DOMAIN toAdd})

UpdateQuorumToAny(call, quorum) ==
  LET user == CallingUser(call)
  IN  /\ MultisigCall(call)
      /\ quorum >= 1
      /\ profiles' = [profiles EXCEPT ![user].quorum = quorum]

UpdateQuorum(call, quorum) ==
  LET user == CallingUser(call)
  IN  /\ MultisigCall(call)
      /\ quorum \in 1 .. Cardinality(profiles[user].signers)
      /\ profiles' = [profiles EXCEPT ![user].quorum = quorum]

\* What RegisterUserDto, UpdateUserRolesDto, UpdateSignersDto and UpdateQuorumDto ask for.
SignersToRegister == {refs \in SUBSET Refs : Cardinality(refs) <= MaxSigners}

RolesToUpdate == SUBSET Roles

\* The owner of the new key signs as well, or somebody else does, or nobody.
UpdatePublicKeyDtos == [publicKey : KeyPairs, publicKeySignature : KeyPairs \cup {Absent}]

SignersToUpdate == [toRemove : Refs \X Refs, toAdd : {<<r>> : r \in Refs}]

Quorums == 1 .. MaxSigners

UserCall(call) ==
  \/ \E alias \in ClientAliases, k \in KeyPairs : RegisterUser(call, alias, k)
  \/ \E alias \in ClientAliases, refs \in SignersToRegister, quorum \in Quorums :
       RegisterMultisig(call, alias, refs, quorum)
  \/ \E dto \in UpdatePublicKeyDtos : UpdatePublicKey(call, dto)
  \/ \E ref \in Refs, roles \in RolesToUpdate : UpdateUserRoles(call, ref, roles)
  \/ \E ref \in Refs : AddSigner(call, ref) \/ RemoveSigner(call, ref)
  \/ \E dto \in SignersToUpdate : UpdateSigners(call, dto.toRemove, dto.toAdd)
  \/ \E quorum \in Quorums : UpdateQuorum(call, quorum)

NextUsers == \E call \in {c \in Calls : IsAuthenticated(c)} : UserCall(call)

UserSpec == InitUsers /\ [][NextUsers]_userVars

-----------------------------------------------------------------------------

\* The types of the variables.
UserTypeOK ==
  /\ publicKeys \in [Aliases -> KeyPairs \cup {Absent}]
  /\ profiles \in [KeyPairs \cup ClientAliases -> Profiles \cup {Absent}]
  /\ last \in Calls \cup {Absent}

(***************************************************************************)
(* The quorum of a multisig profile can be met by its signers, and asks for*)
(* one at least, whatever was added, removed and updated in which order.   *)
(***************************************************************************)
QuorumIsReachable ==
  \A a \in ClientAliases : IsMultisig(profiles[a]) =>
    profiles[a].quorum \in 1 .. Cardinality(profiles[a].signers)

(***************************************************************************)
(* No two keys sign for the same user, but for those that were given up;   *)
(* and the key of a registered user is the one saved for the alias.        *)
(***************************************************************************)
OneKeyPerUser ==
  \A k \in KeyPairs : ProfileOf(k).alias # Invalidated =>
    /\ \A j \in KeyPairs : ProfileOf(j).alias = ProfileOf(k).alias => j = k
    /\ GetPublicKey(ProfileOf(k).alias) \in {k, Absent}

(***************************************************************************)
(* "It won't work because the old GCUP-key is marked as invalidated"       *)
(* (PublicKeyContract.spec.ts): a key that was given up is never in use    *)
(* again, and does not authorize a call alone, or with other keys, unless  *)
(* the invalidated alias is itself one of the signers.                     *)
(***************************************************************************)
OldKeysStayOld ==
  [][\A k \in KeyPairs : ProfileOf(k).alias = Invalidated =>
       /\ ProfileOf(k)'.alias = Invalidated
       /\ k \in last'.keys =>
            \E a \in ClientAliases : IsMultisig(profiles[a]) /\ Invalidated \in profiles[a].signers]_userVars

(***************************************************************************)
(* Those who change their multisig profile are not locked out by it: the   *)
(* same signatures authenticate the next call, unless the quorum was       *)
(* raised.                                                                 *)
(***************************************************************************)
SignersKeepControl ==
  [][\A call \in {last'} : \A a \in ClientAliases :
       /\ call.signerAddress = a /\ profiles'[a] # profiles[a]
       /\ profiles'[a].quorum <= profiles[a].quorum
       => IsAuthenticated(call)']_userVars
=============================================================================
