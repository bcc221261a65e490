-------------------------------- MODULE Users --------------------------------
(***************************************************************************)
(* The table of users of stat/storage/user_bolt.go: which category the     *)
(* chain gave an address, which user an address belongs to and since when, *)
(* which addresses a user has, and which still wait for their category.    *)
(* Two parties write it, each call in one bolt transaction: the processor  *)
(* of category logs (stat/fetcher.go) and the HTTP handler that registers  *)
(* the addresses of a user.  An address whose user nobody has registered   *)
(* is its own user.                                                        *)
(***************************************************************************)
EXTENDS Buckets, FiniteSets, Naturals

CONSTANTS Addresses,    \* Ethereum addresses
          UserIds,      \* identities of registered users
          Categories,   \* what the chain assigns
          KYC,          \* KYC_CATEGORY, one of them
          Times,        \* registration times
          NoUser        \* what GetUserOfAddress answers for an unknown address

ASSUME UsersAssumption ==
  /\ KYC \in Categories
  /\ NoUser \notin Addresses \cup UserIds
  /\ Addresses \cap UserIds = {}

VARIABLES category,     \* ADDRESS_CATEGORY
          userOf,       \* ADDRESS_ID
          addressesOf,  \* ID_ADDRESSES, a bucket of addresses for each user
          timeOf,       \* ADDRESS_TIME
          pendingAddrs  \* PENDING_ADDRESSES

usersVars == <<category, userOf, addressesOf, timeOf, pendingAddrs>>

Identities == Addresses \cup UserIds

UsersTypeOK ==
  /\ IsMap(category, Addresses, Categories)
  /\ IsMap(userOf, Addresses, Identities)
  /\ IsMap(addressesOf, Identities, SUBSET Addresses)
  /\ IsMap(timeOf, Addresses, Times)
  /\ pendingAddrs \subseteq Addresses

NoEntries == [k \in {} |-> k]

UsersInit ==
  /\ category = NoEntries
  /\ userOf = NoEntries
  /\ addressesOf = NoEntries
  /\ timeOf = NoEntries
  /\ pendingAddrs = {}

------------------------------------------------------------------------------
IsKyced(a) == a \in DOMAIN category /\ category[a] = KYC

\* GetUserOfAddress.
UserOf(a) == IF a \in DOMAIN userOf THEN userOf[a] ELSE NoUser

\* GetAddressesOfUser.
AddressesOf(u) == IF u \in DOMAIN addressesOf THEN addressesOf[u] ELSE {}

\* GetKycUsers: the addresses that were registered for a user, with the time.
KycUsers ==
  [a \in {b \in DOMAIN userOf : userOf[b] # b} |->
     IF a \in DOMAIN timeOf THEN timeOf[a] ELSE 0]

\* Mutant of UpdateAddressCategory: the address stays in the pending list.
UpdateCategoryOnly(a, cat) ==
  LET user == IF a \in DOMAIN userOf THEN userOf[a] ELSE a
  IN /\ category' = Put(category, a, cat)
     /\ addressesOf' = Put(addressesOf, user, AddressesOf(user) \cup {a})
     /\ userOf' = Put(userOf, a, user)
     /\ UNCHANGED <<timeOf, pendingAddrs>>

\* The chain gave address a the category cat.
UpdateAddressCategory(a, cat) ==
  LET user == IF a \in DOMAIN userOf THEN userOf[a] ELSE a
  IN /\ category' = Put(category, a, cat)
     /\ addressesOf' = Put(addressesOf, user, AddressesOf(user) \cup {a})
     /\ userOf' = Put(userOf, a, user)
     /\ pendingAddrs' = pendingAddrs \ {a}
     /\ UNCHANGED timeOf

\* The identities whose address buckets registering A for user deletes; when an
\* address is given twice its second turn deletes the bucket of user.
OldIds(user, A, again) ==
  {userOf[a] : a \in A \cap DOMAIN userOf} \cup (IF again THEN {user} ELSE {})

\* Deleting a bucket that is not there, or no longer there, fails.
DeleteFails(user, A, again) ==
  \/ ~ OldIds(user, A, again) \subseteq DOMAIN addressesOf
  \/ \E a, b \in A \cap DOMAIN userOf : a # b /\ userOf[a] = userOf[b]
  \/ again /\ \E a \in A \cap DOMAIN userOf : userOf[a] = user

\* Mutant of Registered: the buckets of the former users stay.
RegisteredToo(user, given, again) ==
  /\ userOf' = [a \in DOMAIN userOf \cup DOMAIN given |->
                  IF a \in DOMAIN given THEN user ELSE userOf[a]]
  /\ addressesOf' = Put(addressesOf, user, AddressesOf(user) \cup DOMAIN given)
  /\ timeOf' = [a \in DOMAIN timeOf \cup DOMAIN given |->
                  IF a \in DOMAIN given THEN given[a] ELSE timeOf[a]]
  /\ pendingAddrs' = (pendingAddrs \ AddressesOf(user))
                       \cup {a \in DOMAIN given : ~IsKyced(a)}

\* The addresses given (with their times) become those of user.  The pending
\* entries removed are those of the addresses user had before the transaction,
\* which GetAddressesOfUser reads in a transaction of its own.
Registered(user, given, again) ==
  LET old  == OldIds(user, DOMAIN given, again)
      kept == [u \in DOMAIN addressesOf \ old |-> addressesOf[u]]
      mine == IF user \in DOMAIN kept THEN kept[user] ELSE {}
  IN /\ userOf' = [a \in DOMAIN userOf \cup DOMAIN given |->
                     IF a \in DOMAIN given THEN user ELSE userOf[a]]
     /\ addressesOf' = Put(kept, user, mine \cup DOMAIN given)
     /\ timeOf' = [a \in DOMAIN timeOf \cup DOMAIN given |->
                     IF a \in DOMAIN given THEN given[a] ELSE timeOf[a]]
     /\ pendingAddrs' = (pendingAddrs \ AddressesOf(user))
                          \cup {a \in DOMAIN given : ~IsKyced(a)}

\* UpdateUserAddresses: a failed deletion rolls the whole transaction back.
UpdateUserAddresses(user, given, again) ==
  /\ IF DeleteFails(user, DOMAIN given, again)
       THEN UNCHANGED <<userOf, addressesOf, timeOf, pendingAddrs>>
       ELSE Registered(user, given, again)
  /\ UNCHANGED category

------------------------------------------------------------------------------
UsersNext ==
  \/ \E a \in Addresses, cat \in Categories : UpdateAddressCategory(a, cat)
  \/ \E user \in UserIds, A \in (SUBSET Addresses) \ {{}}, again \in BOOLEAN :
       \E given \in [A -> Times] : UpdateUserAddresses(user, given, again)

UsersSpec == UsersInit /\ [][UsersNext]_usersVars

------------------------------------------------------------------------------
(***************************************************************************)
(* UsersIndexed: the two indexes never disagree about an address: one that *)
(* is listed under a user belongs to that user and to no other, and a      *)
(* registered address has a registration time, without which GetKycUsers   *)
(* would count all its trades as those of a known user.                    *)
(***************************************************************************)
UsersIndexed ==
  /\ \A u \in DOMAIN addressesOf : \A a \in addressesOf[u] : UserOf(a) = u
  /\ \A a \in DOMAIN userOf : userOf[a] # a <=> a \in DOMAIN timeOf

(***************************************************************************)
(* PendingNotKyced: GetPendingAddresses, which the operators work through  *)
(* ("all of addresses that's not pushed to the chain for kyced category"), *)
(* never lists an address that has the KYC category already, in whichever  *)
(* order the chain and the operators get to it.                            *)
(***************************************************************************)
PendingNotKyced == \A a \in pendingAddrs : ~IsKyced(a) /\ a \in DOMAIN KycUsers
=============================================================================
