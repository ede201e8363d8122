------------------------------- MODULE SteamId -------------------------------
(***************************************************************************)
(* The bit fields of a SteamId (steamid.go): account id, instance, account *)
(* type and universe, from the lowest bits up.  The sizes of the first two *)
(* fields are parameters (2^32 and 2^20 in the code), since the numbers    *)
(* TLC can hold are smaller than a uint64.  A field is given by the value  *)
(* of its lowest bit (a shift by its offset in the code) and by the number *)
(* of its values (its mask plus one).                                      *)
(***************************************************************************)
EXTENDS Integers

CONSTANTS AccountSize, InstanceSize

ASSUME SizesAssumption == AccountSize \in Nat \ {0} /\ InstanceSize \in Nat \ {0, 1}

TypeUnit     == AccountSize * InstanceSize
UniverseUnit == TypeUnit * 16

\* s.get(offset, mask), s.set(offset, mask, value)
get(s, unit, size) == (s \div unit) % size
set(s, unit, size, value) == s + ((value % size) - get(s, unit, size)) * unit

GetAccountInstance(s) == get(s, AccountSize, InstanceSize)
GetAccountType(s)     == get(s, TypeUnit, 16)

NewIdAdv(accountId, instance, universe, accountType) ==
  LET account == set(0, 1, AccountSize, accountId)
      inst    == set(account, AccountSize, InstanceSize, instance)
      univ    == set(inst, UniverseUnit, 16, universe)
  IN  set(univ, TypeUnit, 16, accountType)

\* EAccountType
IndividualType == 1
ClanType       == 7
ChatType       == 8
ClanFlag       == InstanceSize \div 2   \* ChatInstanceFlag: 0x100000 >> 1

ClanToChat(s) ==
  IF GetAccountType(s) # ClanType THEN s
  ELSE set(set(s, AccountSize, InstanceSize, ClanFlag), TypeUnit, 16, ChatType)

ChatToClan(s) ==
  IF GetAccountType(s) # ChatType THEN s
  ELSE set(set(s, AccountSize, InstanceSize, 0), TypeUnit, 16, ClanType)
=============================================================================
