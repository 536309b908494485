-------------------------------- MODULE Ipam --------------------------------
(***************************************************************************)
(* The host's address pool (internal/core/network/ipam.go): a stack of     *)
(* free guest subnets and a stack of free VSOCK context ids, with the maps *)
(* of the ones in use.  Both stacks are last-in first-out, so what was     *)
(* released last is handed out next.  Every operation runs under the       *)
(* pool's mutex and is one step here.                                      *)
(***************************************************************************)
EXTENDS Integers, Sequences, FiniteSets, Functions

CONSTANTS
  MaxSubnets,    \* number of guest subnets 172.16.x.0/24
  MinGuestCID,   \* first VSOCK context id given to a guest
  MaxGuestCID    \* last one

(* The index of a subnet is one octet of its address.                      *)
ASSUME SubnetsAssumption == MaxSubnets \in 1..256
ASSUME CIDsAssumption ==
  MinGuestCID \in Nat /\ MaxGuestCID \in Nat /\ MinGuestCID <= MaxGuestCID

VARIABLES
  freeSubnets,   \* stack of subnet indices
  usedSubnets,   \* set of subnet indices
  freeCIDs,      \* stack of context ids
  usedCIDs       \* set of context ids

ipamVars == <<freeSubnets, usedSubnets, freeCIDs, usedCIDs>>

(* The top of a stack, and the stack without it.                           *)
Top(s) == s[Len(s)]
Pop(s) == SubSeq(s, 1, Len(s) - 1)

Subnets == 0..(MaxSubnets - 1)
CIDs == MinGuestCID..MaxGuestCID

(* Faulty variant of IpamInit: the subnet loop runs from 1.                *)
IpamInitFromOne ==
  /\ freeSubnets = [n \in 1..MaxSubnets |-> n]
  /\ usedSubnets = {}
  /\ freeCIDs = [n \in 1..(MaxGuestCID - MinGuestCID + 1) |-> MinGuestCID + n - 1]
  /\ usedCIDs = {}

IpamInit ==
  /\ freeSubnets = [n \in 1..MaxSubnets |-> n - 1]
  /\ usedSubnets = {}
  /\ freeCIDs = [n \in 1..(MaxGuestCID - MinGuestCID + 1) |-> MinGuestCID + n - 1]
  /\ usedCIDs = {}

(* Allocate succeeds only when neither stack is empty.                     *)
PoolExhausted == freeSubnets = <<>> \/ freeCIDs = <<>>

(* Faulty variant of PoolAllocate: the subnet is read but not popped.      *)
PoolAllocateKeepsTop ==
  /\ ~PoolExhausted
  /\ usedSubnets' = usedSubnets \cup {Top(freeSubnets)}
  /\ freeCIDs' = Pop(freeCIDs)
  /\ usedCIDs' = usedCIDs \cup {Top(freeCIDs)}
  /\ UNCHANGED freeSubnets

(* Allocate pops both stacks.  The caller reads the two tops.              *)
PoolAllocate ==
  /\ ~PoolExhausted
  /\ freeSubnets' = Pop(freeSubnets)
  /\ usedSubnets' = usedSubnets \cup {Top(freeSubnets)}
  /\ freeCIDs' = Pop(freeCIDs)
  /\ usedCIDs' = usedCIDs \cup {Top(freeCIDs)}

(* Faulty variant of PoolRelease: the context id is not pushed back.       *)
PoolReleaseNoCID(s, c) ==
  /\ IF s \in 0..255 /\ s \in usedSubnets
     THEN /\ usedSubnets' = usedSubnets \ {s}
          /\ freeSubnets' = Append(freeSubnets, s)
     ELSE UNCHANGED <<usedSubnets, freeSubnets>>
  /\ usedCIDs' = usedCIDs \ {c}
  /\ UNCHANGED freeCIDs

(* Release is given the guest's address, 172.16.s.2/24, and parses the     *)
(* subnet index back out of its third octet; an address that does not      *)
(* parse leaves the subnet in use.  An index or id that is not marked used *)
(* is not pushed again.                                                    *)
PoolRelease(s, c) ==
  /\ IF s \in 0..255 /\ s \in usedSubnets
     THEN /\ usedSubnets' = usedSubnets \ {s}
          /\ freeSubnets' = Append(freeSubnets, s)
     ELSE UNCHANGED <<usedSubnets, freeSubnets>>
  /\ IF c \in usedCIDs
     THEN /\ usedCIDs' = usedCIDs \ {c}
          /\ freeCIDs' = Append(freeCIDs, c)
     ELSE UNCHANGED <<usedCIDs, freeCIDs>>

IpamTypeOK ==
  /\ freeSubnets \in Seq(Subnets)
  /\ usedSubnets \subseteq Subnets
  /\ freeCIDs \in Seq(CIDs)
  /\ usedCIDs \subseteq CIDs
=============================================================================
