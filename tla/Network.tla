------------------------------ MODULE Network ------------------------------
(***************************************************************************)
(* The host-side network resources of a VM: the Allocation of              *)
(* internal/core/network/allocation.go, with the TAP devices of tap.go and *)
(* the shared nftables sets of nftables.go.  An allocation is an element   *)
(* of Objs; it leases one subnet and one context id from the pool and      *)
(* records the cleanup of each host resource it has configured.            *)
(*                                                                         *)
(* Setup and Release run under the allocation's mutex but call the kernel  *)
(* several times, so each kernel call is a step and phase[o] says which    *)
(* operation holds the mutex.  Kernel calls fail at most MaxFaults times.  *)
(***************************************************************************)
EXTENDS Ipam

CONSTANTS
  Objs,           \* identities of the allocations that are ever made
  VmIds,          \* VM ids callers may ask for
  TapNames,       \* names of TAP devices
  uniqueTapName,  \* the truncated hash that names the TAP of a VM
  NoObj, NoVm,    \* "nil"
  MaxFaults       \* bound on failing kernel, nft and Firecracker calls

ASSUME TapAssumption == uniqueTapName \in [VmIds -> TapNames]
ASSUME NilAssumption == NoObj \notin Objs /\ NoVm \notin VmIds
ASSUME FaultsAssumption == MaxFaults \in Nat

VARIABLES
  vm,         \* vm[o]: id the allocation was acquired for, NoVm before Acquire
  subnet,     \* subnet[o]: leased subnet index
  cid,        \* cid[o]: leased context id
  cleanup,    \* cleanup[o]: recorded cleanup steps, oldest first
  released,   \* released[o]: the lease was returned to the pool
  phase,      \* phase[o]: who holds the allocation's mutex
  left,       \* left[o]: cleanup steps the running Release has still to try
  remaining,  \* remaining[o]: cleanup steps the running Release failed to do
  taps,       \* taps[n]: allocation whose Setup added the TAP n, or NoObj
  guestTaps,  \* nft set guest_taps
  allowed,    \* nft sets guest_tcp_allow and guest_udp_allow: <<tap, subnet>>
  faults      \* failures still to come

leaseVars == <<vm, subnet, cid, cleanup, released, phase, left, remaining>>
linkVars == <<taps, guestTaps, allowed>>
netVars == <<ipamVars, leaseVars, linkVars, faults>>

Steps == {"tap", "firewall"}
Phases == {"unlocked", "setup", "release"}

Held(o) == vm[o] # NoVm /\ ~released[o]
tapName(o) == uniqueTapName[vm[o]]

(* An external call may fail k times more.                                 *)
Fail(k) == faults >= k /\ faults' = faults - k

NetInit ==
  /\ IpamInit
  /\ vm = [o \in Objs |-> NoVm]
  /\ subnet = [o \in Objs |-> 0]
  /\ cid = [o \in Objs |-> MinGuestCID]
  /\ cleanup = [o \in Objs |-> <<>>]
  /\ released = [o \in Objs |-> FALSE]
  /\ phase = [o \in Objs |-> "unlocked"]
  /\ left = [o \in Objs |-> 0]
  /\ remaining = [o \in Objs |-> <<>>]
  /\ taps = [n \in TapNames |-> NoObj]
  /\ guestTaps = {}
  /\ allowed = {}
  /\ faults = MaxFaults

-----------------------------------------------------------------------------
(* Acquire: allocation o is made for VM v with the addresses the pool pops. *)
Acquire(o, v) ==
  /\ vm[o] = NoVm
  /\ PoolAllocate
  /\ vm' = [vm EXCEPT ![o] = v]
  /\ subnet' = [subnet EXCEPT ![o] = Top(freeSubnets)]
  /\ cid' = [cid EXCEPT ![o] = Top(freeCIDs)]
  /\ UNCHANGED <<cleanup, released, phase, left, remaining, linkVars, faults>>

(* Setup refuses an allocation that was released or already set up.        *)
SetupRefused(o) ==
  /\ phase[o] = "unlocked" /\ vm[o] # NoVm
  /\ released[o] \/ cleanup[o] # <<>>
  /\ UNCHANGED netVars

SetupEnabled(o) ==
  phase[o] = "unlocked" /\ vm[o] # NoVm /\ ~released[o] /\ cleanup[o] = <<>>

(* SetupTAP brings the device up and Setup records its cleanup.            *)
SetupTAP(o) ==
  /\ SetupEnabled(o)
  /\ taps[tapName(o)] = NoObj
  /\ taps' = [taps EXCEPT ![tapName(o)] = o]
  /\ cleanup' = [cleanup EXCEPT ![o] = <<"tap">>]
  /\ phase' = [phase EXCEPT ![o] = "setup"]
  /\ UNCHANGED <<ipamVars, vm, subnet, cid, released, left, remaining,
                 guestTaps, allowed, faults>>

(* SetupTAP fails: the name is taken, or LinkAdd fails, or LinkSetUp fails *)
(* and the device is removed again, or LinkSetUp and LinkDel both fail and *)
(* the device stays.  In no case does Setup record a cleanup.              *)
SetupTAPFails(o) ==
  /\ SetupEnabled(o)
  /\ \/ taps[tapName(o)] # NoObj /\ UNCHANGED <<taps, faults>>
     \/ taps[tapName(o)] = NoObj /\ Fail(1) /\ UNCHANGED taps
     \/ /\ taps[tapName(o)] = NoObj /\ Fail(2)
        /\ taps' = [taps EXCEPT ![tapName(o)] = o]
  /\ UNCHANGED <<ipamVars, leaseVars, guestTaps, allowed>>

(* SetupFirewall adds the VM's elements in one nft transaction; adding an  *)
(* element that is there is not an error.  Setup records the cleanup.      *)
SetupFirewall(o) ==
  /\ phase[o] = "setup"
  /\ guestTaps' = guestTaps \cup {tapName(o)}
  /\ allowed' = allowed \cup {<<tapName(o), subnet[o]>>}
  /\ cleanup' = [cleanup EXCEPT ![o] = Append(@, "firewall")]
  /\ phase' = [phase EXCEPT ![o] = "unlocked"]
  /\ UNCHANGED <<ipamVars, vm, subnet, cid, released, left, remaining, taps, faults>>

(* Faulty variant of SetupFirewallFails: returns with the mutex locked.    *)
SetupFirewallFailsLocked(o) ==
  /\ phase[o] = "setup" /\ Fail(1)
  /\ UNCHANGED <<ipamVars, leaseVars, linkVars>>

SetupFirewallFails(o) ==
  /\ phase[o] = "setup" /\ Fail(1)
  /\ phase' = [phase EXCEPT ![o] = "unlocked"]
  /\ UNCHANGED <<ipamVars, vm, subnet, cid, cleanup, released, left, remaining,
                 linkVars>>

-----------------------------------------------------------------------------
(* Release of a released allocation returns nil at once.                   *)
ReleaseDone(o) ==
  phase[o] = "unlocked" /\ released[o] /\ UNCHANGED netVars

(* Otherwise it takes the mutex and walks the cleanup list from its end.   *)
ReleaseBegin(o) ==
  /\ phase[o] = "unlocked" /\ Held(o)
  /\ phase' = [phase EXCEPT ![o] = "release"]
  /\ left' = [left EXCEPT ![o] = Len(cleanup[o])]
  /\ remaining' = [remaining EXCEPT ![o] = <<>>]
  /\ UNCHANGED <<ipamVars, vm, subnet, cid, cleanup, released, linkVars, faults>>

ReleaseAt(o, step) ==
  /\ phase[o] = "release" /\ left[o] > 0 /\ cleanup[o][left[o]] = step
  /\ left' = [left EXCEPT ![o] = @ - 1]
  /\ UNCHANGED <<ipamVars, vm, subnet, cid, cleanup, released, phase>>

(* CleanupTAP deletes the device by name; a missing device is not an error. *)
CleanupTAP(o) ==
  /\ ReleaseAt(o, "tap")
  /\ taps' = [taps EXCEPT ![tapName(o)] = NoObj]
  /\ UNCHANGED <<remaining, guestTaps, allowed, faults>>

(* The nft transaction that deletes a VM's elements fails as a whole when  *)
(* one of them is missing.                                                 *)
ElementsPresent(o) ==
  tapName(o) \in guestTaps /\ <<tapName(o), subnet[o]>> \in allowed

CleanupFirewall(o) ==
  /\ ReleaseAt(o, "firewall") /\ ElementsPresent(o)
  /\ guestTaps' = guestTaps \ {tapName(o)}
  /\ allowed' = allowed \ {<<tapName(o), subnet[o]>>}
  /\ UNCHANGED <<remaining, taps, faults>>

(* A step that fails is kept for the next Release.                         *)
CleanupFails(o) ==
  \E step \in Steps :
    /\ ReleaseAt(o, step)
    /\ remaining' = [remaining EXCEPT ![o] = Append(@, step)]
    /\ \/ Fail(1)
       \/ step = "firewall" /\ ~ElementsPresent(o) /\ UNCHANGED faults
    /\ UNCHANGED linkVars

(* Release returns an error and keeps the lease ...                        *)
ReleaseFails(o) ==
  /\ phase[o] = "release" /\ left[o] = 0 /\ remaining[o] # <<>>
  /\ cleanup' = [cleanup EXCEPT ![o] = remaining[o]]
  /\ phase' = [phase EXCEPT ![o] = "unlocked"]
  /\ remaining' = [remaining EXCEPT ![o] = <<>>]
  /\ UNCHANGED <<ipamVars, vm, subnet, cid, released, left, linkVars, faults>>

(* Faulty variant of ReleaseEnd: pending cleanups are forgotten.           *)
ReleaseEndAnyway(o) ==
  /\ phase[o] = "release" /\ left[o] = 0
  /\ cleanup' = [cleanup EXCEPT ![o] = <<>>]
  /\ PoolRelease(subnet[o], cid[o])
  /\ released' = [released EXCEPT ![o] = TRUE]
  /\ phase' = [phase EXCEPT ![o] = "unlocked"]
  /\ UNCHANGED <<vm, subnet, cid, left, remaining, linkVars, faults>>

(* ... or gives the addresses back to the pool.                            *)
ReleaseEnd(o) ==
  /\ phase[o] = "release" /\ left[o] = 0 /\ remaining[o] = <<>>
  /\ cleanup' = [cleanup EXCEPT ![o] = <<>>]
  /\ PoolRelease(subnet[o], cid[o])
  /\ released' = [released EXCEPT ![o] = TRUE]
  /\ phase' = [phase EXCEPT ![o] = "unlocked"]
  /\ UNCHANGED <<vm, subnet, cid, left, remaining, linkVars, faults>>

-----------------------------------------------------------------------------
(* The allocation used on its own: callers acquire, set up and release in  *)
(* any order, and retry a failed Release.                                  *)
NetStep(o) ==
  \/ \E v \in VmIds : Acquire(o, v)
  \/ SetupRefused(o) \/ SetupTAP(o) \/ SetupTAPFails(o)
  \/ SetupFirewall(o) \/ SetupFirewallFails(o)
  \/ ReleaseDone(o) \/ ReleaseBegin(o)
  \/ CleanupTAP(o) \/ CleanupFirewall(o) \/ CleanupFails(o)
  \/ ReleaseFails(o) \/ ReleaseEnd(o)

NetNext == \E o \in Objs : NetStep(o)

NetSpec == NetInit /\ [][NetNext]_netVars

-----------------------------------------------------------------------------
(* Every variable keeps its type.                                          *)
NetTypeOK ==
  /\ IpamTypeOK
  /\ vm \in [Objs -> VmIds \cup {NoVm}]
  /\ subnet \in [Objs -> Subnets]
  /\ cid \in [Objs -> CIDs]
  /\ cleanup \in [Objs -> Seq(Steps)]
  /\ released \in [Objs -> BOOLEAN]
  /\ phase \in [Objs -> Phases]
  /\ left \in [Objs -> Nat]
  /\ remaining \in [Objs -> Seq(Steps)]
  /\ taps \in [TapNames -> Objs \cup {NoObj}]
  /\ guestTaps \subseteq TapNames
  /\ allowed \subseteq TapNames \X Subnets
  /\ faults \in Nat

(* No two allocations that still hold their lease share a subnet or a      *)
(* context id, however Acquire and Release interleave (Allocate/Release of *)
(* the pool and the released flag of the allocation).                      *)
LeasesDisjoint ==
  \A o, p \in Objs :
    o # p /\ Held(o) /\ Held(p) => subnet[o] # subnet[p] /\ cid[o] # cid[p]

(* The pool and the leases agree: the used addresses are exactly those of  *)
(* the leases that were acquired and not released, and the free stacks     *)
(* list each other address once, so that no Release hands an address back  *)
(* twice.  A lease that nobody releases any more stays used.               *)
PoolAccounted ==
  /\ usedSubnets = {subnet[o] : o \in {p \in Objs : Held(p)}}
  /\ usedCIDs = {cid[o] : o \in {p \in Objs : Held(p)}}
  /\ IsInjective(freeSubnets) /\ Range(freeSubnets) = Subnets \ usedSubnets
  /\ IsInjective(freeCIDs) /\ Range(freeCIDs) = CIDs \ usedCIDs

(* Every element in the shared nft sets belongs to an allocation that      *)
(* still holds its lease and still has the firewall cleanup on its list,   *)
(* across failed and retried releases: the lease is never returned while   *)
(* an element of its VM is installed.                                      *)
FirewallOwned ==
  /\ \A n \in guestTaps : \E o \in Objs :
       Held(o) /\ tapName(o) = n /\ "firewall" \in Range(cleanup[o])
  /\ \A e \in allowed : \E o \in Objs :
       /\ Held(o) /\ e = <<tapName(o), subnet[o]>>
       /\ "firewall" \in Range(cleanup[o])
=============================================================================
