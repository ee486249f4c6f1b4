------------------------------ MODULE Governor ------------------------------
(***************************************************************************)
(* The gate of the Scope Governor: ScopeGovernor.assert_allowed of         *)
(* authdiff/safety/governor.py and the state it reads, the kill switch and *)
(* the addresses pinned so far.  The pacing half of the class, the token   *)
(* bucket and the semaphore, is in TokenBucket and Egress.                 *)
(*                                                                         *)
(* A host is a name; whether it matches one of the allowed globs           *)
(* (fnmatch) and whether an address lies in one of the allowed networks    *)
(* (ipaddress) are the sets AllowHosts and AllowNets.  A URL without a     *)
(* host is one that matches no glob and never resolves.                    *)
(***************************************************************************)
CONSTANTS
  Hosts,
  Addresses,
  NoAddress,    \* what getaddrinfo leaves when it raises gaierror
  AllowHosts,   \* the hosts that match a pattern of allow_hosts
  AllowNets,    \* the addresses inside a network of allow_cidrs
  AllowWrites,  \* allow_writes
  PinDns,       \* pin_dns
  HasKillFile,  \* kill_switch_file is set
  KillEnv       \* AUTHDIFF_KILL=1 in the environment of the process

VARIABLES
  killed,    \* the event _killed
  killFile,  \* the file named by kill_switch_file exists
  pinned,    \* _pinned
  dns        \* what the resolver answers now

govVars == <<killed, killFile, pinned, dns>>

WRITE_METHODS == {"POST", "PUT", "PATCH", "DELETE"}

Init ==
  /\ killed = FALSE
  /\ killFile \in {FALSE, HasKillFile}
  /\ pinned = [h \in Hosts |-> NoAddress]
  /\ dns \in [Hosts -> Addresses \cup {NoAddress}]

KillEngaged == killed \/ killFile \/ KillEnv

(* The address a check uses: the pinned one, or a fresh resolution.        *)
Resolved(h) == IF pinned[h] # NoAddress THEN pinned[h] ELSE dns[h]

InScope(h) == h \in AllowHosts \/ Resolved(h) \in AllowNets

(* Mutant: the pin is not written.                                         *)
LookUpUnpinned(h) ==
  /\ ~KillEngaged
  /\ UNCHANGED <<killed, killFile, pinned, dns>>

(* Only a host that no glob admits is resolved, and pinned if it resolves. *)
LookUp(h) ==
  /\ ~KillEngaged
  /\ pinned' = IF h \notin AllowHosts /\ AllowNets # {} /\ PinDns
                 THEN [pinned EXCEPT ![h] = Resolved(h)]
                 ELSE pinned
  /\ UNCHANGED <<killed, killFile, dns>>

(* The four outcomes of assert_allowed(m, url of h).                       *)
RaiseKillSwitch ==
  /\ KillEngaged
  /\ UNCHANGED govVars

RaiseOutOfScope(h) ==
  /\ LookUp(h)
  /\ ~InScope(h)

RaiseNonDestructive(m, h) ==
  /\ LookUp(h)
  /\ InScope(h)
  /\ m \in WRITE_METHODS
  /\ ~AllowWrites

Allow(m, h) ==
  /\ LookUp(h)
  /\ InScope(h)
  /\ m \in WRITE_METHODS => AllowWrites

Refuse(m, h) ==
  RaiseKillSwitch \/ RaiseOutOfScope(h) \/ RaiseNonDestructive(m, h)

(* kill() *)
Kill ==
  /\ killed' = TRUE
  /\ UNCHANGED <<killFile, pinned, dns>>

(* The operator of the scan creates the kill file, or removes it.          *)
ToggleKillFile ==
  /\ HasKillFile
  /\ killFile' = ~killFile
  /\ UNCHANGED <<killed, pinned, dns>>

(* The name server changes its answer for h.                               *)
DnsChange(h, a) ==
  /\ dns' = [dns EXCEPT ![h] = a]
  /\ UNCHANGED <<killed, killFile, pinned>>

Environment ==
  \/ Kill
  \/ ToggleKillFile
  \/ \E h \in Hosts, a \in Addresses \cup {NoAddress} : DnsChange(h, a)

----------------------------------------------------------------------------

(* Types of the variables (ScopeGovernor.__init__, governor.py:72-82).     *)
GovTypeOK ==
  /\ killed \in BOOLEAN
  /\ killFile \in BOOLEAN
  /\ pinned \in [Hosts -> Addresses \cup {NoAddress}]
  /\ dns \in [Hosts -> Addresses \cup {NoAddress}]

=============================================================================
