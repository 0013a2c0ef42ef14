----------------------------- MODULE Admission -----------------------------
(***************************************************************************)
(* Admission control of the relay and signaling servers (limits.rs): the   *)
(* ConnectionGuard's counters and the leases that hold its capacity.       *)
(*                                                                         *)
(* try_admit runs under the lock of the per-address map.  Dropping a lease *)
(* does not: it lowers the total first and takes the lock afterwards, so   *)
(* other connections are admitted between the two.                         *)
(***************************************************************************)
EXTENDS Naturals, FiniteSets

CONSTANTS
    Conns,              \* sockets clients open to the server
    IpOf,               \* IpOf[c]: the address c comes from
    MaxConnections,     \* ServerLimits::max_connections
    MaxPerIp            \* ServerLimits::max_connections_per_ip

ASSUME AdmissionAssumption ==
    /\ IsFiniteSet(Conns)
    /\ IpOf \in [Conns -> {IpOf[c] : c \in Conns}]
    /\ MaxConnections \in Nat
    /\ MaxPerIp \in Nat

VARIABLES
    total,      \* ConnectionGuard::total
    perIp,      \* ConnectionGuard::per_ip, 0 where the map has no entry
    lease       \* lease[c]: "none", "held", or "half" while it is dropped

admissionVars == <<total, perIp, lease>>

Ips == {IpOf[c] : c \in Conns}

AdmissionInit ==
    /\ total = 0
    /\ perIp = [ip \in Ips |-> 0]
    /\ lease = [c \in Conns |-> "none"]

\* Mutant: the cap of one address is off by one.
HasCapacityLate(c) == total < MaxConnections /\ perIp[IpOf[c]] <= MaxPerIp

\* try_admit looks at both counters before it changes any.
HasCapacity(c) == total < MaxConnections /\ perIp[IpOf[c]] < MaxPerIp

\* try_admit returns a lease.
Admit(c) ==
    /\ lease[c] = "none"
    /\ HasCapacity(c)
    /\ total' = total + 1
    /\ perIp' = [perIp EXCEPT ![IpOf[c]] = @ + 1]
    /\ lease' = [lease EXCEPT ![c] = "held"]

\* ConnectionLease::drop, up to the lock.
ReleaseTotal(c) ==
    /\ lease[c] = "held"
    /\ total' = total - 1
    /\ lease' = [lease EXCEPT ![c] = "half"]
    /\ UNCHANGED perIp

\* ConnectionLease::drop, under the lock.
ReleaseIp(c) ==
    /\ lease[c] = "half"
    /\ perIp' = [perIp EXCEPT ![IpOf[c]] = IF @ = 0 THEN 0 ELSE @ - 1]
    /\ lease' = [lease EXCEPT ![c] = "none"]
    /\ UNCHANGED total

AdmissionTypeOK ==
    /\ total \in Nat
    /\ perIp \in [Ips -> Nat]
    /\ lease \in [Conns -> {"none", "held", "half"}]

Holding(states) == {c \in Conns : lease[c] \in states}

\* No count drifts: each is the number of connections that hold it, however
\* connections come and go and leases are dropped, and both caps hold.
CountsAreExact ==
    /\ total = Cardinality(Holding({"held"}))
    /\ total <= MaxConnections
    /\ \A ip \in Ips :
          /\ perIp[ip] =
                Cardinality({c \in Holding({"held", "half"}) : IpOf[c] = ip})
          /\ perIp[ip] <= MaxPerIp

=============================================================================
