--------------------------- MODULE HostAssignment ---------------------------
(***************************************************************************)
(* Which nodes a proxy instance connects its clients to, and what it tells *)
(* the drivers about the other instances.  Every instance computes, from   *)
(* the same ordered list of hosts and its own place among the instances,   *)
(* the hosts assigned to it, and hands them to new clients in turn with a  *)
(* counter that concurrent callers share; to the drivers the instances     *)
(* present themselves as the nodes of a ring of tokens.                    *)
(*                                                                         *)
(* A host is its position in the ordered list.  shuffleHosts only permutes *)
(* the assigned hosts, so they appear here by their number.                *)
(***************************************************************************)
EXTENDS Integers, FiniteSets

CONSTANTS
    Callers,       \* goroutines in handleNewConnection
    MaxHosts,      \* bound on the hosts of the local datacenter
    MaxInstances,  \* bound on the proxy instances
    MaxTokens,     \* bound on proxy_topology_num_tokens, 256 in the code
    Ring,          \* the size of the token ring, 2^64 in the code
    MaxRefreshes   \* bound on the topology refreshes

ASSUME AssignmentAssumption ==
    /\ IsFiniteSet(Callers)
    /\ MaxHosts \in Nat \ {0} /\ MaxInstances \in Nat \ {0}
    /\ MaxTokens \in Nat \ {0} /\ Ring \in Nat
    /\ MaxTokens * MaxInstances <= Ring
    /\ MaxRefreshes \in Nat

VARIABLES
    config,             \* TopologyConfig: Index, Count and NumTokens
    hosts,              \* len(orderedHostsInLocalDc)
    currentAssignment,  \* the shared counter
    pc, value,          \* the place and the local value of every caller
    picks,              \* how often each assigned host was handed out since the
                        \* last refresh, full rounds left out
    refreshes           \* refreshes so far

assignmentVars == <<config, hosts, currentAssignment, pc, value, picks, refreshes>>

Configs == [index : 0..MaxInstances - 1, count : 1..MaxInstances,
            numTokens : 1..MaxTokens]

-----------------------------------------------------------------------------
\* The list is counted off by the number of hosts.
AssignByHosts(index, count, n) == {k \in 0..n - 1 : k % n = index % n}

\* The list is counted off by the number of instances; an instance that has
\* no host of its own, because there are more instances than hosts, gets one
\* that another has as well.
computeAssignedHosts(index, count, n) ==
    {k \in 0..n - 1 : k % count = index % n}

Assigned == computeAssignedHosts(config.index, config.count, hosts)
NumAssigned == Cardinality(Assigned)

\* The remainder of Go, which has the sign of the dividend.
Rem(a, b) == IF a >= 0 THEN a % b ELSE -((-a) % b)

\* The tokens of a host follow each other by the number of tokens.
TokenByNumTokens(i, t) ==
    (Ring \div (config.numTokens * config.count)) * (t * config.numTokens + i)
      - Ring \div 2

\* Token t of virtual host i, as computeVirtualHosts places it.
Token(i, t) ==
    (Ring \div (config.numTokens * config.count)) * (t * config.count + i)
      - Ring \div 2

AssignmentTypeOK ==
    /\ config \in Configs
    /\ hosts \in 1..MaxHosts
    /\ currentAssignment \in Int
    /\ pc \in [Callers -> {"idle", "wrap", "index"}]
    /\ value \in [Callers -> Int]
    /\ picks \in [0..MaxHosts - 1 -> Nat]
    /\ refreshes \in 0..MaxRefreshes

\* ParseTopologyConfig has accepted the configuration and the first topology is
\* known.
AssignmentInit ==
    /\ config \in {c \in Configs : c.index < c.count}
    /\ hosts \in 1..MaxHosts
    /\ currentAssignment = 0
    /\ pc = [c \in Callers |-> "idle"]
    /\ value = [c \in Callers |-> 0]
    /\ picks = [k \in 0..MaxHosts - 1 |-> 0]
    /\ refreshes = 0

\* Counts of which a full round, one for every assigned host, is taken off.
WithoutRounds(p) ==
    IF \A k \in 0..NumAssigned - 1 : p[k] > 0
    THEN [k \in DOMAIN p |-> IF p[k] > 0 THEN p[k] - 1 ELSE 0]
    ELSE p

\* NextAssignedHost takes the read lock, and the counter is incremented.
IncCurrentAssignment(c) ==
    /\ pc[c] = "idle"
    /\ currentAssignment' = currentAssignment + 1
    /\ LET v == Rem(currentAssignment + 1, NumAssigned) IN
         /\ value' = [value EXCEPT ![c] = v]
         /\ pc' = [pc EXCEPT ![c] = IF v = 0 THEN "wrap" ELSE "index"]
         /\ picks' = WithoutRounds([picks EXCEPT ![v] = @ + 1])
    /\ UNCHANGED <<config, hosts, refreshes>>

\* The counter is set back to zero instead.
WrapToZero(c) ==
    /\ pc[c] = "wrap"
    /\ currentAssignment' = 0
    /\ pc' = [pc EXCEPT ![c] = "index"]
    /\ UNCHANGED <<config, hosts, value, picks, refreshes>>

\* Whoever reaches a multiple of the number of hosts takes that number off the
\* counter again, in a second atomic step.
WrapCurrentAssignment(c) ==
    /\ pc[c] = "wrap"
    /\ currentAssignment' = currentAssignment - NumAssigned
    /\ pc' = [pc EXCEPT ![c] = "index"]
    /\ UNCHANGED <<config, hosts, value, picks, refreshes>>

\* assignedHosts[assignment] is read and the lock released.
ReturnHost(c) ==
    /\ pc[c] = "index"
    /\ pc' = [pc EXCEPT ![c] = "idle"]
    /\ UNCHANGED <<config, hosts, currentAssignment, value, picks, refreshes>>

\* RefreshHosts stores another list of hosts under the write lock; the counter
\* stays as it is.
RefreshHosts ==
    /\ \A c \in Callers : pc[c] = "idle"
    /\ refreshes < MaxRefreshes
    /\ refreshes' = refreshes + 1
    /\ hosts' \in 1..MaxHosts
    /\ picks' = [k \in DOMAIN picks |-> 0]
    /\ UNCHANGED <<config, currentAssignment, pc, value>>

AssignmentNext ==
    \/ \E c \in Callers :
         IncCurrentAssignment(c) \/ WrapCurrentAssignment(c) \/ ReturnHost(c)
    \/ RefreshHosts

AssignmentSpec == AssignmentInit /\ [][AssignmentNext]_assignmentVars

-----------------------------------------------------------------------------
\* Every index a caller uses is one of the assigned hosts, and there is one:
\* whatever the interleaving of the two steps on the counter and however the
\* topology changes, the counter does not go negative and nobody divides by
\* zero or reads outside assignedHosts.
IndexInRange ==
    /\ NumAssigned > 0
    /\ \A c \in Callers : pc[c] # "idle" => value[c] \in 0..NumAssigned - 1

\* Every client gets one of the assigned hosts, and between two refreshes they
\* are handed out in turn: no host is more than one client ahead of another
\* (incCurrentAssignmentCounter).
Balanced ==
    /\ IndexInRange
    /\ \A j, k \in 0..NumAssigned - 1 : picks[j] - picks[k] <= 1

\* Together the instances serve every host, and none serves two hosts more
\* than another (computeAssignedHosts).
SharesAreEven ==
    /\ \A k \in 0..hosts - 1 : \E i \in 0..config.count - 1 :
         k \in computeAssignedHosts(i, config.count, hosts)
    /\ \A i, j \in 0..config.count - 1 :
         Cardinality(computeAssignedHosts(i, config.count, hosts))
           - Cardinality(computeAssignedHosts(j, config.count, hosts)) <= 1

\* The virtual hosts divide the ring: no two of their tokens are equal, and
\* each lies within the ring (computeVirtualHosts).
Places == (0..config.count - 1) \X (0..config.numTokens - 1)
TokensDistinct ==
    /\ \A p, q \in Places : p # q => Token(p[1], p[2]) # Token(q[1], q[2])
    /\ \A p \in Places : Token(p[1], p[2]) \in -(Ring \div 2)..Ring - Ring \div 2 - 1
=============================================================================
