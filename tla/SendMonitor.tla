----------------------------- MODULE SendMonitor ----------------------------
(***************************************************************************)
(* Counting properties of the send path.  The history variables only watch *)
(* SendPath's steps; no step depends on them.                              *)
(***************************************************************************)
EXTENDS SendPathInvariants

ASSUME SenderAssumption == IsFiniteSet(Sender)

VARIABLES
    late,  \* messages recorded for a target since a block on it came in force
    cut    \* sends of a target cut off between its message and its new state

Block == {"switch", "email", "domain"}

InForce(t, b) ==
    CASE b = "switch" -> Engaged
      [] b = "email" -> t \in emailSupp
      [] b = "domain" -> DomainOf[t] \in domainSupp

NewMessages(t) == Cardinality({m \in messages' \ messages : m.target = t})

CutOff(t) ==
    Cardinality({s \in Sender : /\ sd[s].tgt = t /\ sd[s].pc = "move"
                                /\ sd'[s].pc \notin {"move", "audit"}})

MonitorInit ==
    /\ Init
    /\ late = [t \in Target |-> [b \in Block |-> 0]]
    /\ cut = [t \in Target |-> 0]

Watch ==
    /\ late' = [t \in Target |-> [b \in Block |->
                   IF InForce(t, b) THEN late[t][b] + NewMessages(t) ELSE 0]]
    /\ cut' = [t \in Target |-> cut[t] + CutOff(t)]

MonitorNext == Next /\ Watch

MonitorSpec == MonitorInit /\ [][MonitorNext]_<<vars, late, cut>>

-----------------------------------------------------------------------------
\* Once the kill switch is engaged, or an address or a domain is suppressed,
\* each sending process records at most one more message for the target for
\* as long as the block lasts: the one whose gate had already read the old
\* value.
BlocksStopSends ==
    \A t \in Target, b \in Block : late[t][b] <= Cardinality(Sender)

\* A target is sent twice only if a send was cut off between its message row
\* and its transition, once for every extra message: the batch selection and
\* the gate's state check otherwise stop the second send.
DuplicatesNeedACut ==
    \A t \in Target :
        Cardinality({m \in messages : m.target = t}) <= 1 + cut[t]
=============================================================================
