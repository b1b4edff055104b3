----------------------------- MODULE WriteGate ------------------------------
(***************************************************************************)
(* commit() of the write gate, the path of every write to a core table:    *)
(* the registry is asked before the transaction begins; the transaction    *)
(* holds the row and its audit row.  Of the tables, the two that this side *)
(* of the system writes: agent_registry and meetings.                      *)
(***************************************************************************)
EXTENDS Naturals, Sequences, FiniteSets

CONSTANTS
    Conn,      \* processes, each with a connection of its own
    Dialect    \* "sqlite" or "postgres": what begin_write() issues

ASSUME DialectAssumption == Dialect \in {"sqlite", "postgres"}

VARIABLES
    registry,  \* agent_registry, a function on the agents that have a row
    meetings,  \* meetings, in insertion order
    writeLog,  \* write_log: <<action, agent_id, record_id>>
    tx         \* what each connection's call of commit() is doing

gateVars == <<registry, meetings, writeLog, tx>>

\* The actions of this side, and the two of the seven agents that write here:
\* the seeder is "system", whose own registry row nothing here reads.
KNOWN_ACTIONS == {"insert_agent_registry", "insert_meeting"}
Agent == {"system", "meeting_scheduler"}
SEED_ROWS == <<"meeting_scheduler">>

GatePC == {"none", "check", "begin", "execute", "log", "commit",
           "done", "refused", "raised"}

\* record: the agent a registry row is about, or the row of a meeting.
\* open: a transaction is open.  wrote: its statement has run.
NoCall == [pc |-> "none", action |-> "insert_meeting", agent |-> "system",
           record |-> "none", open |-> FALSE, wrote |-> FALSE]

\* A registry in a database of an earlier version knows fewer agents, and
\* fewer actions for them.
GateInit ==
    /\ \E known \in SUBSET {"meeting_scheduler"} :
           registry = [a \in known |-> [enabled |-> TRUE,
                                        actions |-> {"insert_agent_registry"}]]
    /\ meetings = <<>> /\ writeLog = {}
    /\ tx = [c \in Conn |-> NoCall]

GateTypeOK ==
    /\ DOMAIN registry \subseteq Agent
    /\ \A a \in DOMAIN registry :
           /\ registry[a].enabled \in BOOLEAN
           /\ registry[a].actions \subseteq KNOWN_ACTIONS
    /\ \A c \in Conn : /\ tx[c].pc \in GatePC
                       /\ tx[c].action \in KNOWN_ACTIONS /\ tx[c].agent \in Agent

GateAt(c, pc) == tx[c].pc = pc

GateGoto(c, pc) == tx' = [tx EXCEPT ![c].pc = pc]

\* commit() is called.
Submit(c, action, agent, record) ==
    tx' = [tx EXCEPT ![c] = [NoCall EXCEPT !.pc = "check", !.action = action,
                                           !.agent = agent, !.record = record]]

\* The call has returned or raised, or the process is gone.
Forget(c) == tx' = [tx EXCEPT ![c] = NoCall]

-----------------------------------------------------------------------------
EntryOf(c) == <<tx[c].action, tx[c].agent, tx[c].record>>

\* Registry writes are exempt: they are what fills the registry.
Refused(c) ==
    /\ tx[c].action # "insert_agent_registry"
    /\ \/ tx[c].agent \notin DOMAIN registry
       \/ ~registry[tx[c].agent].enabled
       \/ tx[c].action \notin registry[tx[c].agent].actions

\* Faulty variant: the enabled column is not looked at.
CheckAgentIgnoresEnabled(c) ==
    /\ GateAt(c, "check")
    /\ GateGoto(c, IF /\ tx[c].action # "insert_agent_registry"
                      /\ tx[c].agent \notin DOMAIN registry
                   THEN "refused" ELSE "begin")
    /\ UNCHANGED <<registry, meetings, writeLog>>

\* Every check reads what is committed now, outside any transaction.
CheckAgent(c) ==
    /\ GateAt(c, "check")
    /\ GateGoto(c, IF Refused(c) THEN "refused" ELSE "begin")
    /\ UNCHANGED <<registry, meetings, writeLog>>

\* begin_write(): SQLite takes the one write lock, Postgres takes none.
Begin(c) ==
    /\ GateAt(c, "begin")
    /\ Dialect = "sqlite" => \A d \in Conn : ~tx[d].open
    /\ tx' = [tx EXCEPT ![c].pc = "execute", ![c].open = TRUE]
    /\ UNCHANGED <<registry, meetings, writeLog>>

\* Faulty variant: the seeding statement overwrites every column.
UpsertEnables(a) ==
    registry' = [b \in DOMAIN registry \cup {a} |->
                     IF b = a THEN [enabled |-> TRUE, actions |-> KNOWN_ACTIONS]
                     ELSE registry[b]]

\* INSERT ... ON CONFLICT DO UPDATE: a row that exists keeps its enabled.
Upsert(a) ==
    registry' = [b \in DOMAIN registry \cup {a} |->
                     IF b = a
                     THEN [enabled |-> a \in DOMAIN registry => registry[a].enabled,
                           actions |-> KNOWN_ACTIONS]
                     ELSE registry[b]]

\* The statement takes effect.
Apply(c) ==
    \/ /\ tx[c].action = "insert_agent_registry"
       /\ Upsert(tx[c].record) /\ UNCHANGED meetings
    \/ /\ tx[c].action = "insert_meeting"
       /\ meetings' = Append(meetings, tx[c].record) /\ UNCHANGED registry

\* SQLite has one write lock, taken at BEGIN; Postgres locks the rows that a
\* transaction has written until that transaction ends.
Locks(d, agent) ==
    /\ tx[d].open
    /\ \/ Dialect = "sqlite"
       \/ tx[d].wrote /\ tx[d].action = "insert_agent_registry" /\ tx[d].record = agent

\* Faulty variant: without a transaction a statement is visible at once.
ExecuteAtOnce(c) ==
    /\ GateAt(c, "execute")
    /\ tx' = [tx EXCEPT ![c].pc = "log", ![c].wrote = TRUE]
    /\ Apply(c)
    /\ UNCHANGED writeLog

\* Inside the transaction nobody else sees the row yet.
Execute(c) ==
    /\ GateAt(c, "execute")
    /\ tx[c].action = "insert_agent_registry" =>
           \A d \in Conn \ {c} : ~Locks(d, tx[c].record)
    /\ tx' = [tx EXCEPT ![c].pc = "log", ![c].wrote = TRUE]
    /\ UNCHANGED <<registry, meetings, writeLog>>

LogWrite(c) ==
    /\ GateAt(c, "log")
    /\ GateGoto(c, "commit")
    /\ UNCHANGED <<registry, meetings, writeLog>>

\* COMMIT makes visible what the transaction holds: the row and its audit row.
Commit(c) ==
    /\ GateAt(c, "commit")
    /\ tx' = [tx EXCEPT ![c] = [NoCall EXCEPT !.pc = "done"]]
    /\ Apply(c)
    /\ writeLog' = writeLog \cup {EntryOf(c)}

\* A statement raises (the wait for a lock times out, the connection fails):
\* ROLLBACK, and the exception goes on to the caller.
FailWrite(c) ==
    /\ tx[c].pc \in {"begin", "execute", "log", "commit"}
    /\ tx' = [tx EXCEPT ![c] = [NoCall EXCEPT !.pc = "raised"]]
    /\ UNCHANGED <<registry, meetings, writeLog>>

GateStep(c) ==
    \/ CheckAgent(c) \/ Begin(c) \/ Execute(c) \/ LogWrite(c) \/ Commit(c)
    \/ FailWrite(c)
=============================================================================
