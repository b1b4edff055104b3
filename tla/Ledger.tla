------------------------------- MODULE Ledger -------------------------------
(***************************************************************************)
(* What the write gate promises: a row appears in a core table and in the  *)
(* audit log in one step, and a writer needs a permit, given to it while   *)
(* the agent it writes for was enabled and good for one write.  The rows   *)
(* of the registry itself need none.                                       *)
(***************************************************************************)
CONSTANTS
    Conn,    \* connections that write
    Agent    \* principals of the registry

VARIABLES
    known,    \* agents with a row in the registry
    enabled,  \* those of them that may write
    permit,   \* the agent a connection holds a permit for, or "none"
    rows,     \* writes whose row is in its table: <<action, agent, record>>
    log       \* writes whose row is in write_log

ledger == <<known, enabled, permit, rows, log>>

Init ==
    /\ known \in SUBSET Agent /\ enabled \in SUBSET known
    /\ permit = [c \in Conn |-> "none"]
    /\ rows = {} /\ log = {}

Grant(c, a) ==
    /\ a \in enabled
    /\ permit' = [permit EXCEPT ![c] = a]
    /\ UNCHANGED <<known, enabled, rows, log>>

Drop(c) ==
    /\ permit' = [permit EXCEPT ![c] = "none"]
    /\ UNCHANGED <<known, enabled, rows, log>>

\* A seeding run writes an agent's registry row: a new agent is enabled, one
\* that is known stays as it is.
Register(c, e) ==
    /\ e[1] = "insert_agent_registry"
    /\ rows' = rows \cup {e} /\ log' = log \cup {e}
    /\ known' = known \cup {e[3]}
    /\ enabled' = enabled \cup ({e[3]} \ known)
    /\ UNCHANGED permit

Record(c, e) ==
    /\ e[1] # "insert_agent_registry"
    /\ permit[c] = e[2]
    /\ rows' = rows \cup {e} /\ log' = log \cup {e}
    /\ permit' = [permit EXCEPT ![c] = "none"]
    /\ UNCHANGED <<known, enabled>>

\* An operator enables or disables agents.
Switch ==
    /\ enabled' \in SUBSET known
    /\ UNCHANGED <<known, permit, rows, log>>

Next ==
    \/ \E c \in Conn : \/ Drop(c) \/ \E a \in Agent : Grant(c, a)
                       \/ \E e \in rows' : Register(c, e) \/ Record(c, e)
    \/ Switch

Spec == Init /\ [][Next]_ledger
=============================================================================
