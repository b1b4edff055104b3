------------------------------- MODULE Booking ------------------------------
(***************************************************************************)
(* Several draft processes reserve meetings through the write gate, while  *)
(* an operator enables and disables the scheduling agent.                  *)
(***************************************************************************)
EXTENDS Scheduling

VARIABLES
    wish,     \* what the operator last asked for the scheduling agent
    late,     \* meetings inserted since the agent was disabled
    overlap   \* targets two calls were at work on at a time

vars == <<gateVars, schedVars, wish, late, overlap>>

Init == GateInit /\ SchedInit /\ wish = TRUE /\ late = 0 /\ overlap = {}

\* The three watch the steps; no step depends on them.
Watch ==
    /\ UNCHANGED wish
    /\ late' = IF wish THEN 0 ELSE late + Len(meetings') - Len(meetings)
    /\ overlap' = overlap \cup
           {t \in Target : \E c, d \in Conn :
               c # d /\ sc'[c].pc # "idle" /\ sc'[c].tgt = t
                     /\ sc'[d].pc # "idle" /\ sc'[d].tgt = t}

\* The enabled column of the scheduling agent is set by hand.
SetEnabled ==
    /\ "meeting_scheduler" \in DOMAIN registry
    /\ \A c \in Conn : ~Locks(c, "meeting_scheduler")
    /\ wish' = ~wish
    /\ registry' = [registry EXCEPT !["meeting_scheduler"].enabled = ~wish]
    /\ late' = 0
    /\ UNCHANGED <<meetings, writeLog, tx, schedVars, overlap>>

Next ==
    \/ \E c \in Conn : SchedStep(c) /\ Watch
    \/ Tick /\ Watch
    \/ SetEnabled

Spec == Init /\ [][Next]_vars

-----------------------------------------------------------------------------
\* Rows, calls and transactions have their types.
TypeOK == GateTypeOK /\ SchedTypeOK

\* The gate seen as a Ledger: a write past its check has a permit.
EnabledAgents == {a \in DOMAIN registry : registry[a].enabled}

Permit == [c \in Conn |-> IF /\ tx[c].action # "insert_agent_registry"
                             /\ tx[c].pc \in {"begin", "execute", "log", "commit"}
                          THEN tx[c].agent ELSE "none"]

Entered ==
    {<<"insert_agent_registry", "system", a>> :
         a \in {b \in DOMAIN registry : registry[b].actions = KNOWN_ACTIONS}}
    \cup {<<"insert_meeting", "meeting_scheduler", meetings[i]>> : i \in DOMAIN meetings}

\* The gate implements the promise of Ledger: a row and its audit row appear in
\* one step, in the name of an agent that was enabled when the gate asked.
L == INSTANCE Ledger WITH known <- DOMAIN registry, enabled <- EnabledAgents,
                          permit <- Permit, rows <- Entered, log <- writeLog

KeepsLedger == L!Spec

\* An agent an operator has disabled stays disabled, although every process
\* that starts writes the agent's registry row anew.
DisableSurvivesSeeding ==
    "meeting_scheduler" \in DOMAIN registry =>
        registry["meeting_scheduler"].enabled = wish

\* After an agent is disabled, each connection writes at most one more row for
\* it: the one whose check had read the old value.  This holds of the fallback's
\* row as well, which the registry's comment would have written all the same:
\* see DisabledSchedulerDegrades.
DisableStopsWrites == late <= Cardinality(Conn)

\* All footers of a target name one slot, whatever is killed or repeated in
\* between, unless two processes were at work on the target at a time.
OffersAgree ==
    \A t \in Target \ overlap : \A o1, o2 \in offered :
        o1[1] = t /\ o2[1] = t => o1 = o2

\* What a footer offers is reserved in the table.
OfferIsReserved ==
    \A o \in offered : \E i \in DOMAIN meetings :
        meetings[i].target = o[1] /\ meetings[i].slot = o[2]

SameSlot(i, j) == i < j /\ meetings[i].slot = meetings[j].slot

\* Two meetings share a slot for one of three reasons: the earlier row came in
\* after the later one's process had read the table for the last time; or, for
\* a fallback, after it had made its list; or the calendar was booked out.  The
\* second is no race: the process may have seen the slot taken in between, when
\* its second look at the table failed, and the source says that it looks again.
SharedSlotsExplained ==
    \A i, j \in DOMAIN meetings : SameSlot(i, j) =>
        CASE meetings[j].how = "chosen"   -> i > meetings[j].seen
          [] meetings[j].how = "degraded" -> i > meetings[j].listed
          [] meetings[j].how = "full"     -> TRUE

\* A race between two concurrent runs is the only way a slot could be booked
\* twice.  Checked with one process, where there is no race at all.
SharedOnlyByRace ==
    \A i, j \in DOMAIN meetings : SameSlot(i, j) => i > meetings[j].seen

\* With the scheduling agent disabled a meeting is still reserved, the earliest
\* open slot: no call of schedule_meeting is refused its row.
DisabledSchedulerDegrades ==
    \A c \in Conn : ~(SchedAt(c, "reserve") /\ GateAt(c, "refused"))
=============================================================================
