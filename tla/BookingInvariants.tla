------------------------- MODULE BookingInvariants --------------------------
(***************************************************************************)
(* The inductive invariant behind the properties of Booking.               *)
(***************************************************************************)
EXTENDS Booking

ASSUME ConnAssumption == IsFiniteSet(Conn)

\* The gate is at work on what it was handed.
InGate(c) == tx[c].pc \in {"check", "begin", "execute", "log", "commit"}

\* A call of commit(), whatever the record is.
IsCall(x) == /\ DOMAIN x = {"pc", "action", "agent", "record", "open", "wrote"}
             /\ x.pc \in GatePC /\ x.action \in KNOWN_ACTIONS /\ x.agent \in Agent

RegistryRow == [enabled : BOOLEAN, actions : SUBSET KNOWN_ACTIONS]

\* The types of the whole state.
Types ==
    /\ tx = [c \in Conn |-> tx[c]] /\ \A c \in Conn : IsCall(tx[c])
    /\ registry \in [DOMAIN registry -> RegistryRow]
    /\ DOMAIN registry \subseteq {"meeting_scheduler"}
    /\ wish \in BOOLEAN /\ late \in Nat
    /\ \A c \in Conn : ~SchedAt(c, "idle") => sc[c].tgt \in Target /\ sc[c].id # 0

\* A caller waits for the gate where it has handed something over, and what
\* the gate holds is what that caller needs written.
CallsMatch ==
    \A c \in Conn :
        /\ ~GateAt(c, "none") => sc[c].pc \in {"seed", "reserve"}
        /\ InGate(c) /\ SchedAt(c, "seed") =>
               EntryOf(c) = <<"insert_agent_registry", "system", "meeting_scheduler">>
        /\ InGate(c) /\ SchedAt(c, "reserve") =>
               /\ tx[c].action = "insert_meeting" /\ tx[c].agent = "meeting_scheduler"
               /\ tx[c].record \in Meeting
               /\ tx[c].record.target = sc[c].tgt /\ tx[c].record.slot = sc[c].pick

\* What the operator asked for is what the registry says, or will say once the
\* agent has a row.
WishIsKept ==
    IF "meeting_scheduler" \in DOMAIN registry
    THEN registry["meeting_scheduler"].enabled = wish ELSE wish

\* Writes past their check, in the name of the scheduling agent.
Armed == {c \in Conn : tx[c].action = "insert_meeting"
                       /\ tx[c].pc \in {"begin", "execute", "log", "commit"}}

\* Since the agent was disabled no write has passed the check, so each
\* connection has one left at most.
WritesRunOut ==
    IF wish THEN late = 0 ELSE late + Cardinality(Armed) <= Cardinality(Conn)

HasSlot(t, slot) ==
    \E i \in DOMAIN meetings : meetings[i].target = t /\ meetings[i].slot = slot

\* A reservation that returns has its row.
CommitIsStored ==
    \A c \in Conn : SchedAt(c, "reserve") /\ GateAt(c, "done") =>
        HasSlot(sc[c].tgt, sc[c].pick)

FreeAt(slot, n) ==
    n <= Len(meetings) /\ \A i \in 1..n : meetings[i].slot # slot

\* A chosen slot was free at the last look, a fallback when the list was made.
WasFree(m) ==
    /\ m.how = "chosen" => FreeAt(m.slot, m.seen)
    /\ m.how = "degraded" => FreeAt(m.slot, m.listed)

\* Every slot of a list was free when it was made, and every row in the gate or
\* in the table was free when it had to be.
SlotWasFree ==
    /\ \A c \in Conn :
           /\ sc[c].pc \in {"ask", "recheck"} =>
                  /\ sc[c].cand # {}
                  /\ \A slot \in sc[c].cand : FreeAt(slot, sc[c].listed)
           /\ SchedAt(c, "recheck") => sc[c].pick \in sc[c].cand
           /\ InGate(c) /\ SchedAt(c, "reserve") => WasFree(tx[c].record)
    /\ \A j \in DOMAIN meetings : WasFree(meetings[j])

\* Two calls at work on one target have been noticed.
OverlapIsKnown ==
    \A c, d \in Conn : c # d /\ ~SchedAt(c, "idle") /\ ~SchedAt(d, "idle")
                             /\ sc[c].tgt = sc[d].tgt => sc[c].tgt \in overlap

\* A call looks for a slot while its target has none.
OneMeeting ==
    \A t \in Target \ overlap :
        /\ \A i, j \in DOMAIN meetings :
               meetings[i].target = t /\ meetings[j].target = t => i = j
        /\ \A c \in Conn : sc[c].tgt = t
               /\ (sc[c].pc \in {"look", "ask", "recheck"} \/ (SchedAt(c, "reserve") /\ InGate(c)))
               => ~HasMeeting(t)

Inv ==
    /\ TypeOK /\ Types /\ CallsMatch /\ WishIsKept /\ WritesRunOut
    /\ OfferIsReserved /\ CommitIsStored /\ SlotWasFree
    /\ OverlapIsKnown /\ OneMeeting
=============================================================================
