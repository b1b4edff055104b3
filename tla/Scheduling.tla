----------------------------- MODULE Scheduling -----------------------------
(***************************************************************************)
(* schedule_meeting(), which the draft stage calls for the footer of a     *)
(* follow-up: the meeting the target already has, or else a slot of a      *)
(* calendar computed from the weekly template and the meetings table,      *)
(* picked by a model from a list that may be stale when it answers.        *)
(***************************************************************************)
EXTENDS WriteGate

CONSTANTS
    Target,    \* targets with a positive reply
    Template,  \* number of entries of the weekly template
    Weeks,     \* _WEEKS_AHEAD
    MaxCalls,  \* bound on the calls of schedule_meeting()
    MaxNow     \* bound on the time

ASSUME CalendarAssumption ==
    Template \in Nat \ {0} /\ Weeks \in Nat \ {0} /\ MaxCalls \in Nat /\ MaxNow \in Nat

VARIABLES
    now,       \* the template's next occurrence in time
    sc,        \* what each process is doing
    calls,     \* calls so far; the number of a call stands for its ids
    offered    \* <<target, slot>> that went into a footer

schedVars == <<now, sc, calls, offered>>

\* The occurrences of the template, in the order of time, are numbered: entry
\* e recurs at e, e + Template, e + 2 * Template ...
Slot == 0..(MaxNow + Template * (Weeks + 1))

\* how: the reasons the code gives for a slot.  listed and seen are no columns:
\* the meetings there were when the list of open slots was made, and when the
\* process last read the table.
Meeting == [id : 1..MaxCalls, target : Target, slot : Slot,
            how : {"chosen", "degraded", "full"}, listed : Nat, seen : Nat]

SchedPC == {"idle", "seed", "existing", "look", "ask", "recheck", "reserve"}

SchedLocal == [pc : SchedPC, tgt : Target \cup {"none"}, id : 0..MaxCalls, seeds : Nat,
               cand : SUBSET Slot, pick : Slot, attempt : 0..1, listed : Nat, seen : Nat]

IdleCall == [pc |-> "idle", tgt |-> "none", id |-> 0, seeds |-> 0,
             cand |-> {}, pick |-> 0, attempt |-> 0, listed |-> 0, seen |-> 0]

SchedInit ==
    /\ now = 0 /\ calls = 0 /\ offered = {}
    /\ sc = [c \in Conn |-> IdleCall]

SchedTypeOK ==
    /\ now \in 0..MaxNow /\ calls \in 0..MaxCalls
    /\ sc \in [Conn -> SchedLocal]
    /\ meetings \in Seq(Meeting)
    /\ offered \subseteq Target \X Slot

SchedAt(c, pc) == sc[c].pc = pc

-----------------------------------------------------------------------------
\* _next_occurrence(): the first occurrence of a template entry from now on.
NextOccurrence(e) ==
    CHOOSE n \in now..(now + Template - 1) : n % Template = e

Taken == {meetings[i].slot : i \in DOMAIN meetings}

\* _candidate_slots(): the occurrences of the coming weeks that are not taken.
CandidateSlots ==
    {NextOccurrence(e) + Template * w : e \in 0..(Template - 1), w \in 0..(Weeks - 1)}
        \ Taken

\* The slot after those of the first template entry, for a calendar that is
\* booked out.
BookedOutSlot == NextOccurrence(0) + Template * Weeks

HasMeeting(t) == \E i \in DOMAIN meetings : meetings[i].target = t

\* A process starts, seeds the registry, and comes to a target's footer.
StartCall(c) ==
    /\ SchedAt(c, "idle") /\ calls < MaxCalls
    /\ calls' = calls + 1
    /\ \E t \in Target :
           sc' = [sc EXCEPT ![c] = [IdleCall EXCEPT !.pc = "seed", !.tgt = t,
                                                    !.id = calls + 1]]
    /\ UNCHANGED <<gateVars, now, offered>>

SeedNext(c) ==
    /\ SchedAt(c, "seed") /\ tx[c].pc \in {"none", "done"}
    /\ IF sc[c].seeds < Len(SEED_ROWS)
       THEN /\ Submit(c, "insert_agent_registry", "system", SEED_ROWS[sc[c].seeds + 1])
            /\ sc' = [sc EXCEPT ![c].seeds = @ + 1]
       ELSE /\ Forget(c)
            /\ sc' = [sc EXCEPT ![c].pc = "existing"]
    /\ UNCHANGED <<registry, meetings, writeLog, now, calls, offered>>

\* The call returns a meeting of the target's slot.
Return(c, slot) ==
    /\ offered' = offered \cup {<<sc[c].tgt, slot>>}
    /\ sc' = [sc EXCEPT ![c] = IdleCall]

\* Faulty variant: the target's own meeting is not looked up.
FindExistingNot(c) ==
    /\ SchedAt(c, "existing")
    /\ sc' = [sc EXCEPT ![c].pc = "look"]
    /\ UNCHANGED <<gateVars, now, calls, offered>>

\* _existing_meeting(): the latest one; created_at counts seconds, so with
\* more than one it may be any.
FindExisting(c) ==
    /\ SchedAt(c, "existing")
    /\ \/ \E i \in DOMAIN meetings :
              meetings[i].target = sc[c].tgt /\ Return(c, meetings[i].slot)
       \/ /\ ~HasMeeting(sc[c].tgt)
          /\ sc' = [sc EXCEPT ![c].pc = "look"]
          /\ UNCHANGED offered
    /\ UNCHANGED <<gateVars, now, calls>>

\* _reserve() hands the row to the write gate.
Reserve(c, slot, how, listed, seen) ==
    /\ Submit(c, "insert_meeting", "meeting_scheduler",
              [id |-> sc[c].id, target |-> sc[c].tgt, slot |-> slot, how |-> how,
               listed |-> listed, seen |-> seen])
    /\ sc' = [sc EXCEPT ![c] = [IdleCall EXCEPT !.pc = "reserve", !.tgt = sc[c].tgt,
                                                !.id = sc[c].id, !.pick = slot]]

\* With no candidate left the slot beyond the window is reserved unseen.
LookForSlots(c) ==
    /\ SchedAt(c, "look")
    /\ IF CandidateSlots = {}
       THEN Reserve(c, BookedOutSlot, "full", Len(meetings), Len(meetings))
       ELSE /\ sc' = [sc EXCEPT ![c].pc = "ask", ![c].cand = CandidateSlots,
                                ![c].listed = Len(meetings), ![c].seen = Len(meetings)]
            /\ UNCHANGED tx
    /\ UNCHANGED <<registry, meetings, writeLog, now, calls, offered>>

\* The earliest slot of the list, which is not made anew: the fallback.
ReserveEarliest(c, seen) ==
    \E slot \in sc[c].cand :
        /\ \A other \in sc[c].cand : slot <= other
        /\ Reserve(c, slot, "degraded", sc[c].listed, seen)

\* Faulty variant: attempts are not counted out.
AttemptFailedAgain(c, final, seen) ==
    \/ final /\ ReserveEarliest(c, seen)
    \/ /\ ~final
       /\ sc' = [sc EXCEPT ![c].pc = "ask", ![c].attempt = @ + 1, ![c].seen = seen]
       /\ UNCHANGED tx

\* The next attempt, or after the last the fallback.
AttemptFailed(c, final, seen) ==
    \/ (final \/ sc[c].attempt = 1) /\ ReserveEarliest(c, seen)
    \/ /\ ~final /\ sc[c].attempt = 0
       /\ sc' = [sc EXCEPT ![c].pc = "ask", ![c].attempt = 1, ![c].seen = seen]
       /\ UNCHANGED tx

\* The model answers: a slot of the list, something that is none, an error to
\* retry, or an error that is final.  Only the first has the table read again.
Ask(c) ==
    /\ SchedAt(c, "ask")
    /\ \/ \E slot \in sc[c].cand :
              /\ sc' = [sc EXCEPT ![c].pc = "recheck", ![c].pick = slot]
              /\ UNCHANGED tx
       \/ \E final \in BOOLEAN : AttemptFailed(c, final, sc[c].seen)
    /\ UNCHANGED <<registry, meetings, writeLog, now, calls, offered>>

\* Faulty variant: the second look compares what is never equal, a time with a
\* text, and a taken slot passes.
RecheckNot(c) ==
    /\ SchedAt(c, "recheck")
    /\ \/ Reserve(c, sc[c].pick, "chosen", sc[c].listed, Len(meetings))
       \/ AttemptFailed(c, FALSE, Len(meetings))
    /\ UNCHANGED <<registry, meetings, writeLog, now, calls, offered>>

\* The chosen slot may have been taken while the model was thinking; a free one
\* is turned down too when the answer names another company.
Recheck(c) ==
    /\ SchedAt(c, "recheck")
    /\ \/ /\ sc[c].pick \notin Taken
          /\ Reserve(c, sc[c].pick, "chosen", sc[c].listed, Len(meetings))
       \/ AttemptFailed(c, FALSE, Len(meetings))
    /\ UNCHANGED <<registry, meetings, writeLog, now, calls, offered>>

\* Faulty variant: a write that raised is taken for one that was made.
ReservedAnyway(c) ==
    /\ SchedAt(c, "reserve") /\ tx[c].pc \in {"done", "raised"}
    /\ Return(c, sc[c].pick) /\ Forget(c)
    /\ UNCHANGED <<registry, meetings, writeLog, now, calls>>

\* The meeting is committed: its slot goes into the footer.
Reserved(c) ==
    /\ SchedAt(c, "reserve") /\ GateAt(c, "done")
    /\ Return(c, sc[c].pick) /\ Forget(c)
    /\ UNCHANGED <<registry, meetings, writeLog, now, calls>>

\* The gate has refused or failed, or the process is killed: an open
\* transaction goes with it.
EndCall(c) ==
    /\ ~SchedAt(c, "idle")
    /\ sc' = [sc EXCEPT ![c] = IdleCall] /\ Forget(c)
    /\ UNCHANGED <<registry, meetings, writeLog, now, calls, offered>>

CommitStep(c) == GateStep(c) /\ UNCHANGED schedVars

SchedStep(c) ==
    \/ StartCall(c) \/ SeedNext(c) \/ FindExisting(c) \/ LookForSlots(c)
    \/ Ask(c) \/ Recheck(c) \/ Reserved(c) \/ EndCall(c) \/ CommitStep(c)

\* Time passes.
Tick ==
    /\ now < MaxNow /\ now' = now + 1
    /\ UNCHANGED <<gateVars, sc, calls, offered>>
=============================================================================
