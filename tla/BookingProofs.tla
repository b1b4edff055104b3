--------------------------- MODULE BookingProofs ----------------------------
(***************************************************************************)
(* Inv is inductive, and the properties of Booking follow from it, the     *)
(* implementation of Ledger included: any number of processes and targets, *)
(* any calendar, either dialect.                                           *)
(***************************************************************************)
EXTENDS BookingInvariants, SequenceTheorems, FiniteSetTheorems, TLAPS

\* Every entry of the template recurs within Template numbers.
LEMMA OccurrenceExists ==
  ASSUME NEW T \in Nat \ {0}, NEW n \in Nat, NEW e \in 0..(T - 1)
  PROVE  \E m \in n..(n + T - 1) : m % T = e
<1> DEFINE r == n % T
           q == n \div T
           m == IF r <= e THEN q * T + e ELSE (q + 1) * T + e
<1>1. r \in 0..(T - 1) /\ q \in Nat /\ n = q * T + r
  OBVIOUS
<1>2. m \in n..(n + T - 1)
  BY <1>1
<1>3. m % T = e
  OBVIOUS
<1>4. QED BY <1>2, <1>3

LEMMA NextOccurrenceType ==
  ASSUME now \in Nat, NEW e \in 0..(Template - 1)
  PROVE  NextOccurrence(e) \in now..(now + Template - 1)
  BY OccurrenceExists, CalendarAssumption DEF NextOccurrence

LEMMA SlotZero == 0 \in Slot
<1>1. Template * (Weeks + 1) \in Nat
  BY CalendarAssumption
<1>2. QED BY <1>1, CalendarAssumption DEF Slot

\* The calendar's slots are numbers of the type.
LEMMA SlotTypes ==
  ASSUME now \in 0..MaxNow
  PROVE  CandidateSlots \subseteq Slot /\ BookedOutSlot \in Slot
<1> USE CalendarAssumption
<1>1. ASSUME NEW e \in 0..(Template - 1), NEW w \in 0..(Weeks - 1)
      PROVE  NextOccurrence(e) + Template * w \in Slot
  <2>1. NextOccurrence(e) \in now..(now + Template - 1)
    BY NextOccurrenceType
  <2>2. Template * w \in Nat /\ Template * (Weeks + 1) \in Nat
    OBVIOUS
  <2>3. Template * w + Template <= Template * (Weeks + 1)
    <3>1. \E k \in Nat : Weeks = w + k
      <4>1. Weeks = w + (Weeks - w) /\ Weeks - w \in Nat
        OBVIOUS
      <4>2. QED BY <4>1
    <3>2. PICK k \in Nat : Weeks = w + k
      BY <3>1
    <3>3. Template * (Weeks + 1) = Template * w + Template * k + Template
      BY <3>2
    <3>4. Template * k \in Nat
      OBVIOUS
    <3>5. QED BY <2>2, <3>3, <3>4
  <2>4. QED BY <2>1, <2>2, <2>3 DEF Slot
<1>2. BookedOutSlot \in Slot
  <2>1. NextOccurrence(0) \in now..(now + Template - 1)
    BY NextOccurrenceType
  <2>2. Template * Weeks \in Nat /\ Template * (Weeks + 1) = Template * Weeks + Template
    OBVIOUS
  <2>3. QED BY <2>1, <2>2 DEF Slot, BookedOutSlot
<1>3. QED BY <1>1, <1>2 DEF CandidateSlots

\* No call, and a call that has ended.
LEMMA CallShapes ==
  /\ IsCall(NoCall) /\ NoCall.pc = "none" /\ NoCall.action = "insert_meeting"
     /\ NoCall.agent = "system"
  /\ \A pc \in GatePC : LET y == [NoCall EXCEPT !.pc = pc]
                      IN  IsCall(y) /\ y.pc = pc /\ y.action = "insert_meeting"
                          /\ y.agent = "system"
  BY DEF NoCall, IsCall, GatePC, KNOWN_ACTIONS, Agent

Past == {"begin", "execute", "log", "commit"}

SameCall(x, y) == x.action = y.action /\ x.agent = y.agent /\ x.record = y.record

\* What a step of the gate does: one connection's call moves, and the tables
\* change when it commits.
LEMMA GateEffect ==
  ASSUME Types, NEW c \in Conn, GateStep(c)
  PROVE  /\ tx' = [tx EXCEPT ![c] = tx'[c]] /\ IsCall(tx'[c])
         /\ \/ /\ GateAt(c, "check") /\ SameCall(tx'[c], tx[c])
               /\ tx'[c].pc = IF Refused(c) THEN "refused" ELSE "begin"
               /\ UNCHANGED <<registry, meetings, writeLog>>
            \/ /\ tx[c].pc \in Past /\ tx'[c].pc \in Past /\ SameCall(tx'[c], tx[c])
               /\ UNCHANGED <<registry, meetings, writeLog>>
            \/ /\ GateAt(c, "commit") /\ tx'[c].pc = "done"
               /\ tx'[c].action = "insert_meeting" /\ tx'[c].agent = "system"
               /\ Apply(c) /\ writeLog' = writeLog \cup {EntryOf(c)}
            \/ /\ tx[c].pc \in Past /\ tx'[c].pc = "raised"
               /\ tx'[c].action = "insert_meeting" /\ tx'[c].agent = "system"
               /\ UNCHANGED <<registry, meetings, writeLog>>
<1>1. tx = [d \in Conn |-> tx[d]] /\ IsCall(tx[c])
  BY DEF Types
<1>2. \A x : tx' = [tx EXCEPT ![c] = x] => tx'[c] = x
  BY <1>1
<1>3. CASE CheckAgent(c)
  <2> DEFINE pc == IF Refused(c) THEN "refused" ELSE "begin"
  <2>1. tx' = [tx EXCEPT ![c] = [tx[c] EXCEPT !.pc = pc]]
    BY <1>3 DEF CheckAgent, GateGoto
  <2>2. tx'[c] = [tx[c] EXCEPT !.pc = pc]
    BY <1>2, <2>1
  <2>3. IsCall(tx'[c]) /\ tx'[c].pc = pc /\ SameCall(tx'[c], tx[c])
    BY <1>1, <2>2 DEF SameCall, IsCall, GatePC
  <2>4. QED BY <1>3, <2>1, <2>2, <2>3 DEF CheckAgent
<1>4. CASE Begin(c)
  <2> DEFINE y == [tx[c] EXCEPT !.pc = "execute", !.open = TRUE]
  <2>1. tx' = [tx EXCEPT ![c] = y]
    BY <1>1, <1>4 DEF Begin
  <2>2. tx'[c] = y
    BY <1>2, <2>1
  <2>3. IsCall(tx'[c]) /\ tx'[c].pc = "execute" /\ SameCall(tx'[c], tx[c])
    BY <1>1, <2>2 DEF SameCall, IsCall, GatePC
  <2>4. QED BY <1>4, <2>1, <2>2, <2>3 DEF Begin, GateAt, Past
<1>5. CASE Execute(c)
  <2> DEFINE y == [tx[c] EXCEPT !.pc = "log", !.wrote = TRUE]
  <2>1. tx' = [tx EXCEPT ![c] = y]
    BY <1>1, <1>5 DEF Execute
  <2>2. tx'[c] = y
    BY <1>2, <2>1
  <2>3. IsCall(tx'[c]) /\ tx'[c].pc = "log" /\ SameCall(tx'[c], tx[c])
    BY <1>1, <2>2 DEF SameCall, IsCall, GatePC
  <2>4. QED BY <1>5, <2>1, <2>2, <2>3 DEF Execute, GateAt, Past
<1>6. CASE LogWrite(c)
  <2> DEFINE y == [tx[c] EXCEPT !.pc = "commit"]
  <2>1. tx' = [tx EXCEPT ![c] = y]
    BY <1>6 DEF LogWrite, GateGoto
  <2>2. tx'[c] = y
    BY <1>2, <2>1
  <2>3. IsCall(tx'[c]) /\ tx'[c].pc = "commit" /\ SameCall(tx'[c], tx[c])
    BY <1>1, <2>2 DEF SameCall, IsCall, GatePC
  <2>4. QED BY <1>6, <2>1, <2>2, <2>3 DEF LogWrite, GateAt, Past
<1>7. CASE Commit(c)
  <2> DEFINE y == [NoCall EXCEPT !.pc = "done"]
  <2>1. tx' = [tx EXCEPT ![c] = y] /\ tx'[c] = y
    BY <1>2, <1>7 DEF Commit
  <2>2. IsCall(y) /\ y.pc = "done" /\ y.action = "insert_meeting" /\ y.agent = "system"
    BY CallShapes DEF GatePC
  <2>3. QED BY <1>7, <2>1, <2>2 DEF Commit
<1>8. CASE FailWrite(c)
  <2> DEFINE y == [NoCall EXCEPT !.pc = "raised"]
  <2>1. tx' = [tx EXCEPT ![c] = y] /\ tx'[c] = y
    BY <1>2, <1>8 DEF FailWrite
  <2>2. IsCall(y) /\ y.pc = "raised" /\ y.action = "insert_meeting" /\ y.agent = "system"
    BY CallShapes DEF GatePC
  <2>3. QED BY <1>8, <2>1, <2>2 DEF FailWrite, Past
<1>9. QED BY <1>3, <1>4, <1>5, <1>6, <1>7, <1>8 DEF GateStep

-----------------------------------------------------------------------------
\* The moves of a process, as the invariant sees them: sc[c] and tx[c] before
\* and after.
Quiet == UNCHANGED <<registry, meetings, writeLog>>
Goes(c, from, to) == sc[c].pc \in from /\ sc'[c].pc = to
SameTarget(c) == sc'[c].tgt = sc[c].tgt /\ sc'[c].id = sc[c].id
SameSearch(c) == sc'[c].cand = sc[c].cand /\ sc'[c].listed = sc[c].listed

Starts(c) == Goes(c, {"idle"}, "seed") /\ sc'[c].tgt \in Target /\ sc'[c].id # 0
             /\ UNCHANGED <<tx, offered>> /\ Quiet
Seeds(c) == Goes(c, {"seed"}, "seed") /\ SameTarget(c) /\ tx'[c].pc = "check"
            /\ <<tx'[c].action, tx'[c].agent, tx'[c].record>> =
                   <<"insert_agent_registry", "system", "meeting_scheduler">>
            /\ UNCHANGED offered /\ Quiet
SeedsDone(c) == Goes(c, {"seed"}, "existing") /\ SameTarget(c) /\ tx'[c].pc = "none"
                /\ UNCHANGED offered /\ Quiet
Finds(c) == Goes(c, {"existing"}, "idle") /\ UNCHANGED tx /\ Quiet
            /\ \E i \in DOMAIN meetings :
                   /\ meetings[i].target = sc[c].tgt
                   /\ offered' = offered \cup {<<sc[c].tgt, meetings[i].slot>>}
FindsNone(c) == Goes(c, {"existing"}, "look") /\ SameTarget(c) /\ ~HasMeeting(sc[c].tgt)
                /\ UNCHANGED <<tx, offered>> /\ Quiet
Looks(c) == Goes(c, {"look"}, "ask") /\ SameTarget(c)
            /\ sc'[c].cand = CandidateSlots /\ CandidateSlots # {}
            /\ sc'[c].listed = Len(meetings) /\ UNCHANGED <<tx, offered>> /\ Quiet
Picks(c) == Goes(c, {"ask"}, "recheck") /\ SameTarget(c) /\ SameSearch(c)
            /\ sc'[c].pick \in sc[c].cand /\ UNCHANGED <<tx, offered>> /\ Quiet
Retries(c) == Goes(c, {"ask", "recheck"}, "ask") /\ SameTarget(c) /\ SameSearch(c)
              /\ UNCHANGED <<tx, offered>> /\ Quiet
Reserves(c) == Goes(c, {"look", "ask", "recheck"}, "reserve") /\ SameTarget(c)
               /\ tx'[c].pc = "check" /\ tx'[c].action = "insert_meeting"
               /\ tx'[c].agent = "meeting_scheduler" /\ tx'[c].record \in Meeting
               /\ tx'[c].record.target = sc[c].tgt
               /\ tx'[c].record.slot = sc'[c].pick
               /\ WasFree(tx'[c].record)
               /\ UNCHANGED offered /\ Quiet
Returns(c) == Goes(c, {"reserve"}, "idle") /\ GateAt(c, "done") /\ tx'[c].pc = "none"
              /\ offered' = offered \cup {<<sc[c].tgt, sc[c].pick>>} /\ Quiet
Ends(c) == ~SchedAt(c, "idle") /\ sc'[c].pc = "idle" /\ tx'[c].pc = "none"
           /\ UNCHANGED offered /\ Quiet
Gates(c) == GateStep(c) /\ UNCHANGED schedVars

Moves(c) == \/ Starts(c) \/ Seeds(c) \/ SeedsDone(c) \/ Finds(c) \/ FindsNone(c)
            \/ Looks(c) \/ Picks(c) \/ Retries(c) \/ Reserves(c) \/ Returns(c)
            \/ Ends(c) \/ Gates(c)

\* Only c's own state moves, and keeps its type.
Own(c) == /\ sc' = [sc EXCEPT ![c] = sc'[c]] /\ sc'[c] \in SchedLocal
          /\ tx' = [tx EXCEPT ![c] = tx'[c]] /\ IsCall(tx'[c])

LEMMA SetsOwn ==
  ASSUME Types, SchedTypeOK, NEW c \in Conn, NEW x \in SchedLocal,
         sc' = [sc EXCEPT ![c] = x]
  PROVE  sc'[c] = x /\ sc' = [sc EXCEPT ![c] = sc'[c]] /\ sc'[c] \in SchedLocal
  BY DEF SchedTypeOK

LEMMA KeepsCall ==
  ASSUME Types, NEW c \in Conn, UNCHANGED tx
  PROVE  tx' = [tx EXCEPT ![c] = tx'[c]] /\ IsCall(tx'[c])
  BY DEF Types

LEMMA Submits ==
  ASSUME Types, NEW c \in Conn, NEW action \in KNOWN_ACTIONS, NEW agent \in Agent,
         NEW record, Submit(c, action, agent, record)
  PROVE  /\ tx' = [tx EXCEPT ![c] = tx'[c]] /\ IsCall(tx'[c])
         /\ tx'[c].pc = "check" /\ tx'[c].action = action /\ tx'[c].agent = agent
         /\ tx'[c].record = record
<1> DEFINE y == [NoCall EXCEPT !.pc = "check", !.action = action, !.agent = agent,
                               !.record = record]
<1>1. tx' = [tx EXCEPT ![c] = y] /\ tx'[c] = y
  BY DEF Submit, Types
<1>2. IsCall(y) /\ y.pc = "check" /\ y.action = action /\ y.agent = agent
      /\ y.record = record
  BY DEF NoCall, IsCall, GatePC, KNOWN_ACTIONS, Agent
<1>3. QED BY <1>1, <1>2

LEMMA Forgets ==
  ASSUME Types, NEW c \in Conn, Forget(c)
  PROVE  /\ tx' = [tx EXCEPT ![c] = tx'[c]] /\ IsCall(tx'[c]) /\ tx'[c].pc = "none"
  BY CallShapes DEF Forget, Types

LEMMA IdleType == IdleCall \in SchedLocal /\ IdleCall.pc = "idle"
  BY CalendarAssumption, SlotZero DEF IdleCall, SchedLocal, SchedPC

\* A reservation is a row of the meetings table.
LEMMA ReserveMoves ==
  ASSUME Types, SchedTypeOK, NEW c \in Conn, sc[c].pc \in {"look", "ask", "recheck"},
         NEW slot \in Slot, NEW how \in {"chosen", "degraded", "full"},
         NEW listed \in Nat, NEW seen \in Nat,
         how = "chosen" => FreeAt(slot, seen), how = "degraded" => FreeAt(slot, listed),
         Reserve(c, slot, how, listed, seen), Quiet, UNCHANGED offered
  PROVE  Own(c) /\ Reserves(c)
<1> DEFINE row == [id |-> sc[c].id, target |-> sc[c].tgt, slot |-> slot, how |-> how,
                   listed |-> listed, seen |-> seen]
           x == [IdleCall EXCEPT !.pc = "reserve", !.tgt = sc[c].tgt, !.id = sc[c].id,
                                 !.pick = slot]
<1>1. sc[c] \in SchedLocal /\ sc[c].tgt \in Target /\ sc[c].id \in 1..MaxCalls
  <2>1. sc[c] \in SchedLocal
    BY DEF SchedTypeOK
  <2>2. sc[c].tgt \in Target /\ sc[c].id # 0
    BY DEF Types, SchedAt
  <2>3. QED BY <2>1, <2>2, CalendarAssumption DEF SchedLocal
<1>2. row \in Meeting
  BY <1>1 DEF Meeting
<1>3. x \in SchedLocal /\ x.pc = "reserve" /\ x.tgt = sc[c].tgt /\ x.id = sc[c].id
      /\ x.pick = slot
  BY <1>1, IdleType DEF IdleCall, SchedLocal, SchedPC
<1>4. sc' = [sc EXCEPT ![c] = x]
  BY DEF Reserve
<1>5. sc'[c] = x /\ sc' = [sc EXCEPT ![c] = sc'[c]] /\ sc'[c] \in SchedLocal
  BY <1>3, <1>4, SetsOwn
<1>6. /\ tx' = [tx EXCEPT ![c] = tx'[c]] /\ IsCall(tx'[c])
      /\ tx'[c].pc = "check" /\ tx'[c].action = "insert_meeting"
      /\ tx'[c].agent = "meeting_scheduler" /\ tx'[c].record = row
  BY Submits DEF Reserve, KNOWN_ACTIONS, Agent
<1>7. row.target = sc[c].tgt /\ row.slot = slot /\ WasFree(row)
  BY DEF WasFree
<1> HIDE DEF row, x
<1>8. QED BY <1>2, <1>3, <1>5, <1>6, <1>7 DEF Own, Reserves, Goes, SameTarget

Settled == TypeOK /\ Types /\ CallsMatch /\ SlotWasFree

\* A failed attempt goes back to the model or falls back on the old list.
LEMMA FailureMoves ==
  ASSUME Settled, NEW c \in Conn, sc[c].pc \in {"ask", "recheck"},
         NEW final \in BOOLEAN, NEW seen \in Nat, AttemptFailed(c, final, seen),
         Quiet, UNCHANGED offered
  PROVE  Own(c) /\ (Retries(c) \/ Reserves(c))
<1>1. sc[c] \in SchedLocal /\ SchedTypeOK /\ Types
  BY DEF Settled, TypeOK, SchedTypeOK
<1>2. CASE ReserveEarliest(c, seen)
  <2>1. PICK slot \in sc[c].cand : Reserve(c, slot, "degraded", sc[c].listed, seen)
    BY <1>2 DEF ReserveEarliest
  <2>2. slot \in Slot /\ sc[c].listed \in Nat
    BY <1>1 DEF SchedLocal
  <2>3. FreeAt(slot, sc[c].listed)
    BY DEF Settled, SlotWasFree
  <2>4. QED BY <1>1, <2>1, <2>2, <2>3, ReserveMoves
<1>3. CASE /\ sc' = [sc EXCEPT ![c].pc = "ask", ![c].attempt = 1, ![c].seen = seen]
           /\ UNCHANGED tx
  <2> DEFINE x == [sc[c] EXCEPT !.pc = "ask", !.attempt = 1, !.seen = seen]
  <2>1. x \in SchedLocal /\ x.pc = "ask" /\ x.tgt = sc[c].tgt /\ x.id = sc[c].id
        /\ x.cand = sc[c].cand /\ x.listed = sc[c].listed
    <3>1. 1 \in 0..1 /\ "ask" \in SchedPC
      BY DEF SchedPC
    <3>2. QED BY <1>1, <3>1 DEF SchedLocal
  <2>2. sc' = [sc EXCEPT ![c] = x]
    BY <1>1, <1>3 DEF SchedTypeOK
  <2> HIDE DEF x
  <2>3. sc'[c] = x /\ sc' = [sc EXCEPT ![c] = sc'[c]] /\ sc'[c] \in SchedLocal
    BY <1>1, <2>1, <2>2, SetsOwn
  <2>4. tx' = [tx EXCEPT ![c] = tx'[c]] /\ IsCall(tx'[c])
    BY <1>1, <1>3, KeepsCall
  <2>5. QED BY <1>3, <2>1, <2>3, <2>4 DEF Own, Retries, Goes, SameTarget, SameSearch
<1>4. QED BY <1>2, <1>3 DEF AttemptFailed

\* Every step of a process is one of the moves.
LEMMA StepMoves ==
  ASSUME Settled, NEW c \in Conn, SchedStep(c)
  PROVE  Own(c) /\ Moves(c)
<1> USE CalendarAssumption
<1>1. sc[c] \in SchedLocal /\ SchedTypeOK /\ Types /\ now \in 0..MaxNow
      /\ calls \in 0..MaxCalls /\ meetings \in Seq(Meeting)
  BY DEF Settled, TypeOK, SchedTypeOK
<1>2. UNCHANGED tx => tx' = [tx EXCEPT ![c] = tx'[c]] /\ IsCall(tx'[c])
  BY <1>1, KeepsCall
<1>3. CASE StartCall(c)
  <2>1. PICK t \in Target :
            sc' = [sc EXCEPT ![c] = [IdleCall EXCEPT !.pc = "seed", !.tgt = t,
                                                     !.id = calls + 1]]
    BY <1>3 DEF StartCall
  <2> DEFINE x == [IdleCall EXCEPT !.pc = "seed", !.tgt = t, !.id = calls + 1]
  <2>2. calls + 1 \in 0..MaxCalls /\ calls + 1 # 0
    BY <1>1, <1>3 DEF StartCall
  <2>3. x \in SchedLocal /\ x.pc = "seed" /\ x.tgt = t /\ x.id = calls + 1
    BY <2>2, IdleType DEF IdleCall, SchedLocal, SchedPC
  <2> HIDE DEF x
  <2>4. sc'[c] = x /\ sc' = [sc EXCEPT ![c] = sc'[c]] /\ sc'[c] \in SchedLocal
    BY <1>1, <2>1, <2>3, SetsOwn DEF x
  <2>5. Starts(c)
    BY <1>3, <2>2, <2>3, <2>4
       DEF StartCall, Starts, Goes, SchedAt, Quiet, gateVars
  <2>6. QED BY <1>2, <2>4, <2>5 DEF Own, Moves, Starts
<1>4. CASE SeedNext(c)
  <2>1. CASE sc[c].seeds < Len(SEED_ROWS)
    <3> DEFINE x == [sc[c] EXCEPT !.seeds = @ + 1]
    <3>1. sc[c].seeds = 0 /\ SEED_ROWS[sc[c].seeds + 1] = "meeting_scheduler"
      BY <1>1, <2>1 DEF SEED_ROWS, SchedLocal
    <3>2. x \in SchedLocal /\ x.pc = sc[c].pc /\ x.tgt = sc[c].tgt /\ x.id = sc[c].id
      <4>1. sc[c].seeds + 1 \in Nat
        BY <3>1
      <4>2. QED BY <1>1, <4>1 DEF SchedLocal
    <3>3. sc' = [sc EXCEPT ![c] = x]
      BY <1>1, <1>4, <2>1 DEF SeedNext, SchedTypeOK
    <3> HIDE DEF x
    <3>4. sc'[c] = x /\ sc' = [sc EXCEPT ![c] = sc'[c]] /\ sc'[c] \in SchedLocal
      BY <1>1, <3>2, <3>3, SetsOwn
    <3>5. /\ tx' = [tx EXCEPT ![c] = tx'[c]] /\ IsCall(tx'[c])
          /\ tx'[c].pc = "check" /\ tx'[c].action = "insert_agent_registry"
          /\ tx'[c].agent = "system" /\ tx'[c].record = "meeting_scheduler"
      BY <1>1, <1>4, <2>1, <3>1, Submits DEF SeedNext, KNOWN_ACTIONS, Agent
    <3>6. Seeds(c)
      BY <1>4, <3>2, <3>4, <3>5 DEF SeedNext, Seeds, Goes, SchedAt, SameTarget, Quiet
    <3>7. QED BY <3>4, <3>5, <3>6 DEF Own, Moves
  <2>2. CASE ~(sc[c].seeds < Len(SEED_ROWS))
    <3> DEFINE x == [sc[c] EXCEPT !.pc = "existing"]
    <3>1. x \in SchedLocal /\ x.pc = "existing" /\ x.tgt = sc[c].tgt /\ x.id = sc[c].id
      BY <1>1 DEF SchedLocal, SchedPC
    <3>2. sc' = [sc EXCEPT ![c] = x] /\ Forget(c)
      BY <1>4, <2>2 DEF SeedNext
    <3> HIDE DEF x
    <3>3. sc'[c] = x /\ sc' = [sc EXCEPT ![c] = sc'[c]] /\ sc'[c] \in SchedLocal
      BY <1>1, <3>1, <3>2, SetsOwn
    <3>4. tx' = [tx EXCEPT ![c] = tx'[c]] /\ IsCall(tx'[c]) /\ tx'[c].pc = "none"
      BY <1>1, <3>2, Forgets
    <3>5. SeedsDone(c)
      BY <1>4, <3>1, <3>3, <3>4 DEF SeedNext, SeedsDone, Goes, SchedAt, SameTarget, Quiet
    <3>6. QED BY <3>3, <3>4, <3>5 DEF Own, Moves
  <2>3. QED BY <2>1, <2>2
<1>5. CASE FindExisting(c)
  <2>1. CASE \E i \in DOMAIN meetings :
                 meetings[i].target = sc[c].tgt /\ Return(c, meetings[i].slot)
    <3>1. PICK i \in DOMAIN meetings :
              meetings[i].target = sc[c].tgt /\ Return(c, meetings[i].slot)
      BY <2>1
    <3>2. sc'[c] = IdleCall /\ sc' = [sc EXCEPT ![c] = sc'[c]] /\ sc'[c] \in SchedLocal
      BY <1>1, <3>1, IdleType, SetsOwn DEF Return
    <3>3. UNCHANGED tx /\ Quiet
      BY <1>5 DEF FindExisting, gateVars, Quiet
    <3>4. Finds(c)
      BY <1>5, <3>1, <3>2, <3>3, IdleType DEF FindExisting, Finds, Goes, SchedAt, Return
    <3>5. QED BY <1>2, <3>2, <3>3, <3>4 DEF Own, Moves
  <2>2. CASE /\ ~HasMeeting(sc[c].tgt) /\ sc' = [sc EXCEPT ![c].pc = "look"]
             /\ UNCHANGED offered
    <3> DEFINE x == [sc[c] EXCEPT !.pc = "look"]
    <3>1. x \in SchedLocal /\ x.pc = "look" /\ x.tgt = sc[c].tgt /\ x.id = sc[c].id
      BY <1>1 DEF SchedLocal, SchedPC
    <3>2. sc' = [sc EXCEPT ![c] = x]
      BY <2>2
    <3> HIDE DEF x
    <3>3. sc'[c] = x /\ sc' = [sc EXCEPT ![c] = sc'[c]] /\ sc'[c] \in SchedLocal
      BY <1>1, <3>1, <3>2, SetsOwn
    <3>4. UNCHANGED tx /\ Quiet
      BY <1>5 DEF FindExisting, gateVars, Quiet
    <3>5. FindsNone(c)
      BY <1>5, <2>2, <3>1, <3>3, <3>4 DEF FindExisting, FindsNone, Goes, SchedAt, SameTarget
    <3>6. QED BY <1>2, <3>3, <3>4, <3>5 DEF Own, Moves
  <2>3. QED BY <1>5, <2>1, <2>2 DEF FindExisting
<1>6. CASE LookForSlots(c)
  <2>1. CandidateSlots \subseteq Slot /\ BookedOutSlot \in Slot /\ Len(meetings) \in Nat
    BY <1>1, SlotTypes
  <2>2. Quiet /\ UNCHANGED offered /\ sc[c].pc = "look"
    BY <1>6 DEF LookForSlots, Quiet, SchedAt
  <2>3. CASE CandidateSlots = {}
    <3>1. Reserve(c, BookedOutSlot, "full", Len(meetings), Len(meetings))
      BY <1>6, <2>3 DEF LookForSlots
    <3>2. QED BY <1>1, <2>1, <2>2, <3>1, ReserveMoves DEF Moves
  <2>4. CASE CandidateSlots # {}
    <3> DEFINE x == [sc[c] EXCEPT !.pc = "ask", !.cand = CandidateSlots,
                                  !.listed = Len(meetings), !.seen = Len(meetings)]
    <3>1. x \in SchedLocal /\ x.pc = "ask" /\ x.tgt = sc[c].tgt /\ x.id = sc[c].id
          /\ x.cand = CandidateSlots /\ x.listed = Len(meetings)
      BY <1>1, <2>1 DEF SchedLocal, SchedPC
    <3>2. sc' = [sc EXCEPT ![c] = x] /\ UNCHANGED tx
      BY <1>1, <1>6, <2>4 DEF LookForSlots, SchedTypeOK
    <3> HIDE DEF x
    <3>3. sc'[c] = x /\ sc' = [sc EXCEPT ![c] = sc'[c]] /\ sc'[c] \in SchedLocal
      BY <1>1, <3>1, <3>2, SetsOwn
    <3>4. Looks(c)
      BY <2>2, <2>4, <3>1, <3>2, <3>3 DEF Looks, Goes, SameTarget
    <3>5. QED BY <1>2, <3>2, <3>3, <3>4 DEF Own, Moves
  <2>5. QED BY <2>3, <2>4
<1>7. CASE Ask(c)
  <2>1. Quiet /\ UNCHANGED offered /\ sc[c].pc = "ask"
    BY <1>7 DEF Ask, Quiet, SchedAt
  <2>2. CASE \E slot \in sc[c].cand :
                 /\ sc' = [sc EXCEPT ![c].pc = "recheck", ![c].pick = slot]
                 /\ UNCHANGED tx
    <3>1. PICK slot \in sc[c].cand :
              /\ sc' = [sc EXCEPT ![c].pc = "recheck", ![c].pick = slot]
              /\ UNCHANGED tx
      BY <2>2
    <3> DEFINE x == [sc[c] EXCEPT !.pc = "recheck", !.pick = slot]
    <3>2. x \in SchedLocal /\ x.pc = "recheck" /\ x.tgt = sc[c].tgt /\ x.id = sc[c].id
          /\ x.cand = sc[c].cand /\ x.listed = sc[c].listed /\ x.pick = slot
      BY <1>1 DEF SchedLocal, SchedPC
    <3>3. sc' = [sc EXCEPT ![c] = x] /\ UNCHANGED tx
      BY <1>1, <3>1 DEF SchedTypeOK
    <3> HIDE DEF x
    <3>4. sc'[c] = x /\ sc' = [sc EXCEPT ![c] = sc'[c]] /\ sc'[c] \in SchedLocal
      BY <1>1, <3>2, <3>3, SetsOwn
    <3>5. Picks(c)
      BY <2>1, <3>2, <3>3, <3>4 DEF Picks, Goes, SameTarget, SameSearch
    <3>6. QED BY <1>2, <3>3, <3>4, <3>5 DEF Own, Moves
  <2>3. CASE \E final \in BOOLEAN : AttemptFailed(c, final, sc[c].seen)
    <3>1. sc[c].seen \in Nat
      BY <1>1 DEF SchedLocal
    <3>2. QED BY <2>1, <2>3, <3>1, FailureMoves DEF Moves
  <2>4. QED BY <1>7, <2>2, <2>3 DEF Ask
<1>8. CASE Recheck(c)
  <2>1. Quiet /\ UNCHANGED offered /\ sc[c].pc = "recheck"
    BY <1>8 DEF Recheck, Quiet, SchedAt
  <2>2. Len(meetings) \in Nat
    BY <1>1
  <2>3. CASE AttemptFailed(c, FALSE, Len(meetings))
    BY <2>1, <2>2, <2>3, FailureMoves DEF Moves
  <2>4. CASE /\ sc[c].pick \notin Taken
             /\ Reserve(c, sc[c].pick, "chosen", sc[c].listed, Len(meetings))
    <3>1. FreeAt(sc[c].pick, Len(meetings))
      BY <1>1, <2>4 DEF FreeAt, Taken
    <3>2. sc[c].pick \in Slot /\ sc[c].listed \in Nat
      BY <1>1 DEF SchedLocal
    <3>3. QED BY <1>1, <2>1, <2>2, <2>4, <3>1, <3>2, ReserveMoves DEF Moves
  <2>5. QED BY <1>8, <2>3, <2>4 DEF Recheck
<1>9. CASE Reserved(c)
  <2>1. sc'[c] = IdleCall /\ sc' = [sc EXCEPT ![c] = sc'[c]] /\ sc'[c] \in SchedLocal
    BY <1>1, <1>9, IdleType, SetsOwn DEF Reserved, Return
  <2>2. tx' = [tx EXCEPT ![c] = tx'[c]] /\ IsCall(tx'[c]) /\ tx'[c].pc = "none"
    BY <1>1, <1>9, Forgets DEF Reserved
  <2>3. Returns(c)
    BY <1>9, <2>1, <2>2, IdleType DEF Reserved, Return, Returns, Goes, SchedAt, Quiet
  <2>4. QED BY <2>1, <2>2, <2>3 DEF Own, Moves
<1>10. CASE EndCall(c)
  <2>1. sc'[c] = IdleCall /\ sc' = [sc EXCEPT ![c] = sc'[c]] /\ sc'[c] \in SchedLocal
    BY <1>1, <1>10, IdleType, SetsOwn DEF EndCall
  <2>2. tx' = [tx EXCEPT ![c] = tx'[c]] /\ IsCall(tx'[c]) /\ tx'[c].pc = "none"
    BY <1>1, <1>10, Forgets DEF EndCall
  <2>3. Ends(c)
    BY <1>10, <2>1, <2>2, IdleType DEF EndCall, Ends, Quiet
  <2>4. QED BY <2>1, <2>2, <2>3 DEF Own, Moves
<1>11. CASE CommitStep(c)
  <2>1. Gates(c)
    BY <1>11 DEF CommitStep, Gates
  <2>2. tx' = [tx EXCEPT ![c] = tx'[c]] /\ IsCall(tx'[c])
    BY <1>1, <1>11, GateEffect DEF CommitStep
  <2>3. UNCHANGED sc
    BY <1>11 DEF CommitStep, schedVars
  <2>4. sc' = [sc EXCEPT ![c] = sc'[c]] /\ sc'[c] \in SchedLocal
    BY <1>1, <2>3 DEF SchedTypeOK
  <2>5. QED BY <2>1, <2>2, <2>4 DEF Own, Moves
<1>12. QED BY <1>3, <1>4, <1>5, <1>6, <1>7, <1>8, <1>9, <1>10, <1>11 DEF SchedStep

-----------------------------------------------------------------------------
\* The tables change when a call commits: c writes what its caller waits for.
Enters(c) == /\ GateAt(c, "commit") /\ SchedAt(c, "seed") /\ tx'[c].pc = "done"
             /\ Upsert("meeting_scheduler") /\ UNCHANGED <<meetings, schedVars>>
Inserts(c) == /\ GateAt(c, "commit") /\ SchedAt(c, "reserve") /\ tx'[c].pc = "done"
              /\ tx[c].action = "insert_meeting"
              /\ tx[c].record \in Meeting /\ meetings' = Append(meetings, tx[c].record)
              /\ tx[c].record.target = sc[c].tgt /\ tx[c].record.slot = sc[c].pick
              /\ UNCHANGED <<registry, schedVars>>

LEMMA TablesMove ==
  ASSUME Settled, NEW c \in Conn, Moves(c)
  PROVE  UNCHANGED <<registry, meetings>> \/ Enters(c) \/ Inserts(c)
<1>1. CASE Gates(c)
  <2>1. CASE /\ GateAt(c, "commit") /\ tx'[c].pc = "done" /\ Apply(c)
    <3>1. InGate(c) /\ sc[c].pc \in {"seed", "reserve"}
      BY <2>1 DEF InGate, GateAt, Settled, CallsMatch
    <3>2. CASE sc[c].pc = "seed"
      <4>1. tx[c].action = "insert_agent_registry" /\ tx[c].record = "meeting_scheduler"
        BY <3>1, <3>2 DEF Settled, CallsMatch, SchedAt, EntryOf
      <4>2. QED BY <1>1, <2>1, <3>2, <4>1 DEF Apply, Enters, SchedAt, Gates
    <3>3. CASE sc[c].pc = "reserve"
      <4>1. /\ tx[c].action = "insert_meeting" /\ tx[c].record \in Meeting
            /\ tx[c].record.target = sc[c].tgt /\ tx[c].record.slot = sc[c].pick
        BY <3>1, <3>3 DEF Settled, CallsMatch, SchedAt
      <4>2. QED BY <1>1, <2>1, <3>3, <4>1 DEF Apply, Inserts, SchedAt, Gates
    <3>4. QED BY <3>1, <3>2, <3>3
  <2>2. Types /\ GateStep(c)
    BY <1>1 DEF Gates, Settled
  <2>3. QED BY <2>1, <2>2, GateEffect
<1>2. CASE ~Gates(c)
  <2>1. Quiet
    BY <1>2 DEF Moves, Starts, Seeds, SeedsDone, Finds, FindsNone, Looks, Picks, Retries,
                Reserves, Returns, Ends
  <2>2. QED BY <2>1 DEF Quiet
<1>3. QED BY <1>1, <1>2

\* The other processes do not move.
LEMMA OthersStay ==
  ASSUME Settled, NEW c \in Conn, Own(c), NEW d \in Conn, d # c
  PROVE  sc'[d] = sc[d] /\ tx'[d] = tx[d]
  BY DEF Settled, TypeOK, SchedTypeOK, Types, Own

LEMMA OffersMove ==
  ASSUME NEW c \in Conn, Moves(c)
  PROVE  UNCHANGED offered \/ Finds(c) \/ Returns(c)
<1>1. Starts(c) \/ FindsNone(c) \/ Looks(c) \/ Picks(c) \/ Retries(c) => UNCHANGED offered
  BY DEF Starts, FindsNone, Looks, Picks, Retries
<1>2. Seeds(c) \/ SeedsDone(c) \/ Reserves(c) \/ Ends(c) => UNCHANGED offered
  BY DEF Seeds, SeedsDone, Reserves, Ends
<1>3. Gates(c) => UNCHANGED offered
  BY DEF Gates, schedVars
<1>4. QED BY <1>1, <1>2, <1>3 DEF Moves

\* A process keeps its target from the start of a call to its end.
LEMMA TargetKept ==
  ASSUME NEW c \in Conn, Moves(c)
  PROVE  \/ Starts(c)
         \/ sc'[c].pc = "idle" /\ sc[c].pc # "idle"
         \/ SameTarget(c) /\ sc[c].pc # "idle" /\ sc'[c].pc # "idle"
         \/ sc'[c] = sc[c]
<1>1. Seeds(c) \/ SeedsDone(c) \/ FindsNone(c) \/ Looks(c) \/ Picks(c) \/ Retries(c)
      \/ Reserves(c) => SameTarget(c) /\ sc[c].pc # "idle" /\ sc'[c].pc # "idle"
  BY DEF Seeds, SeedsDone, FindsNone, Looks, Picks, Retries, Reserves, Goes
<1>2. Finds(c) \/ Returns(c) \/ Ends(c) => sc'[c].pc = "idle" /\ sc[c].pc # "idle"
  BY DEF Finds, Returns, Ends, Goes, SchedAt
<1>3. Gates(c) => sc'[c] = sc[c]
  BY DEF Gates, schedVars
<1>4. QED BY <1>1, <1>2, <1>3 DEF Moves

LEMMA CountersStep ==
  ASSUME Settled, NEW c \in Conn, SchedStep(c)
  PROVE  now' = now /\ calls' \in 0..MaxCalls
<1>1. calls \in 0..MaxCalls /\ MaxCalls \in Nat
  BY CalendarAssumption DEF Settled, TypeOK, SchedTypeOK
<1>2. CASE StartCall(c)
  BY <1>1, <1>2 DEF StartCall
<1>3. CASE SeedNext(c) \/ FindExisting(c) \/ LookForSlots(c)
  BY <1>1, <1>3 DEF SeedNext, FindExisting, LookForSlots
<1>4. CASE Ask(c) \/ Recheck(c)
  BY <1>1, <1>4 DEF Ask, Recheck
<1>5. CASE Reserved(c) \/ EndCall(c) \/ CommitStep(c)
  BY <1>1, <1>5 DEF Reserved, EndCall, CommitStep, schedVars
<1>6. QED BY <1>2, <1>3, <1>4, <1>5 DEF SchedStep

LEMMA MeetingsType ==
  ASSUME Settled, NEW c \in Conn, Moves(c)
  PROVE  /\ meetings' \in Seq(Meeting)
         /\ Len(meetings') = Len(meetings) + (IF Inserts(c) THEN 1 ELSE 0)
         /\ ~Inserts(c) => UNCHANGED meetings
         /\ Inserts(c) => meetings'[Len(meetings) + 1] = tx[c].record
         /\ \A i \in DOMAIN meetings : i \in DOMAIN meetings' /\ meetings'[i] = meetings[i]
         /\ Inserts(c) => DOMAIN meetings' = DOMAIN meetings \cup {Len(meetings) + 1}
                          /\ Len(meetings) + 1 \notin DOMAIN meetings
<1>1. meetings \in Seq(Meeting)
  BY DEF Settled, TypeOK, SchedTypeOK
<1>2. CASE Inserts(c)
  BY <1>1, <1>2 DEF Inserts
<1>3. CASE ~Inserts(c)
  <2>1. UNCHANGED meetings
    BY <1>3, TablesMove DEF Enters
  <2>2. QED BY <1>1, <1>3, <2>1
<1>4. QED BY <1>2, <1>3

\* The registry holds at most the row of the scheduling agent.
LEMMA RegistryType ==
  ASSUME Settled, NEW c \in Conn, Moves(c)
  PROVE  /\ registry' \in [DOMAIN registry' -> RegistryRow]
         /\ DOMAIN registry' \subseteq {"meeting_scheduler"}
         /\ DOMAIN registry \subseteq DOMAIN registry'
<1>1. registry \in [DOMAIN registry -> RegistryRow]
      /\ DOMAIN registry \subseteq {"meeting_scheduler"}
  BY DEF Settled, Types
<1>2. CASE Enters(c)
  <2> DEFINE a == "meeting_scheduler"
  <2>1. registry' = [b \in DOMAIN registry \cup {a} |->
                         IF b = a
                         THEN [enabled |-> a \in DOMAIN registry => registry[a].enabled,
                               actions |-> KNOWN_ACTIONS]
                         ELSE registry[b]]
    BY <1>2 DEF Enters, Upsert
  <2>2. [enabled |-> a \in DOMAIN registry => registry[a].enabled,
         actions |-> KNOWN_ACTIONS] \in RegistryRow
    BY DEF RegistryRow
  <2>3. QED BY <1>1, <2>1, <2>2
<1>3. CASE UNCHANGED registry
  BY <1>1, <1>3
<1>4. QED BY <1>2, <1>3, TablesMove DEF Inserts

LEMMA TypesStep ==
  ASSUME Inv, NEW c \in Conn, SchedStep(c), Watch
  PROVE  TypeOK' /\ Types'
<1>1. Settled
  BY DEF Inv, Settled
<1>2. Own(c) /\ Moves(c)
  BY <1>1, StepMoves
<1>3. SchedTypeOK /\ Types /\ meetings \in Seq(Meeting)
  BY <1>1 DEF Settled, TypeOK, SchedTypeOK
<1>4. sc' \in [Conn -> SchedLocal] /\ tx' = [d \in Conn |-> tx'[d]]
      /\ \A d \in Conn : IsCall(tx'[d])
  BY <1>2, <1>3 DEF Own, SchedTypeOK, Types
<1>5. now' = now /\ calls' \in 0..MaxCalls /\ now' \in 0..MaxNow
  BY <1>1, <1>3, CountersStep DEF SchedTypeOK
<1>6. offered' \subseteq Target \X Slot
  <2>1. sc[c] \in SchedLocal /\ offered \subseteq Target \X Slot
    BY <1>3 DEF SchedTypeOK
  <2>2. sc[c].pc # "idle" => sc[c].tgt \in Target /\ sc[c].pick \in Slot
    BY <1>3, <2>1 DEF Types, SchedAt, SchedLocal
  <2>3. CASE Finds(c)
    <3>1. PICK i \in DOMAIN meetings :
              offered' = offered \cup {<<sc[c].tgt, meetings[i].slot>>}
      BY <2>3 DEF Finds
    <3>2. meetings[i] \in Meeting
      BY <1>3
    <3>3. meetings[i].slot \in Slot /\ sc[c].tgt \in Target
      BY <2>2, <2>3, <3>2 DEF Meeting, Finds, Goes
    <3>4. QED BY <2>1, <3>1, <3>3
  <2>4. CASE Returns(c)
    BY <2>1, <2>2, <2>4 DEF Returns, Goes
  <2>5. CASE UNCHANGED offered
    BY <2>1, <2>5
  <2>6. UNCHANGED offered \/ Finds(c) \/ Returns(c)
    BY <1>2, OffersMove
  <2>7. QED BY <2>3, <2>4, <2>5, <2>6
<1>7. \A d \in Conn : sc'[d].pc # "idle" => sc'[d].tgt \in Target /\ sc'[d].id # 0
  <2>1. TAKE d \in Conn
  <2>2. CASE d # c
    BY <1>1, <1>2, <1>3, <2>2, OthersStay DEF Types, SchedAt
  <2>3. CASE d = c
    <3>1. sc[c].pc # "idle" => sc[c].tgt \in Target /\ sc[c].id # 0
      BY <1>3 DEF Types, SchedAt
    <3>2. QED BY <1>2, <2>3, <3>1, TargetKept DEF Starts, SameTarget
  <2>4. QED BY <2>2, <2>3
<1>8. GateTypeOK'
  <2>1. DOMAIN registry' \subseteq Agent /\ \A a \in DOMAIN registry' :
            registry'[a].enabled \in BOOLEAN /\ registry'[a].actions \subseteq KNOWN_ACTIONS
    BY <1>1, <1>2, RegistryType DEF RegistryRow, Agent
  <2>2. QED BY <1>4, <2>1 DEF GateTypeOK, IsCall
<1>9. wish' \in BOOLEAN /\ late' \in Nat
  <2>1. Len(meetings') >= Len(meetings) /\ Len(meetings) \in Nat /\ Len(meetings') \in Nat
    BY <1>1, <1>2, <1>3, MeetingsType
  <2>2. QED BY <1>3, <2>1 DEF Watch, Types
<1>10. SchedTypeOK'
  BY <1>1, <1>2, <1>4, <1>5, <1>6, MeetingsType DEF SchedTypeOK
<1>11. Types'
  BY <1>1, <1>2, <1>4, <1>7, <1>9, RegistryType DEF Types, SchedAt
<1>12. QED BY <1>8, <1>10, <1>11 DEF TypeOK

-----------------------------------------------------------------------------
\* What the processes are at, before and after the step of one of them.
LEMMA SearchMoves ==
  ASSUME NEW c \in Conn, Moves(c)
  PROVE  \/ Starts(c) \/ Seeds(c) \/ Reserves(c) \/ Gates(c)
         \/ SeedsDone(c) \/ Returns(c) \/ Ends(c)
         \/ /\ Finds(c) \/ FindsNone(c) \/ Looks(c) \/ Picks(c) \/ Retries(c)
            /\ UNCHANGED tx /\ sc[c].pc \in {"existing", "look", "ask", "recheck"}
            /\ sc'[c].pc \in {"idle", "look", "ask", "recheck"}
  BY DEF Moves, Finds, FindsNone, Looks, Picks, Retries, Goes

LEMMA CallsStep ==
  ASSUME Inv, NEW c \in Conn, SchedStep(c)
  PROVE  CallsMatch'
<1>1. Settled /\ Types /\ CallsMatch
  BY DEF Inv, Settled
<1>2. Own(c) /\ Moves(c)
  BY <1>1, StepMoves
<1> SUFFICES ASSUME NEW d \in Conn
             PROVE  /\ tx'[d].pc # "none" => sc'[d].pc \in {"seed", "reserve"}
                    /\ InGate(d)' /\ sc'[d].pc = "seed" =>
                           <<tx'[d].action, tx'[d].agent, tx'[d].record>> =
                               <<"insert_agent_registry", "system", "meeting_scheduler">>
                    /\ InGate(d)' /\ sc'[d].pc = "reserve" =>
                           /\ tx'[d].action = "insert_meeting"
                           /\ tx'[d].agent = "meeting_scheduler"
                           /\ tx'[d].record \in Meeting
                           /\ tx'[d].record.target = sc'[d].tgt
                           /\ tx'[d].record.slot = sc'[d].pick
  BY DEF CallsMatch, GateAt, SchedAt, EntryOf
<1>3. /\ tx[d].pc # "none" => sc[d].pc \in {"seed", "reserve"}
      /\ InGate(d) /\ sc[d].pc = "seed" =>
             <<tx[d].action, tx[d].agent, tx[d].record>> =
                 <<"insert_agent_registry", "system", "meeting_scheduler">>
      /\ InGate(d) /\ sc[d].pc = "reserve" =>
             /\ tx[d].action = "insert_meeting" /\ tx[d].agent = "meeting_scheduler"
             /\ tx[d].record \in Meeting
             /\ tx[d].record.target = sc[d].tgt /\ tx[d].record.slot = sc[d].pick
  BY <1>1 DEF CallsMatch, GateAt, SchedAt, EntryOf
<1>4. CASE d # c
  <2>1. sc'[d] = sc[d] /\ tx'[d] = tx[d]
    BY <1>1, <1>2, <1>4, OthersStay
  <2>2. QED BY <1>3, <2>1 DEF InGate
<1>5. CASE d = c /\ (Starts(c) \/ Seeds(c))
  BY <1>3, <1>5 DEF Starts, Seeds, Goes, InGate
<1>6. CASE d = c /\ (SeedsDone(c) \/ Returns(c) \/ Ends(c))
  BY <1>6 DEF SeedsDone, Returns, Ends, InGate
<1>7. CASE d = c /\ Reserves(c)
  BY <1>7 DEF Reserves, Goes, SameTarget
<1>8. CASE d = c /\ UNCHANGED tx /\ sc[c].pc \in {"existing", "look", "ask", "recheck"}
  BY <1>3, <1>8 DEF InGate
<1>9. CASE d = c /\ Gates(c)
  <2>1. sc' = sc /\ GateStep(c)
    BY <1>9 DEF Gates, schedVars
  <2>2. CASE SameCall(tx'[c], tx[c]) /\ InGate(c)
    BY <1>3, <1>9, <2>1, <2>2 DEF SameCall, InGate
  <2>3. CASE tx'[c].pc \in {"done", "raised"} /\ InGate(c)
    BY <1>3, <1>9, <2>1, <2>3 DEF InGate
  <2>4. QED BY <1>1, <2>1, <2>2, <2>3, GateEffect DEF InGate, GateAt, Past
<1>10. QED BY <1>2, <1>4, <1>5, <1>6, <1>7, <1>8, <1>9, SearchMoves

\* A row of the registry keeps its enabled column, a new one is enabled.
LEMMA WishStep ==
  ASSUME Inv, NEW c \in Conn, SchedStep(c), Watch
  PROVE  WishIsKept'
<1>1. Settled /\ WishIsKept /\ wish' = wish /\ wish \in BOOLEAN
  BY DEF Inv, Settled, Watch, Types
<1>2. Moves(c)
  BY <1>1, StepMoves
<1>3. CASE Enters(c)
  <2> DEFINE a == "meeting_scheduler"
  <2>1. registry' = [b \in DOMAIN registry \cup {a} |->
                         IF b = a
                         THEN [enabled |-> a \in DOMAIN registry => registry[a].enabled,
                               actions |-> KNOWN_ACTIONS]
                         ELSE registry[b]]
    BY <1>3 DEF Enters, Upsert
  <2>2. a \in DOMAIN registry'
    BY <2>1
  <2>3. registry'[a].enabled = (a \in DOMAIN registry => registry[a].enabled)
    BY <2>1
  <2>4. (a \in DOMAIN registry => registry[a].enabled) = wish
    BY <1>1 DEF WishIsKept
  <2>5. QED BY <1>1, <2>2, <2>3, <2>4 DEF WishIsKept
<1>4. CASE UNCHANGED registry
  BY <1>1, <1>4 DEF WishIsKept
<1>5. QED BY <1>1, <1>2, <1>3, <1>4, TablesMove DEF Inserts

\* After a disable no write gets past the check, and an insert uses one up.
LEMMA ArmedMoves ==
  ASSUME Inv, NEW c \in Conn, SchedStep(c), ~wish
  PROVE  /\ Armed' \subseteq Armed
         /\ Inserts(c) => c \in Armed /\ c \notin Armed'
<1>1. Settled /\ WishIsKept /\ Types /\ CallsMatch /\ wish = FALSE
  BY DEF Inv, Settled, Types
<1>2. Own(c) /\ Moves(c)
  BY <1>1, StepMoves
<1>3. tx'[c].action = "insert_meeting" /\ tx'[c].pc \in Past =>
          tx[c].action = "insert_meeting" /\ tx[c].pc \in Past
  <2>1. CASE Gates(c)
    <3>1. CASE GateAt(c, "check") /\ SameCall(tx'[c], tx[c])
               /\ tx'[c].pc = IF Refused(c) THEN "refused" ELSE "begin"
      <4>1. CASE tx[c].action = "insert_meeting"
        <5>1. tx[c].agent = "meeting_scheduler"
          BY <1>1, <3>1, <4>1 DEF CallsMatch, GateAt, InGate, SchedAt, EntryOf
        <5>2. Refused(c)
          BY <1>1, <4>1, <5>1 DEF Refused, WishIsKept
        <5>3. QED BY <3>1, <5>2 DEF Past
      <4>2. CASE tx[c].action # "insert_meeting"
        BY <3>1, <4>2 DEF SameCall
      <4>3. QED BY <4>1, <4>2
    <3>2. QED BY <1>1, <2>1, <3>1, GateEffect DEF Gates, Past, SameCall
  <2>2. CASE UNCHANGED tx
    BY <2>2
  <2>3. CASE tx'[c].pc \in {"check", "none"}
    BY <2>3 DEF Past
  <2>4. QED BY <1>2, <2>1, <2>2, <2>3, SearchMoves
            DEF Starts, Seeds, Reserves, SeedsDone, Returns, Ends
<1>4. Armed' \subseteq Armed
  <2>1. \A d \in Conn : d # c => tx'[d] = tx[d]
    BY <1>1, <1>2, OthersStay
  <2>2. QED BY <1>3, <2>1 DEF Armed, Past
<1>5. Inserts(c) => c \in Armed /\ c \notin Armed'
  BY DEF Inserts, GateAt, Armed
<1>6. QED BY <1>4, <1>5

LEMMA WritesStep ==
  ASSUME Inv, NEW c \in Conn, SchedStep(c), Watch
  PROVE  WritesRunOut'
<1>1. Settled /\ WritesRunOut /\ wish' = wish /\ late \in Nat /\ wish \in BOOLEAN
  BY DEF Inv, Settled, Watch, Types
<1>2. CASE wish
  BY <1>1, <1>2 DEF Watch, WritesRunOut
<1>3. CASE ~wish
  <2>1. Moves(c)
    BY <1>1, StepMoves
  <2>2. Armed' \subseteq Armed /\ (Inserts(c) => c \in Armed /\ c \notin Armed')
    BY <1>3, ArmedMoves
  <2>3. IsFiniteSet(Conn) /\ IsFiniteSet(Armed) /\ IsFiniteSet(Armed')
        /\ Cardinality(Armed) \in Nat /\ Cardinality(Armed') \in Nat
        /\ Cardinality(Conn) \in Nat
    BY <2>2, ConnAssumption, FS_Subset, FS_CardinalityType DEF Armed
  <2>4. late' = late + (IF Inserts(c) THEN 1 ELSE 0)
    <3>1. /\ Len(meetings') = Len(meetings) + (IF Inserts(c) THEN 1 ELSE 0)
          /\ Len(meetings) \in Nat
      BY <1>1, <2>1, MeetingsType DEF Settled, TypeOK, SchedTypeOK
    <3>2. late' = late + Len(meetings') - Len(meetings)
      BY <1>3 DEF Watch
    <3>3. QED BY <1>1, <3>1, <3>2
  <2>5. late + Cardinality(Armed) <= Cardinality(Conn)
    BY <1>1, <1>3 DEF WritesRunOut
  <2>6. CASE Inserts(c)
    <3>1. Armed' \subseteq Armed \ {c}
      BY <2>2, <2>6
    <3>2. Cardinality(Armed \ {c}) = Cardinality(Armed) - 1 /\ IsFiniteSet(Armed \ {c})
      BY <2>2, <2>3, <2>6, FS_RemoveElement
    <3>3. Cardinality(Armed') <= Cardinality(Armed \ {c})
      BY <3>1, <3>2, FS_Subset
    <3>4. late' + Cardinality(Armed') <= Cardinality(Conn)
      BY <1>1, <2>3, <2>4, <2>5, <2>6, <3>2, <3>3
    <3>5. QED BY <1>1, <1>3, <3>4 DEF WritesRunOut
  <2>7. CASE ~Inserts(c)
    <3>1. Cardinality(Armed') <= Cardinality(Armed)
      BY <2>2, <2>3, FS_Subset
    <3>2. late' + Cardinality(Armed') <= Cardinality(Conn)
      BY <1>1, <2>3, <2>4, <2>5, <2>7, <3>1
    <3>3. QED BY <1>1, <1>3, <3>2 DEF WritesRunOut
  <2>8. QED BY <2>6, <2>7
<1>4. QED BY <1>2, <1>3

-----------------------------------------------------------------------------
\* A commit of a process's call is an entry in a table.
LEMMA CommitMoves ==
  ASSUME Settled, NEW c \in Conn, Gates(c), tx'[c].pc = "done"
  PROVE  Enters(c) \/ Inserts(c)
<1>1. GateAt(c, "commit") /\ Apply(c)
  <2>1. Types /\ GateStep(c)
    BY DEF Settled, Gates
  <2>2. QED BY <2>1, GateEffect DEF Past
<1>2. InGate(c) /\ sc[c].pc \in {"seed", "reserve"}
  BY <1>1 DEF InGate, GateAt, Settled, CallsMatch
<1>3. CASE sc[c].pc = "seed"
  <2>1. tx[c].action = "insert_agent_registry" /\ tx[c].record = "meeting_scheduler"
    BY <1>2, <1>3 DEF Settled, CallsMatch, SchedAt, EntryOf
  <2>2. QED BY <1>1, <1>3, <2>1 DEF Apply, Enters, SchedAt, Gates
<1>4. CASE sc[c].pc = "reserve"
  <2>1. /\ tx[c].action = "insert_meeting" /\ tx[c].record \in Meeting
        /\ tx[c].record.target = sc[c].tgt /\ tx[c].record.slot = sc[c].pick
    BY <1>2, <1>4 DEF Settled, CallsMatch, SchedAt
  <2>2. QED BY <1>1, <1>4, <2>1 DEF Apply, Inserts, SchedAt, Gates
<1>5. QED BY <1>2, <1>3, <1>4

\* Rows are never deleted.
HasSlotThen(t, slot) ==
    \E i \in DOMAIN meetings' : meetings'[i].target = t /\ meetings'[i].slot = slot
FreeThen(slot, n) ==
    n <= Len(meetings') /\ \A i \in 1..n : meetings'[i].slot # slot

LEMMA SlotsStay ==
  ASSUME Settled, NEW c \in Conn, Moves(c), NEW t, NEW slot, HasSlot(t, slot)
  PROVE  HasSlotThen(t, slot)
  BY MeetingsType DEF HasSlot, HasSlotThen

LEMMA CommitStored ==
  ASSUME Inv, NEW c \in Conn, SchedStep(c)
  PROVE  CommitIsStored'
<1>1. Settled /\ Types /\ CommitIsStored
  BY DEF Inv, Settled
<1>2. Own(c) /\ Moves(c)
  BY <1>1, StepMoves
<1> SUFFICES ASSUME NEW d \in Conn, sc'[d].pc = "reserve", tx'[d].pc = "done"
             PROVE  HasSlotThen(sc'[d].tgt, sc'[d].pick)
  BY DEF CommitIsStored, SchedAt, GateAt, HasSlot, HasSlotThen
<1>3. CASE sc'[d] = sc[d] /\ tx[d].pc = "done"
  <2>1. HasSlot(sc[d].tgt, sc[d].pick)
    BY <1>1, <1>3 DEF CommitIsStored, SchedAt, GateAt
  <2>2. QED BY <1>1, <1>2, <1>3, <2>1, SlotsStay
<1>4. CASE d # c
  BY <1>1, <1>2, <1>3, <1>4, OthersStay
<1>5. CASE d = c /\ Gates(c)
  <2>1. sc' = sc
    BY <1>5 DEF Gates, schedVars
  <2>2. Inserts(c)
    BY <1>1, <1>5, <2>1, CommitMoves DEF Enters, SchedAt
  <2>3. /\ meetings'[Len(meetings) + 1] = tx[c].record
        /\ Len(meetings) + 1 \in DOMAIN meetings'
    BY <1>1, <1>2, <2>2, MeetingsType
  <2>4. tx[c].record.target = sc'[c].tgt /\ tx[c].record.slot = sc'[c].pick
    BY <2>1, <2>2 DEF Inserts
  <2>5. QED BY <1>5, <2>3, <2>4 DEF HasSlotThen
<1>6. CASE d = c /\ ~Gates(c)
  BY <1>2, <1>6, SearchMoves
     DEF Starts, Seeds, Reserves, SeedsDone, Returns, Ends, Goes
<1>7. QED BY <1>4, <1>5, <1>6

LEMMA OfferStored ==
  ASSUME Inv, NEW c \in Conn, SchedStep(c)
  PROVE  OfferIsReserved'
<1>1. Settled /\ OfferIsReserved /\ CommitIsStored
  BY DEF Inv, Settled
<1>2. Moves(c)
  BY <1>1, StepMoves
<1>3. \A i \in DOMAIN meetings : i \in DOMAIN meetings' /\ meetings'[i] = meetings[i]
  BY <1>1, <1>2, MeetingsType
<1>4. \A o \in offered : \E i \in DOMAIN meetings' :
          meetings'[i].target = o[1] /\ meetings'[i].slot = o[2]
  BY <1>1, <1>3 DEF OfferIsReserved
<1>5. CASE Finds(c)
  <2>1. PICK i \in DOMAIN meetings :
            /\ meetings[i].target = sc[c].tgt
            /\ offered' = offered \cup {<<sc[c].tgt, meetings[i].slot>>}
    BY <1>5 DEF Finds
  <2>2. QED BY <1>3, <1>4, <2>1 DEF OfferIsReserved
<1>6. CASE Returns(c)
  <2>1. PICK i \in DOMAIN meetings :
            meetings[i].target = sc[c].tgt /\ meetings[i].slot = sc[c].pick
    BY <1>1, <1>6 DEF Returns, Goes, CommitIsStored, SchedAt, HasSlot
  <2>2. QED BY <1>3, <1>4, <1>6, <2>1 DEF OfferIsReserved, Returns
<1>7. CASE UNCHANGED offered
  BY <1>4, <1>7 DEF OfferIsReserved
<1>8. QED BY <1>2, <1>5, <1>6, <1>7, OffersMove

-----------------------------------------------------------------------------
\* A slot that was free at a time stays free at that time.
LEMMA FreeKept ==
  ASSUME Settled, NEW c \in Conn, Moves(c), NEW slot, NEW n \in Nat, FreeAt(slot, n)
  PROVE  FreeThen(slot, n)
<1>1. meetings \in Seq(Meeting) /\ Len(meetings) \in Nat /\ n <= Len(meetings)
  BY DEF Settled, TypeOK, SchedTypeOK, FreeAt
<1>2. Len(meetings') >= Len(meetings) /\ Len(meetings') \in Nat
  BY <1>1, MeetingsType
<1>3. \A i \in 1..n : i \in DOMAIN meetings /\ meetings'[i] = meetings[i]
  BY <1>1, MeetingsType
<1>4. QED BY <1>1, <1>2, <1>3 DEF FreeAt, FreeThen

LEMMA SlotsStep ==
  ASSUME Inv, NEW c \in Conn, SchedStep(c)
  PROVE  SlotWasFree'
<1>1. Settled /\ Types /\ SchedTypeOK /\ meetings \in Seq(Meeting) /\ SlotWasFree
      /\ CallsMatch
  BY DEF Inv, Settled, TypeOK, SchedTypeOK
<1>2. Own(c) /\ Moves(c)
  BY <1>1, StepMoves
<1>3. \A slot : \A n \in Nat : FreeAt(slot, n) => FreeThen(slot, n)
  BY <1>1, <1>2, FreeKept
<1> DEFINE Stays(m) == /\ m.how = "chosen" => FreeThen(m.slot, m.seen)
                       /\ m.how = "degraded" => FreeThen(m.slot, m.listed)
<1>4. ASSUME NEW m \in Meeting, WasFree(m)
      PROVE  Stays(m)
  <2>1. m.seen \in Nat /\ m.listed \in Nat
    BY DEF Meeting
  <2>2. QED BY <1>3, <1>4, <2>1 DEF WasFree
<1>5. ASSUME NEW d \in Conn, sc'[d].pc \in {"ask", "recheck"}
      PROVE  sc'[d].cand # {} /\ \A slot \in sc'[d].cand : FreeThen(slot, sc'[d].listed)
  <2>1. CASE sc[d].pc \in {"ask", "recheck"} /\ sc'[d].cand = sc[d].cand
             /\ sc'[d].listed = sc[d].listed
    <3>1. sc[d].listed \in Nat
      BY <1>1 DEF SchedTypeOK, SchedLocal
    <3>2. sc[d].cand # {} /\ \A slot \in sc[d].cand : FreeAt(slot, sc[d].listed)
      BY <1>1, <2>1 DEF SlotWasFree
    <3>3. \A slot \in sc[d].cand : FreeThen(slot, sc[d].listed)
      BY <1>3, <3>1, <3>2
    <3>4. QED BY <2>1, <3>2, <3>3
  <2>2. CASE d # c
    BY <1>1, <1>2, <1>5, <2>1, <2>2, OthersStay
  <2>3. CASE d = c /\ Looks(c)
    <3>1. \A slot \in CandidateSlots : FreeAt(slot, Len(meetings))
      BY <1>1 DEF CandidateSlots, Taken, FreeAt
    <3>2. meetings' = meetings
      BY <2>3 DEF Looks, Quiet
    <3>3. \A slot \in CandidateSlots : FreeThen(slot, Len(meetings))
      BY <3>1, <3>2 DEF FreeAt, FreeThen
    <3>4. QED BY <2>3, <3>3 DEF Looks
  <2>4. CASE d = c /\ (Picks(c) \/ Retries(c))
    BY <2>1, <2>4 DEF Picks, Retries, Goes, SameSearch
  <2>5. CASE d = c /\ Gates(c)
    BY <1>5, <2>1, <2>5 DEF Gates, schedVars
  <2>6. QED BY <1>2, <1>5, <2>2, <2>3, <2>4, <2>5, SearchMoves
            DEF Starts, Seeds, Reserves, SeedsDone, Returns, Ends, Goes, Finds, FindsNone
<1>6. ASSUME NEW d \in Conn, sc'[d].pc = "recheck"
      PROVE  sc'[d].pick \in sc'[d].cand
  <2>1. sc[d].pc = "recheck" => sc[d].pick \in sc[d].cand
    BY <1>1 DEF SlotWasFree, SchedAt
  <2>2. CASE d # c
    BY <1>1, <1>2, <1>6, <2>1, <2>2, OthersStay
  <2>3. CASE d = c /\ Picks(c)
    BY <2>3 DEF Picks, SameSearch
  <2>4. CASE d = c /\ Gates(c)
    BY <1>6, <2>1, <2>4 DEF Gates, schedVars
  <2>5. QED BY <1>2, <1>6, <2>2, <2>3, <2>4, SearchMoves
            DEF Starts, Seeds, Reserves, SeedsDone, Returns, Ends, Goes, Finds, FindsNone,
                Looks, Retries
<1>7. ASSUME NEW d \in Conn, InGate(d)', sc'[d].pc = "reserve"
      PROVE  Stays(tx'[d].record)
  <2>1. CASE tx'[d].record = tx[d].record /\ InGate(d) /\ sc[d].pc = "reserve"
    <3>1. WasFree(tx[d].record) /\ tx[d].record \in Meeting
      BY <1>1, <2>1 DEF SlotWasFree, SchedAt, CallsMatch
    <3>2. Stays(tx[d].record)
      BY <1>4, <3>1
    <3>3. QED BY <2>1, <3>2
  <2>2. CASE d # c
    BY <1>1, <1>2, <1>7, <2>1, <2>2, OthersStay DEF InGate
  <2>3. CASE d = c /\ Reserves(c)
    <3>1. WasFree(tx'[c].record) /\ tx'[c].record \in Meeting
      BY <2>3 DEF Reserves
    <3>2. Stays(tx'[c].record)
      BY <1>4, <3>1
    <3>3. QED BY <2>3, <3>2
  <2>4. CASE d = c /\ Gates(c)
    <3>1. sc' = sc /\ GateStep(c)
      BY <2>4 DEF Gates, schedVars
    <3>2. tx'[c].record = tx[c].record /\ InGate(c)
      BY <1>1, <1>7, <2>4, <3>1, GateEffect DEF InGate, GateAt, Past, SameCall
    <3>3. QED BY <1>7, <2>1, <2>4, <3>1, <3>2
  <2>5. QED BY <1>2, <1>7, <2>2, <2>3, <2>4, SearchMoves
            DEF Starts, Seeds, SeedsDone, Returns, Ends, Goes
<1>8. ASSUME NEW j \in DOMAIN meetings'
      PROVE  Stays(meetings'[j])
  <2>1. CASE j \in DOMAIN meetings
    <3>1. meetings'[j] = meetings[j] /\ meetings[j] \in Meeting
      BY <1>1, <1>2, <2>1, MeetingsType
    <3>2. WasFree(meetings[j])
      BY <1>1, <2>1 DEF SlotWasFree
    <3>3. Stays(meetings[j])
      BY <1>4, <3>1, <3>2
    <3>4. QED BY <3>1, <3>3
  <2>2. CASE j \notin DOMAIN meetings
    <3>1. Inserts(c) /\ meetings'[j] = tx[c].record
      BY <1>1, <1>2, <1>8, <2>2, MeetingsType
    <3>2. tx[c].record \in Meeting /\ InGate(c) /\ SchedAt(c, "reserve")
      BY <3>1 DEF Inserts, InGate, GateAt
    <3>3. WasFree(tx[c].record)
      BY <1>1, <3>2 DEF SlotWasFree
    <3>4. Stays(tx[c].record)
      BY <1>4, <3>2, <3>3
    <3>5. QED BY <3>1, <3>4
  <2>3. QED BY <2>1, <2>2
<1>9. QED BY <1>5, <1>6, <1>7, <1>8 DEF SlotWasFree, WasFree, SchedAt, FreeAt, FreeThen

-----------------------------------------------------------------------------
LEMMA OverlapStep ==
  ASSUME Inv, NEW c \in Conn, SchedStep(c), Watch
  PROVE  OverlapIsKnown' /\ overlap \subseteq overlap'
<1>1. Types'
  BY TypesStep
<1>2. overlap' = overlap \cup
          {t \in Target : \E d, e \in Conn :
              d # e /\ sc'[d].pc # "idle" /\ sc'[d].tgt = t
                    /\ sc'[e].pc # "idle" /\ sc'[e].tgt = t}
  BY DEF Watch
<1>3. \A d \in Conn : sc'[d].pc # "idle" => sc'[d].tgt \in Target
  BY <1>1 DEF Types, SchedAt
<1>4. QED BY <1>2, <1>3 DEF OverlapIsKnown, SchedAt

\* c is looking for a slot, or has one that it is reserving.
Seeks(c) == \/ sc[c].pc \in {"look", "ask", "recheck"}
            \/ SchedAt(c, "reserve") /\ InGate(c)

\* A process that starts to look has seen that its target has no meeting.
LEMMA SeekMoves ==
  ASSUME Settled, NEW c \in Conn, Own(c), Moves(c), Seeks(c)'
  PROVE  /\ sc'[c].tgt = sc[c].tgt
         /\ Seeks(c) \/ (FindsNone(c) /\ ~HasMeeting(sc[c].tgt))
<1>1. CASE Gates(c)
  <2>1. sc' = sc /\ GateStep(c) /\ Types
    BY <1>1 DEF Gates, schedVars, Settled
  <2>2. InGate(c)' => InGate(c)
    BY <2>1, GateEffect DEF InGate, GateAt, Past
  <2>3. QED BY <2>1, <2>2 DEF Seeks, SchedAt
<1>2. CASE FindsNone(c)
  BY <1>2 DEF FindsNone, SameTarget
<1>3. CASE Looks(c) \/ Picks(c) \/ Retries(c) \/ Reserves(c)
  BY <1>3 DEF Looks, Picks, Retries, Reserves, Goes, SameTarget, Seeks
<1>4. QED BY <1>1, <1>2, <1>3
          DEF Moves, Starts, Seeds, SeedsDone, Finds, Returns, Ends, Goes, Seeks, SchedAt

LEMMA OneMeetingStep ==
  ASSUME Inv, NEW c \in Conn, SchedStep(c), Watch
  PROVE  OneMeeting'
<1>1. Settled /\ OneMeeting /\ OverlapIsKnown /\ CallsMatch /\ Types
  BY DEF Inv, Settled
<1>2. Own(c) /\ Moves(c) /\ overlap \subseteq overlap'
  BY <1>1, StepMoves, OverlapStep
<1> SUFFICES ASSUME NEW t \in Target, t \notin overlap
             PROVE  /\ \A i, j \in DOMAIN meetings' :
                           meetings'[i].target = t /\ meetings'[j].target = t => i = j
                    /\ \A d \in Conn : sc'[d].tgt = t /\ Seeks(d)' => ~HasMeeting(t)'
  BY <1>2 DEF OneMeeting, Seeks, SchedAt
<1>3. /\ \A i, j \in DOMAIN meetings :
             meetings[i].target = t /\ meetings[j].target = t => i = j
      /\ \A d \in Conn : sc[d].tgt = t /\ Seeks(d) => ~HasMeeting(t)
  BY <1>1 DEF OneMeeting, Seeks
<1>4. Inserts(c) => Seeks(c) /\ sc' = sc
  BY DEF Inserts, Seeks, InGate, GateAt, schedVars
<1>5. Inserts(c) /\ sc[c].tgt = t => ~HasMeeting(t)
  BY <1>3, <1>4
<1>6. Inserts(c) => /\ DOMAIN meetings' = DOMAIN meetings \cup {Len(meetings) + 1}
                    /\ meetings'[Len(meetings) + 1].target = sc[c].tgt
  BY <1>1, <1>2, MeetingsType DEF Inserts
<1>7. /\ ~Inserts(c) => meetings' = meetings
      /\ \A i \in DOMAIN meetings : meetings'[i] = meetings[i]
  BY <1>1, <1>2, MeetingsType
<1>8. ASSUME NEW i \in DOMAIN meetings', NEW j \in DOMAIN meetings',
             meetings'[i].target = t, meetings'[j].target = t
      PROVE  i = j
  <2>1. CASE ~Inserts(c)
    BY <1>3, <1>7, <1>8, <2>1
  <2>2. CASE Inserts(c) /\ sc[c].tgt # t
    BY <1>3, <1>6, <1>7, <1>8, <2>2
  <2>3. CASE Inserts(c) /\ sc[c].tgt = t
    BY <1>5, <1>6, <1>7, <1>8, <2>3 DEF HasMeeting
  <2>4. QED BY <2>1, <2>2, <2>3
<1>9. ASSUME NEW d \in Conn, sc'[d].tgt = t, Seeks(d)', HasMeeting(t)'
      PROVE  FALSE
  <2>1. PICK i \in DOMAIN meetings' : meetings'[i].target = t
    BY <1>9 DEF HasMeeting
  <2>2. ~HasMeeting(t) /\ sc[d].tgt = t /\ (d # c => Seeks(d))
    <3>1. CASE d # c
      <4>1. sc'[d] = sc[d] /\ tx'[d] = tx[d]
        BY <1>1, <1>2, <3>1, OthersStay
      <4>2. Seeks(d)
        BY <1>9, <4>1 DEF Seeks, SchedAt, InGate
      <4>3. QED BY <1>3, <1>9, <4>1, <4>2
    <3>2. CASE d = c
      BY <1>1, <1>2, <1>3, <1>9, <3>2, SeekMoves
    <3>3. QED BY <3>1, <3>2
  <2>3. Inserts(c) /\ sc[c].tgt = t
    BY <1>6, <1>7, <2>1, <2>2 DEF HasMeeting
  <2>4. CASE d = c
    BY <1>9, <2>3, <2>4 DEF Seeks, Inserts, InGate, SchedAt, GateAt, schedVars
  <2>5. CASE d # c
    <3>1. ~SchedAt(c, "idle") /\ ~SchedAt(d, "idle")
      BY <1>4, <2>2, <2>3, <2>5 DEF Seeks, SchedAt
    <3>2. QED BY <1>1, <2>2, <2>3, <2>5, <3>1 DEF OverlapIsKnown
  <2>6. QED BY <2>4, <2>5
<1>10. QED BY <1>8, <1>9

-----------------------------------------------------------------------------
LEMMA TickStep ==
  ASSUME Inv, Tick, Watch
  PROVE  Inv'
<1> USE CalendarAssumption
<1>1. /\ UNCHANGED registry /\ UNCHANGED meetings /\ UNCHANGED writeLog /\ UNCHANGED tx
      /\ UNCHANGED sc /\ UNCHANGED calls /\ UNCHANGED offered /\ UNCHANGED wish
      /\ now' \in 0..MaxNow
  BY DEF Tick, Watch, gateVars, Inv, TypeOK, SchedTypeOK
<1>2. late' = IF wish THEN 0 ELSE late
  <2>1. Len(meetings) \in Nat /\ late \in Nat /\ meetings' = meetings
    BY <1>1 DEF Inv, TypeOK, SchedTypeOK, Types
  <2>2. late + Len(meetings) - Len(meetings) = late
    BY <2>1
  <2>3. QED BY <2>1, <2>2 DEF Watch
<1>3. TypeOK'
  BY <1>1 DEF Inv, TypeOK, GateTypeOK, SchedTypeOK
<1>4. Types'
  BY <1>1, <1>2 DEF Inv, Types, SchedAt
<1>5. CallsMatch' /\ WishIsKept' /\ OfferIsReserved' /\ CommitIsStored'
  BY <1>1 DEF Inv, CallsMatch, WishIsKept, OfferIsReserved, CommitIsStored, HasSlot,
              GateAt, SchedAt, InGate, EntryOf
<1>6. SlotWasFree'
  BY <1>1 DEF Inv, SlotWasFree, WasFree, FreeAt, SchedAt, InGate
<1>7. WritesRunOut'
  BY <1>1, <1>2 DEF Inv, WritesRunOut, Armed
<1>8. overlap \subseteq overlap'
  BY DEF Watch
<1>9. OverlapIsKnown' /\ OneMeeting'
  BY <1>1, <1>8 DEF Inv, OverlapIsKnown, OneMeeting, HasMeeting, SchedAt, InGate
<1>10. QED BY <1>3, <1>4, <1>5, <1>6, <1>7, <1>9 DEF Inv

LEMMA SetEnabledStep ==
  ASSUME Inv, SetEnabled
  PROVE  Inv'
<1>1. /\ UNCHANGED now /\ UNCHANGED meetings /\ UNCHANGED writeLog /\ UNCHANGED tx
      /\ UNCHANGED sc /\ UNCHANGED calls /\ UNCHANGED offered /\ UNCHANGED overlap
      /\ late' = 0 /\ wish' = ~wish /\ wish \in BOOLEAN
  BY DEF SetEnabled, schedVars, Inv, Types
<1> DEFINE a == "meeting_scheduler"
<1>2. /\ registry' = [registry EXCEPT ![a] = [registry[a] EXCEPT !.enabled = ~wish]]
      /\ a \in DOMAIN registry /\ DOMAIN registry' = DOMAIN registry
      /\ registry \in [DOMAIN registry -> RegistryRow]
      /\ DOMAIN registry \subseteq {a}
  BY DEF SetEnabled, Inv, Types
<1>3. registry[a] \in RegistryRow /\ (~wish) \in BOOLEAN
  <2>1. registry[a] \in RegistryRow
    BY <1>2
  <2>2. (~wish) \in BOOLEAN
    BY <1>1
  <2>3. QED BY <2>1, <2>2
<1>4. [registry[a] EXCEPT !.enabled = ~wish] \in RegistryRow
      /\ [registry[a] EXCEPT !.enabled = ~wish].enabled = ~wish
  BY <1>3 DEF RegistryRow
<1>5. registry' \in [DOMAIN registry' -> RegistryRow] /\ registry'[a].enabled = ~wish
  BY <1>2, <1>4
<1>6. TypeOK'
  <2>1. \A b \in DOMAIN registry' :
            registry'[b].enabled \in BOOLEAN /\ registry'[b].actions \subseteq KNOWN_ACTIONS
    BY <1>5 DEF RegistryRow
  <2>2. QED BY <1>1, <1>2, <2>1 DEF Inv, TypeOK, GateTypeOK, SchedTypeOK, Agent
<1>7. Types'
  BY <1>1, <1>2, <1>5 DEF Inv, Types, SchedAt
<1>8. WishIsKept'
  BY <1>1, <1>2, <1>5 DEF WishIsKept
<1>9. CallsMatch' /\ OfferIsReserved' /\ CommitIsStored'
  BY <1>1 DEF Inv, CallsMatch, OfferIsReserved, CommitIsStored, HasSlot,
              GateAt, SchedAt, InGate, EntryOf
<1>10. SlotWasFree'
  BY <1>1 DEF Inv, SlotWasFree, WasFree, FreeAt, SchedAt, InGate
<1>11. WritesRunOut'
  <2>1. Armed' = Armed /\ Armed \subseteq Conn
    BY <1>1 DEF Armed
  <2>2. Cardinality(Armed) <= Cardinality(Conn) /\ Cardinality(Armed) \in Nat
    BY <2>1, ConnAssumption, FS_Subset, FS_CardinalityType
  <2>3. QED BY <1>1, <2>1, <2>2 DEF WritesRunOut
<1>12. OverlapIsKnown' /\ OneMeeting'
  BY <1>1 DEF Inv, OverlapIsKnown, OneMeeting, HasMeeting, SchedAt, InGate
<1>13. QED BY <1>6, <1>7, <1>8, <1>9, <1>10, <1>11, <1>12 DEF Inv

LEMMA InvInit == Init => Inv
<1> SUFFICES ASSUME Init PROVE Inv
  OBVIOUS
<1> USE CalendarAssumption
<1>1. PICK known \in SUBSET {"meeting_scheduler"} :
          registry = [a \in known |-> [enabled |-> TRUE,
                                       actions |-> {"insert_agent_registry"}]]
  BY DEF Init, GateInit
<1>2. [enabled |-> TRUE, actions |-> {"insert_agent_registry"}] \in RegistryRow
  BY DEF RegistryRow, KNOWN_ACTIONS
<1>3. registry \in [DOMAIN registry -> RegistryRow]
      /\ DOMAIN registry \subseteq {"meeting_scheduler"}
      /\ \A a \in DOMAIN registry : registry[a].enabled = TRUE
  BY <1>1, <1>2
<1>4. /\ meetings = <<>> /\ tx = [c \in Conn |-> NoCall] /\ now = 0 /\ calls = 0
      /\ offered = {} /\ sc = [c \in Conn |-> IdleCall] /\ wish = TRUE /\ late = 0
      /\ overlap = {}
  BY DEF Init, GateInit, SchedInit
<1>5. /\ \A c \in Conn : tx[c] = NoCall /\ sc[c] = IdleCall
      /\ IdleCall \in SchedLocal /\ IdleCall.pc = "idle"
      /\ IsCall(NoCall) /\ NoCall.pc = "none"
  BY <1>4, IdleType, CallShapes
<1>6. Types
  BY <1>3, <1>4, <1>5 DEF Types, SchedAt
<1>7. TypeOK
  <2>1. GateTypeOK
    BY <1>3, <1>5 DEF GateTypeOK, RegistryRow, Agent, IsCall
  <2>2. SchedTypeOK
    BY <1>4, <1>5 DEF SchedTypeOK
  <2>3. QED BY <2>1, <2>2 DEF TypeOK
<1>8. CallsMatch /\ CommitIsStored /\ OfferIsReserved
  BY <1>4, <1>5 DEF CallsMatch, CommitIsStored, OfferIsReserved, GateAt, SchedAt, InGate
<1>9. WishIsKept /\ WritesRunOut
  BY <1>3, <1>4 DEF WishIsKept, WritesRunOut
<1>10. SlotWasFree
  BY <1>4, <1>5 DEF SlotWasFree, SchedAt, InGate
<1>11. OverlapIsKnown /\ OneMeeting
  BY <1>4, <1>5 DEF OverlapIsKnown, OneMeeting, SchedAt
<1>12. QED BY <1>6, <1>7, <1>8, <1>9, <1>10, <1>11 DEF Inv

LEMMA InvStep == Inv /\ [Next]_vars => Inv'
<1> SUFFICES ASSUME Inv, [Next]_vars
             PROVE  Inv'
  OBVIOUS
<1>1. ASSUME NEW c \in Conn, SchedStep(c), Watch
      PROVE  Inv'
  <2>1. TypeOK' /\ Types'
    BY <1>1, TypesStep
  <2>2. CallsMatch' /\ WishIsKept' /\ WritesRunOut'
    BY <1>1, CallsStep, WishStep, WritesStep
  <2>3. OfferIsReserved' /\ CommitIsStored' /\ SlotWasFree'
    BY <1>1, OfferStored, CommitStored, SlotsStep
  <2>4. OverlapIsKnown' /\ OneMeeting'
    BY <1>1, OverlapStep, OneMeetingStep
  <2>5. QED BY <2>1, <2>2, <2>3, <2>4 DEF Inv
<1>2. CASE Tick /\ Watch
  BY <1>2, TickStep
<1>3. CASE SetEnabled
  BY <1>3, SetEnabledStep
<1>4. CASE UNCHANGED vars
  <2>1. /\ UNCHANGED registry /\ UNCHANGED meetings /\ UNCHANGED writeLog /\ UNCHANGED tx
        /\ UNCHANGED now /\ UNCHANGED sc /\ UNCHANGED calls /\ UNCHANGED offered
        /\ UNCHANGED wish /\ UNCHANGED late /\ UNCHANGED overlap
    BY <1>4 DEF vars, gateVars, schedVars
  <2>2. TypeOK' /\ Types' /\ CallsMatch'
    BY <2>1 DEF Inv, TypeOK, GateTypeOK, SchedTypeOK, Types, CallsMatch, InGate, SchedAt,
                GateAt, EntryOf
  <2>3. WishIsKept' /\ WritesRunOut' /\ OfferIsReserved' /\ CommitIsStored'
    BY <2>1 DEF Inv, WishIsKept, WritesRunOut, Armed, OfferIsReserved, CommitIsStored,
                HasSlot, SchedAt, GateAt
  <2>4. SlotWasFree' /\ OverlapIsKnown' /\ OneMeeting'
    BY <2>1 DEF Inv, SlotWasFree, WasFree, FreeAt, OverlapIsKnown, OneMeeting, HasMeeting, SchedAt,
                InGate
  <2>5. QED BY <2>2, <2>3, <2>4 DEF Inv
<1>5. QED BY <1>1, <1>2, <1>3, <1>4 DEF Next

\* Inv, the inductive invariant of the booking side, holds in every state:
\* schedule_meeting() in any number of processes over commit() of the gate.
THEOREM BookingInvariant == Spec => []Inv
<1>1. Init => Inv
  BY InvInit
<1>2. Inv /\ [Next]_vars => Inv'
  BY InvStep
<1>3. QED BY <1>1, <1>2, PTL DEF Spec

\* Rows, calls and transactions keep their types, retries and restarts of
\* schedule_meeting() included.
THEOREM BookingTypes == Spec => []TypeOK
<1>1. Inv => TypeOK
  BY DEF Inv
<1>2. QED BY <1>1, BookingInvariant, PTL

\* Whatever an operator has set, seed_agent_registry() leaves it as it is.
THEOREM DisableSurvives == Spec => []DisableSurvivesSeeding
<1>1. Inv => DisableSurvivesSeeding
  BY DEF Inv, WishIsKept, DisableSurvivesSeeding
<1>2. QED BY <1>1, BookingInvariant, PTL

\* commit() asks the registry outside its transaction; still, after a disable
\* each process gets one more meeting in at most.
THEOREM DisableStops == Spec => []DisableStopsWrites
<1>1. Inv => DisableStopsWrites
  <2> SUFFICES ASSUME Inv
               PROVE  late <= Cardinality(Conn)
    BY DEF DisableStopsWrites
  <2>1. IsFiniteSet(Armed) /\ Cardinality(Armed) \in Nat /\ Cardinality(Conn) \in Nat
    BY ConnAssumption, FS_Subset, FS_CardinalityType DEF Armed
  <2>2. late \in Nat /\ WritesRunOut
    BY DEF Inv, Types
  <2>3. QED BY <2>1, <2>2 DEF WritesRunOut
<1>2. QED BY <1>1, BookingInvariant, PTL

\* What schedule_meeting() returns for a footer is a row of the table.
THEOREM OffersReserved == Spec => []OfferIsReserved
<1>1. Inv => OfferIsReserved
  BY DEF Inv
<1>2. QED BY <1>1, BookingInvariant, PTL

\* Every footer of a target names the same slot unless two calls for it ran at
\* a time: retries, kills and a calendar that has moved on do not change it.
THEOREM OffersStay == Spec => []OffersAgree
<1>1. Inv => OffersAgree
  <2> SUFFICES ASSUME Inv, NEW t \in Target \ overlap, NEW o1 \in offered,
                      NEW o2 \in offered, o1[1] = t, o2[1] = t
               PROVE  o1 = o2
    BY DEF OffersAgree
  <2>1. PICK i \in DOMAIN meetings : meetings[i].target = t /\ meetings[i].slot = o1[2]
    BY DEF Inv, OfferIsReserved
  <2>2. PICK j \in DOMAIN meetings : meetings[j].target = t /\ meetings[j].slot = o2[2]
    BY DEF Inv, OfferIsReserved
  <2>3. i = j
    BY <2>1, <2>2 DEF Inv, OneMeeting
  <2>4. o1 \in Target \X Slot /\ o2 \in Target \X Slot
    BY DEF Inv, TypeOK, SchedTypeOK
  <2>5. QED BY <2>1, <2>2, <2>3, <2>4
<1>2. QED BY <1>1, BookingInvariant, PTL

\* A slot the model chose is booked twice only by a row that came in after its
\* taker's last look; a fallback slot by one that came in after the list was
\* made; and a slot beyond the calendar when that was booked out.
THEOREM SharedSlots == Spec => []SharedSlotsExplained
<1>1. Inv => SharedSlotsExplained
  <2> SUFFICES ASSUME Inv, NEW i \in DOMAIN meetings, NEW j \in DOMAIN meetings,
                      SameSlot(i, j)
               PROVE  /\ meetings[j].how = "chosen" => i > meetings[j].seen
                      /\ meetings[j].how = "degraded" => i > meetings[j].listed
                      /\ meetings[j].how \in {"chosen", "degraded", "full"}
    BY DEF SharedSlotsExplained
  <2>1. meetings \in Seq(Meeting) /\ WasFree(meetings[j])
    BY DEF Inv, TypeOK, SchedTypeOK, SlotWasFree
  <2>2. meetings[j] \in Meeting /\ i \in Nat /\ i >= 1
        /\ meetings[i].slot = meetings[j].slot
    BY <2>1 DEF SameSlot
  <2>3. meetings[j].seen \in Nat /\ meetings[j].listed \in Nat
        /\ meetings[j].how \in {"chosen", "degraded", "full"}
    BY <2>2 DEF Meeting
  <2>4. ASSUME NEW n \in Nat, FreeAt(meetings[j].slot, n)
        PROVE  i > n
    BY <2>2, <2>4 DEF FreeAt
  <2>5. QED BY <2>1, <2>3, <2>4 DEF WasFree
<1>2. QED BY <1>1, BookingInvariant, PTL

-----------------------------------------------------------------------------
\* The write gate, with its callers, implements Ledger.
Mapped == <<DOMAIN registry, EnabledAgents, Permit, Entered, writeLog>>

LEMMA PermitShape ==
  ASSUME Settled, NEW c \in Conn, Own(c)
  PROVE  /\ Permit' = [Permit EXCEPT ![c] = Permit'[c]]
         /\ Permit[c] = IF tx[c].action # "insert_agent_registry" /\ tx[c].pc \in Past
                        THEN tx[c].agent ELSE "none"
         /\ Permit'[c] = IF tx'[c].action # "insert_agent_registry" /\ tx'[c].pc \in Past
                         THEN tx'[c].agent ELSE "none"
<1>1. \A d \in Conn : d # c => tx'[d] = tx[d]
  BY OthersStay
<1>2. \A d \in Conn : d # c => Permit'[d] = Permit[d]
  BY <1>1 DEF Permit
<1>3. Permit = [d \in Conn |-> Permit[d]] /\ Permit' = [d \in Conn |-> Permit'[d]]
  BY DEF Permit
<1>4. Permit' = [Permit EXCEPT ![c] = Permit'[c]]
  BY <1>2, <1>3
<1>5. QED BY <1>4 DEF Permit, Past

\* A step that leaves the tables alone gives a permit, takes one back, or does
\* nothing that Ledger sees.
LEMMA QuietImplements ==
  ASSUME Inv, NEW c \in Conn, Own(c), Moves(c), Quiet
  PROVE  L!Next \/ UNCHANGED Mapped
<1>1. Settled /\ Types /\ CallsMatch
  BY DEF Inv, Settled
<1>2. registry' = registry /\ meetings' = meetings /\ writeLog' = writeLog
  BY DEF Quiet
<1>3. /\ DOMAIN registry' = DOMAIN registry /\ EnabledAgents' = EnabledAgents
      /\ Entered' = Entered
  BY <1>2 DEF EnabledAgents, Entered
<1>4. Permit' = [Permit EXCEPT ![c] = Permit'[c]]
  BY <1>1, PermitShape
<1>5. CASE Permit'[c] = "none"
  BY <1>2, <1>3, <1>4, <1>5 DEF L!Next, L!Drop
<1>6. CASE Permit'[c] = Permit[c]
  <2>1. Permit' = Permit
    BY <1>4, <1>6 DEF Permit
  <2>2. QED BY <1>2, <1>3, <2>1 DEF Mapped
<1>7. CASE Permit'[c] # "none" /\ Permit'[c] # Permit[c]
  <2>1. tx'[c].action # "insert_agent_registry" /\ tx'[c].pc \in Past
        /\ Permit'[c] = tx'[c].agent
    BY <1>1, <1>7, PermitShape
  <2>2. tx' # tx
    BY <1>7 DEF Permit
  <2>3. Gates(c)
    BY <2>1, <2>2, SearchMoves
       DEF Starts, Seeds, Reserves, SeedsDone, Returns, Ends, Past
  <2>4. GateAt(c, "check") /\ SameCall(tx'[c], tx[c]) /\ ~Refused(c)
    <3>1. ~(tx[c].pc \in Past /\ SameCall(tx'[c], tx[c]))
      BY <1>1, <1>7, <2>1, PermitShape DEF SameCall
    <3>2. QED BY <1>1, <2>1, <2>3, <3>1, GateEffect DEF Gates, Past
  <2>5. tx[c].agent \in EnabledAgents
    BY <2>1, <2>4 DEF Refused, SameCall, EnabledAgents
  <2>6. tx[c].agent \in Agent /\ Permit'[c] = tx[c].agent
    BY <1>1, <2>1, <2>4 DEF Types, IsCall, SameCall
  <2>7. L!Grant(c, tx[c].agent)
    BY <1>2, <1>3, <1>4, <2>5, <2>6 DEF L!Grant
  <2>8. QED BY <2>6, <2>7 DEF L!Next
<1>8. QED BY <1>5, <1>6, <1>7

\* A commit is a row and its audit row in one step of Ledger.
LEMMA CommitImplements ==
  ASSUME Inv, NEW c \in Conn, Own(c), Gates(c), tx'[c].pc = "done"
  PROVE  L!Next
<1>1. Settled /\ Types /\ CallsMatch
  BY DEF Inv, Settled
<1>2. GateAt(c, "commit") /\ writeLog' = writeLog \cup {EntryOf(c)} /\ InGate(c)
  <2>1. GateStep(c)
    BY DEF Gates
  <2>2. QED BY <1>1, <2>1, GateEffect DEF Past, GateAt, InGate
<1>3. Permit' = [Permit EXCEPT ![c] = Permit'[c]] /\ Permit'[c] = "none"
  BY <1>1, PermitShape DEF Past
<1>4. CASE Enters(c)
  <2> DEFINE a == "meeting_scheduler"
             e == <<"insert_agent_registry", "system", a>>
  <2>1. EntryOf(c) = e
    BY <1>1, <1>2, <1>4 DEF CallsMatch, Enters, EntryOf
  <2>2. registry' = [b \in DOMAIN registry \cup {a} |->
                         IF b = a
                         THEN [enabled |-> a \in DOMAIN registry => registry[a].enabled,
                               actions |-> KNOWN_ACTIONS]
                         ELSE registry[b]]
        /\ meetings' = meetings
    BY <1>4 DEF Enters, Upsert
  <2>3. /\ DOMAIN registry' = DOMAIN registry \cup {a}
        /\ \A b \in DOMAIN registry : b # a => registry'[b] = registry[b]
        /\ registry'[a].actions = KNOWN_ACTIONS
        /\ registry'[a].enabled = (a \in DOMAIN registry => registry[a].enabled)
    BY <2>2
  <2>4. Entered' = Entered \cup {e}
    BY <2>2, <2>3 DEF Entered
  <2>5. EnabledAgents' = EnabledAgents \cup ({a} \ DOMAIN registry)
    BY <2>3 DEF EnabledAgents
  <2>6. Permit[c] = "none"
    <3>1. tx[c].action = "insert_agent_registry"
      BY <2>1 DEF EntryOf
    <3>2. QED BY <3>1 DEF Permit
  <2>7. Permit' = Permit
    BY <1>3, <2>6 DEF Permit
  <2>8. L!Register(c, e)
    BY <1>2, <2>1, <2>3, <2>4, <2>5, <2>7 DEF L!Register
  <2>9. e \in Entered'
    BY <2>4
  <2>10. QED BY <2>8, <2>9 DEF L!Next
<1>5. CASE Inserts(c)
  <2> DEFINE e == <<"insert_meeting", "meeting_scheduler", tx[c].record>>
  <2>1. EntryOf(c) = e /\ tx[c].action = "insert_meeting"
        /\ tx[c].agent = "meeting_scheduler"
    BY <1>1, <1>2, <1>5 DEF CallsMatch, Inserts, EntryOf
  <2>2. /\ registry' = registry
        /\ DOMAIN meetings' = DOMAIN meetings \cup {Len(meetings) + 1}
        /\ meetings'[Len(meetings) + 1] = tx[c].record
        /\ \A i \in DOMAIN meetings : meetings'[i] = meetings[i]
    <3>1. Moves(c) /\ registry' = registry
      BY <1>5 DEF Moves, Inserts
    <3>2. QED BY <1>1, <1>5, <3>1, MeetingsType
  <2>3. Entered' = Entered \cup {e}
    BY <2>2 DEF Entered
  <2>4. EnabledAgents' = EnabledAgents /\ DOMAIN registry' = DOMAIN registry
    BY <2>2 DEF EnabledAgents
  <2>5. Permit[c] = "meeting_scheduler"
    BY <1>2, <2>1 DEF Permit, GateAt
  <2>6. L!Record(c, e)
    BY <1>2, <1>3, <2>1, <2>3, <2>4, <2>5 DEF L!Record
  <2>7. e \in Entered'
    BY <2>3
  <2>8. QED BY <2>6, <2>7 DEF L!Next
<1>6. QED BY <1>1, <1>4, <1>5, CommitMoves

\* An operator's edit is a switch.
LEMMA SwitchImplements ==
  ASSUME Inv, SetEnabled
  PROVE  L!Next
<1> DEFINE a == "meeting_scheduler"
<1>1. /\ registry' = [registry EXCEPT ![a] = [registry[a] EXCEPT !.enabled = ~wish]]
      /\ a \in DOMAIN registry /\ registry \in [DOMAIN registry -> RegistryRow]
      /\ meetings' = meetings /\ writeLog' = writeLog /\ tx' = tx
  BY DEF SetEnabled, Inv, Types
<1>2. /\ DOMAIN registry' = DOMAIN registry
      /\ \A b \in DOMAIN registry : registry'[b].actions = registry[b].actions
  <2>1. registry[a] \in RegistryRow
    BY <1>1
  <2>2. [registry[a] EXCEPT !.enabled = ~wish].actions = registry[a].actions
    BY <2>1 DEF RegistryRow
  <2>3. QED BY <1>1, <2>2
<1>3. Entered' = Entered /\ Permit' = Permit
  BY <1>1, <1>2 DEF Entered, Permit
<1>4. EnabledAgents' \in SUBSET DOMAIN registry
  BY <1>2 DEF EnabledAgents
<1>5. QED BY <1>1, <1>2, <1>3, <1>4 DEF L!Next, L!Switch

LEMMA LedgerStep == Inv /\ [Next]_vars => L!Next \/ UNCHANGED Mapped
<1> SUFFICES ASSUME Inv, [Next]_vars
             PROVE  L!Next \/ UNCHANGED Mapped
  OBVIOUS
<1>1. ASSUME NEW c \in Conn, SchedStep(c)
      PROVE  L!Next \/ UNCHANGED Mapped
  <2>1. Settled
    BY DEF Inv, Settled
  <2>2. Own(c) /\ Moves(c)
    BY <1>1, <2>1, StepMoves
  <2>3. CASE Gates(c) /\ tx'[c].pc = "done"
    BY <2>2, <2>3, CommitImplements
  <2>4. CASE Gates(c) /\ tx'[c].pc # "done"
    <3>1. Quiet
      BY <2>1, <2>4, GateEffect DEF Gates, Quiet, Settled
    <3>2. QED BY <2>2, <3>1, QuietImplements
  <2>5. CASE ~Gates(c)
    <3>1. Quiet
      BY <2>2, <2>5 DEF Moves, Starts, Seeds, SeedsDone, Finds, FindsNone, Looks, Picks,
                        Retries, Reserves, Returns, Ends
    <3>2. QED BY <2>2, <3>1, QuietImplements
  <2>6. QED BY <2>3, <2>4, <2>5
<1>2. CASE SetEnabled
  BY <1>2, SwitchImplements
<1>3. CASE Tick \/ UNCHANGED vars
  <2>1. UNCHANGED gateVars
    BY <1>3 DEF Tick, vars
  <2>2. registry' = registry /\ meetings' = meetings /\ writeLog' = writeLog /\ tx' = tx
    BY <2>1 DEF gateVars
  <2>3. QED BY <2>2 DEF Mapped, EnabledAgents, Permit, Entered
<1>4. QED BY <1>1, <1>2, <1>3 DEF Next

\* commit() under schedule_meeting(), seed_agent_registry() and an operator's
\* edits implements Ledger: no row without its audit row, none without a permit
\* that was given while its agent was enabled.
THEOREM GateKeepsLedger == Spec => KeepsLedger
<1>1. Init => L!Init
  <2>1. SUFFICES ASSUME Init PROVE L!Init
    OBVIOUS
  <2>2. PICK known \in SUBSET {"meeting_scheduler"} :
            registry = [a \in known |-> [enabled |-> TRUE,
                                         actions |-> {"insert_agent_registry"}]]
    BY <2>1 DEF Init, GateInit
  <2>3. /\ DOMAIN registry \in SUBSET Agent /\ EnabledAgents \in SUBSET DOMAIN registry
    BY <2>2 DEF EnabledAgents, Agent
  <2>4. Permit = [c \in Conn |-> "none"]
    BY <2>1 DEF Init, GateInit, NoCall, Permit
  <2>5. Entered = {} /\ writeLog = {}
    <3>1. meetings = <<>> /\ writeLog = {}
      BY <2>1 DEF Init, GateInit
    <3>2. \A a \in DOMAIN registry : registry[a].actions # KNOWN_ACTIONS
      BY <2>2 DEF KNOWN_ACTIONS
    <3>3. QED BY <3>1, <3>2 DEF Entered
  <2>6. QED BY <2>3, <2>4, <2>5 DEF L!Init
<1>2. Inv /\ [Next]_vars => [L!Next]_<<DOMAIN registry, EnabledAgents, Permit, Entered, writeLog>>
  BY LedgerStep DEF Mapped
<1>3. QED BY <1>1, <1>2, BookingInvariant, PTL DEF Spec, KeepsLedger, L!Spec, L!ledger
=============================================================================
