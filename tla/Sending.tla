------------------------------- MODULE Sending ------------------------------
(***************************************************************************)
(* send_cli (and the taskmaster's dry_run_send_approved tool): select the  *)
(* approved targets, and for each run send_email(), whose first step is    *)
(* evaluate_send_gate().  One action per SELECT of changing rows and per   *)
(* commit.  The rows phase 1 left (address, fit, signals, policy decision) *)
(* do not change any more and are read as the target's profile.  The rate  *)
(* limits count messages that are not dry runs; there are none.            *)
(***************************************************************************)
EXTENDS PipelineDB

CONSTANTS
    Sender,       \* processes running a send batch
    SerialSends,  \* TRUE: one send batch at a time
    MaxGateRows   \* bound on gate decisions a new batch may see

ASSUME SendingAssumption == SerialSends \in BOOLEAN /\ MaxGateRows \in Nat

VARIABLE sd  \* what each sender is doing

\* "next" is the loop head; "switch" .. "record" are the gate's reads and its
\* one commit; "reread" .. "log" the rest of send_email(); "died" ..
\* "failaudit" the handler that marks a crashed target failed.
SendPC == {"idle", "next", "switch", "email", "domain", "review", "revision",
           "newest", "record", "reread", "file", "message", "move", "audit",
           "log", "died", "failmove", "failaudit"}

\* queue: the batch still to do.  st: targets.state as last read.  clean: no
\* requirement missing so far.  ref: the revision the gate verified, 0 if
\* none.  text: the revision to compose.  step: the send's step_id.
SenderLocal == [pc : SendPC, queue : SUBSET Target, tgt : Target, st : State,
                clean : BOOLEAN, ref : Nat, text : Nat, step : Nat]

SendingTypeOK == sd \in [Sender -> SenderLocal]

IdleSender == [pc |-> "idle", queue |-> {}, tgt |-> CHOOSE t \in Target : TRUE,
               st |-> "new", clean |-> FALSE, ref |-> 0, text |-> 0, step |-> 0]

SendingInit == sd = [s \in Sender |-> IdleSender]

SendAt(s, pc) == sd[s].pc = pc

SendGoto(s, pc) == sd' = [sd EXCEPT ![s].pc = pc]

\* A gate check: goes on to pc, and keeps whether nothing is missing yet.
Check(s, ok, pc) ==
    /\ sd' = [sd EXCEPT ![s].pc = pc, ![s].clean = @ /\ ok]
    /\ UNCHANGED dbVars

Approved == {t \in Target : tstate[t] = "approved"}

\* Back to the loop head with the rest of the batch.
NextTarget(s) ==
    sd' = [sd EXCEPT ![s] = [IdleSender EXCEPT !.pc = "next", !.queue = sd[s].queue]]

-----------------------------------------------------------------------------
\* SELECT ... WHERE state='approved', once, before the loop.
Select(s) ==
    /\ SendAt(s, "idle")
    /\ SerialSends => \A q \in Sender : SendAt(q, "idle")
    /\ Len(gateLog) < MaxGateRows
    /\ Approved # {}
    /\ sd' = [sd EXCEPT ![s].pc = "next", ![s].queue = Approved]
    /\ UNCHANGED dbVars

\* The next target of the batch; the gate's first read is its row.  A target
\* without a contact is refused with no gate decision recorded.
ReadTarget(s) ==
    /\ SendAt(s, "next")
    /\ \E t \in sd[s].queue :
           \/ /\ profile[t] = "no_contact"
              /\ sd' = [sd EXCEPT ![s].pc = "log", ![s].queue = @ \ {t},
                                  ![s].tgt = t]
           \/ /\ profile[t] # "no_contact"
              /\ sd' = [sd EXCEPT ![s].pc = "switch", ![s].queue = @ \ {t},
                                  ![s].tgt = t, ![s].st = tstate[t],
                                  ![s].clean = TRUE]
    /\ UNCHANGED dbVars

EndBatch(s) ==
    /\ SendAt(s, "next")
    /\ sd[s].queue = {}
    /\ sd' = [sd EXCEPT ![s] = IdleSender]
    /\ UNCHANGED dbVars

\* An engaged switch skips every other check and is recorded as a refusal.
GateSwitch(s) ==
    /\ SendAt(s, "switch")
    /\ Check(s, ~Engaged, IF Engaged THEN "record" ELSE "email")

\* Faulty variant: the address is not looked up.
GateEmailUnchecked(s) ==
    /\ SendAt(s, "email")
    /\ Check(s, TRUE, "domain")

GateEmail(s) ==
    /\ SendAt(s, "email")
    /\ Check(s, sd[s].tgt \notin emailSupp, "domain")

\* Faulty variant: the fit requirements are not read.
GateDomainAnyFit(s) ==
    /\ SendAt(s, "domain")
    /\ Check(s, DomainOf[sd[s].tgt] \notin domainSupp, "review")

\* The domain check, and the reads of rows that no longer change.
GateDomain(s) ==
    /\ SendAt(s, "domain")
    /\ Check(s, /\ DomainOf[sd[s].tgt] \notin domainSupp
                /\ profile[sd[s].tgt] = "fit", "review")

\* The latest review decision must be an approval that has taken effect; only
\* then are the draft checks made.
GateReview(s) ==
    /\ SendAt(s, "review")
    /\ LET t == sd[s].tgt
           verified == /\ reviews[t] # <<>>
                       /\ LatestReview(t).decision \in APPROVAL_DECISIONS
                       /\ sd[s].st = "approved"
       IN  IF verified
           THEN sd' = [sd EXCEPT ![s].pc = "revision",
                                 ![s].ref = LatestReview(t).revision]
           ELSE sd' = [sd EXCEPT ![s].pc = "record", ![s].clean = FALSE]
    /\ UNCHANGED dbVars

\* Faulty variant: the gate columns of the revision are not read.
GateRevisionUnchecked(s) ==
    /\ SendAt(s, "revision")
    /\ Check(s, TRUE, "newest")

GateRevision(s) ==
    /\ SendAt(s, "revision")
    /\ Check(s, revisions[sd[s].tgt][sd[s].ref].passed, "newest")

GateNewest(s) ==
    /\ SendAt(s, "newest")
    /\ Check(s, HasMaxNumber(sd[s].tgt, sd[s].ref), "record")

\* _record_decision(), on refusal and on allowance.
RecordGate(s) ==
    /\ SendAt(s, "record")
    /\ gateLog' = Append(gateLog, [target |-> sd[s].tgt, allowed |-> sd[s].clean,
                                   verified |-> sd[s].ref])
    /\ IF sd[s].clean
       THEN sd' = [sd EXCEPT ![s].pc = "reread", ![s].step = Len(gateLog) + 1]
       ELSE SendGoto(s, "log")
    /\ UNCHANGED <<tstate, transitions, revisions, reviews, emailSupp, domainSupp,
                   killFile, profile, outbox, messages>>

-----------------------------------------------------------------------------
Artifact(s) == [target |-> sd[s].tgt, revision |-> sd[s].text, step |-> sd[s].step]

\* Faulty variant: the send goes on without writing its artifact.
RereadReviewNoFile(s) ==
    /\ SendAt(s, "reread")
    /\ sd' = [sd EXCEPT ![s].pc = "message",
                        ![s].text = LatestReview(sd[s].tgt).revision]
    /\ UNCHANGED dbVars

\* Faulty variant: the second look-up takes the oldest review row.
RereadReviewOldest(s) ==
    /\ SendAt(s, "reread")
    /\ sd' = [sd EXCEPT ![s].pc = "file",
                        ![s].text = reviews[sd[s].tgt][1].revision]
    /\ UNCHANGED dbVars

\* The latest review row again, for the text to compose.
RereadReview(s) ==
    /\ SendAt(s, "reread")
    /\ sd' = [sd EXCEPT ![s].pc = "file",
                        ![s].text = LatestReview(sd[s].tgt).revision]
    /\ UNCHANGED dbVars

\* Faulty variant: the transition comes before the message row.
WriteArtifactMovesFirst(s) ==
    /\ SendAt(s, "file")
    /\ outbox' = outbox \cup {Artifact(s)}
    /\ SendGoto(s, "move")
    /\ UNCHANGED <<tstate, transitions, revisions, reviews, emailSupp, domainSupp,
                   killFile, profile, gateLog, messages>>

WriteArtifact(s) ==
    /\ SendAt(s, "file")
    /\ outbox' = outbox \cup {Artifact(s)}
    /\ SendGoto(s, "message")
    /\ UNCHANGED <<tstate, transitions, revisions, reviews, emailSupp, domainSupp,
                   killFile, profile, gateLog, messages>>

InsertMessage(s) ==
    /\ SendAt(s, "message")
    /\ messages' = messages \cup {Artifact(s)}
    /\ SendGoto(s, "move")
    /\ UNCHANGED <<tstate, transitions, revisions, reviews, emailSupp, domainSupp,
                   killFile, profile, gateLog, outbox>>

\* Faulty variant: a dry run leaves the target approved.
MoveSentNot(s) ==
    /\ SendAt(s, "move")
    /\ SendGoto(s, "audit")
    /\ UNCHANGED dbVars

MoveSent(s) ==
    /\ SendAt(s, "move")
    /\ UpdateState(sd[s].tgt, "approved", "dry_run_sent")
    /\ SendGoto(s, "audit")
    /\ UNCHANGED <<transitions, revisions, reviews, emailSupp, domainSupp,
                   killFile, profile, gateLog, outbox, messages>>

AuditSent(s) ==
    /\ SendAt(s, "audit")
    /\ InsertTransition(sd[s].tgt, "approved", "dry_run_sent")
    /\ SendGoto(s, "log")
    /\ UNCHANGED <<tstate, revisions, reviews, emailSupp, domainSupp,
                   killFile, profile, gateLog, outbox, messages>>

\* log_step() after a refusal or a send: the last commit that may raise, with
\* the target's outcome already decided.
LogSend(s) ==
    /\ SendAt(s, "log")
    /\ NextTarget(s)
    /\ UNCHANGED dbVars

-----------------------------------------------------------------------------
InSend(s) == sd[s].pc \notin {"idle", "next", "died", "failmove", "failaudit"}

\* Faulty variant: a transition whose second commit raises is tried again.
RaiseInSendRetries(s) ==
    /\ InSend(s)
    /\ SendGoto(s, IF SendAt(s, "audit") THEN "move" ELSE "died")
    /\ UNCHANGED dbVars

\* Any read or commit of send_email() may raise; the batch loop catches it.
RaiseInSend(s) ==
    /\ InSend(s)
    /\ SendGoto(s, "died")
    /\ UNCHANGED dbVars

\* Faulty variant: the handler takes the target to be approved still.
ReadDiedAssumes(s) ==
    /\ SendAt(s, "died")
    /\ sd' = [sd EXCEPT ![s].pc = "failmove", ![s].st = "approved"]
    /\ UNCHANGED dbVars

ReadDied(s) ==
    /\ SendAt(s, "died")
    /\ sd' = [sd EXCEPT ![s].pc = "failmove", ![s].st = tstate[sd[s].tgt]]
    /\ UNCHANGED dbVars

MoveFailed(s) ==
    /\ SendAt(s, "failmove")
    /\ UpdateState(sd[s].tgt, sd[s].st, "failed")
    /\ SendGoto(s, "failaudit")
    /\ UNCHANGED <<transitions, revisions, reviews, emailSupp, domainSupp,
                   killFile, profile, gateLog, outbox, messages>>

AuditFailed(s) ==
    /\ SendAt(s, "failaudit")
    /\ InsertTransition(sd[s].tgt, sd[s].st, "failed")
    /\ NextTarget(s)
    /\ UNCHANGED <<tstate, revisions, reviews, emailSupp, domainSupp,
                   killFile, profile, gateLog, outbox, messages>>

\* Faulty variant: bookkeeping that raises is run again.
RetryBookkeeping(s) ==
    /\ sd[s].pc \in {"died", "failmove", "failaudit"}
    /\ SendGoto(s, "died")
    /\ UNCHANGED dbVars

\* The bookkeeping raises in its turn: the second guard moves to the next
\* target and leaves the state as it is.
RaiseInBookkeeping(s) ==
    /\ sd[s].pc \in {"died", "failmove", "failaudit"}
    /\ NextTarget(s)
    /\ UNCHANGED dbVars

\* The process is killed: the batch and the locals are gone.
CutSend(s) ==
    /\ ~SendAt(s, "idle")
    /\ sd' = [sd EXCEPT ![s] = IdleSender]
    /\ UNCHANGED dbVars

SendStep(s) ==
    \/ Select(s) \/ ReadTarget(s) \/ EndBatch(s)
    \/ GateSwitch(s) \/ GateEmail(s) \/ GateDomain(s)
    \/ GateReview(s) \/ GateRevision(s) \/ GateNewest(s) \/ RecordGate(s)
    \/ RereadReview(s) \/ WriteArtifact(s) \/ InsertMessage(s)
    \/ MoveSent(s) \/ AuditSent(s) \/ LogSend(s)
    \/ RaiseInSend(s) \/ ReadDied(s) \/ MoveFailed(s) \/ AuditFailed(s)
    \/ RaiseInBookkeeping(s) \/ CutSend(s)

SendingNext == \E s \in Sender : SendStep(s)
=============================================================================
