----------------------------- MODULE Importing ------------------------------
(***************************************************************************)
(* import_csv: the rows of a file become accounts and targets, one write   *)
(* and one commit at a time.  The first row that raises ends the import;    *)
(* what earlier rows wrote stays, and so does its own account.  A check is  *)
(* taken together with the write it comes before.                           *)
(***************************************************************************)
EXTENDS IntakeDB

VARIABLE im      \* what each process's call of import_csv is doing

\* offer: the row's offer is known and does not conflict with the command
\* line.  flag: email_verified can be read, and has an address when asserted.
CsvRow == [domain : Domain, offer : BOOLEAN, flag : BOOLEAN, contact : BOOLEAN]

ImportPC == {"none", "row", "target", "done", "raised"}

\* made: created_target_ids.
NoImport == [pc |-> "none", rows |-> <<>>, made |-> {}]

ImInit == im = [p \in Proc |-> NoImport]

ImTypeOK ==
    \A p \in Proc : /\ im[p].pc \in ImportPC
                    /\ im[p].rows \in Seq(CsvRow)
                    /\ im[p].made \subseteq DOMAIN targets

ImAt(p, pc) == im[p].pc = pc
ImGoto(p, pc) == im' = [im EXCEPT ![p].pc = pc]
CurrentRow(p) == Head(im[p].rows)

StartImport(p, rows) == im' = [im EXCEPT ![p] = [NoImport EXCEPT !.pc = "row", !.rows = rows]]

EndOfFile(p) ==
    /\ ImAt(p, "row") /\ im[p].rows = <<>>
    /\ ImGoto(p, "done")
    /\ UNCHANGED intakeDB

\* The offer is resolved before anything is written; normalized_domain is
\* UNIQUE among the accounts.
InsertAccount(p) ==
    LET d == CurrentRow(p).domain
        fits == CurrentRow(p).offer /\ d \notin DOMAIN accounts
    IN
    /\ ImAt(p, "row") /\ im[p].rows # <<>>
    /\ \/ ~fits /\ ImGoto(p, "raised") /\ UNCHANGED accounts
       \/ /\ fits
          /\ accounts' = [e \in DOMAIN accounts \cup {d} |->
                              IF e = d THEN NewAccount ELSE accounts[e]]
          /\ ImGoto(p, "target")
    /\ UNCHANGED <<targets, policy>>

\* Faulty: a row whose flag cannot be read is passed over.
InsertTargetSkips(p) ==
    LET row == CurrentRow(p) IN
    /\ ImAt(p, "target")
    /\ \/ /\ ~row.flag
          /\ im' = [im EXCEPT ![p].pc = "row", ![p].rows = Tail(@)]
          /\ UNCHANGED <<targets, policy>>
       \/ /\ row.flag
          /\ targets' = Append(targets, [domain |-> row.domain, contact |-> row.contact,
                                         state |-> "new", score |-> 0])
          /\ policy' = Append(policy, "none")
          /\ im' = [im EXCEPT ![p].pc = "row", ![p].rows = Tail(@),
                              ![p].made = @ \cup {Len(targets) + 1}]
    /\ UNCHANGED accounts

\* The email_verified flag is read after the account is in the table.  The
\* contact row is left out: nothing reads it without its target.
InsertTarget(p) ==
    LET row == CurrentRow(p) IN
    /\ ImAt(p, "target")
    /\ \/ ~row.flag /\ ImGoto(p, "raised") /\ UNCHANGED <<targets, policy>>
       \/ /\ row.flag
          /\ targets' = Append(targets, [domain |-> row.domain, contact |-> row.contact,
                                         state |-> "new", score |-> 0])
          /\ policy' = Append(policy, "none")
          /\ im' = [im EXCEPT ![p].pc = "row", ![p].rows = Tail(@),
                              ![p].made = @ \cup {Len(targets) + 1}]
    /\ UNCHANGED accounts

ImStep(p) == EndOfFile(p) \/ InsertAccount(p) \/ InsertTarget(p)
=============================================================================
