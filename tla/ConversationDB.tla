--------------------------- MODULE ConversationDB ---------------------------
(***************************************************************************)
(* The rows that the draft and reply stages add to those of PipelineDB:    *)
(* the replies table, and the inbox directory it is filled from.  Nothing  *)
(* moves or marks a file that has been read.                               *)
(***************************************************************************)
EXTENDS PipelineDB

VARIABLES
    replies,  \* the reply rows of each target, in insert_seq order
    inbox     \* .eml files

convVars == <<dbVars, replies, inbox>>

\* "none" is NULL.  "other" stands for the six classes whose action is only
\* recorded; "review_required" for a risky or a low-confidence verdict.
RoutedAction == {"none", "queue_follow_up_draft", "auto_suppress",
                 "review_required", "other"}

\* own: the sender is the contact the target's messages were addressed to.
Reply == [action : RoutedAction, own : BOOLEAN]

\* The no-th reply to a message of the target.
InboxFile == [target : Target, no : Nat, own : BOOLEAN]

ConversationTypeOK ==
    /\ replies \in [Target -> Seq(Reply)]
    /\ inbox \subseteq InboxFile

\* The latest reply queued a follow-up draft.
QueuesFollowUp(t) ==
    /\ replies[t] # <<>>
    /\ replies[t][Len(replies[t])].action = "queue_follow_up_draft"

\* SELECT COUNT(*) of the routed -> drafted audit rows.
FollowUps(t) ==
    Cardinality({i \in DOMAIN transitions[t] :
                     transitions[t][i] = [from |-> "routed", to |-> "drafted"]})
=============================================================================
