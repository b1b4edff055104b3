---------------------------- MODULE StateMachine ----------------------------
(***************************************************************************)
(* The transition table of the pipeline: the states a target can be in and *)
(* the pairs transition() accepts.  Everything that changes a target's     *)
(* state goes through IsValid; nothing in the code compares the pair's     *)
(* from_state with the state stored in the row.                            *)
(***************************************************************************)

State ==
    {"new", "enriched", "researched", "scored", "watchlist", "not_target",
     "drafted", "awaiting_review", "approved", "sent", "dry_run_sent",
     "bounced", "replied", "routed", "suppressed", "failed"}

VALID_TRANSITIONS ==
    {<<"new", "enriched">>, <<"new", "researched">>,
     <<"enriched", "researched">>, <<"researched", "scored">>,
     <<"scored", "drafted">>, <<"scored", "watchlist">>,
     <<"scored", "not_target">>, <<"drafted", "awaiting_review">>,
     <<"awaiting_review", "approved">>, <<"awaiting_review", "not_target">>,
     <<"awaiting_review", "researched">>, <<"awaiting_review", "failed">>,
     <<"watchlist", "scored">>, <<"approved", "sent">>,
     <<"approved", "dry_run_sent">>, <<"approved", "failed">>,
     <<"sent", "replied">>, <<"sent", "bounced">>,
     <<"bounced", "suppressed">>, <<"dry_run_sent", "replied">>,
     <<"replied", "routed">>, <<"routed", "suppressed">>,
     <<"routed", "drafted">>}

\* Reachable from every state, themselves included.
ANY_TARGET_TRANSITIONS == {"suppressed", "failed"}

IsValid(from, to) ==
    \/ <<from, to>> \in VALID_TRANSITIONS
    \/ to \in ANY_TARGET_TRANSITIONS
=============================================================================
