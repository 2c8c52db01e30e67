----------------------------- MODULE MCFlowRuns -----------------------------
(***************************************************************************)
(* FlowRuns on a draft a person approves, with a deadline, before it is    *)
(* filed: dropped when rejected, held when nobody answers; drafting that   *)
(* fails is tried again until the budget is spent.                         *)
(***************************************************************************)
EXTENDS FlowRuns, TLC

DraftFlow ==
    [kind |-> "entry" :> "entry" @@ "draft" :> "prompt" @@ "ask" :> "approval"
              @@ "file" :> "tool" @@ "hold" :> "wait" @@ "drop" :> "end_failed",
     edges |-> {<<"entry", "", "draft">>, <<"draft", "ok", "ask">>,
                <<"ask", "approve", "file">>, <<"ask", "reject", "drop">>,
                <<"ask", "timeout", "hold">>, <<"hold", "after", "file">>,
                <<"draft", "error", "draft">>}]
=============================================================================
