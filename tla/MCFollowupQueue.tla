-------------------------- MODULE MCFollowupQueue ---------------------------
(* Constants of the follow-up queue runs.                                  *)
EXTENDS FollowupQueue

Setting(mode, policy, cap) == [mode |-> mode, dropPolicy |-> policy, cap |-> cap]

CollectAndFollowup ==
    {Setting("collect", "summarize", 2), Setting("followup", "summarize", 2),
     Setting("collect", "new", 2), Setting("followup", "old", 1)}

FollowupOnly == {Setting("followup", "summarize", 2)}

TwoPlaces == [m \in Msg |-> IF m = 2 THEN "b" ELSE IF m = 4 THEN "none" ELSE "a"]
OnePlace == [m \in Msg |-> "a"]

=============================================================================
