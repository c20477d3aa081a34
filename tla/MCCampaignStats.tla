-------------------------- MODULE MCCampaignStats --------------------------
(* A finite instance of CampaignStats for TLC: one writer. *)
EXTENDS CampaignStats

\* One instant on two clocks, the second two hours (four halves) ahead of UTC.
Noon(z) == [camp |-> "a", type |-> "click", at |-> 24, zone |-> z]

MCSingles == {Noon(0)}
ZonedBatches == {<<Noon(0), Noon(4)>>}
=============================================================================
