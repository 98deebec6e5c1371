------------------------------ MODULE MCWorker ------------------------------
(* Worker on small instances.                                               *)
EXTENDS Worker

MCBudget == {2}
MCNoLimit == {}
MCDelays == {0, 3}

=============================================================================
