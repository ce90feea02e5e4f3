------------------------------ MODULE MCChannels ------------------------------
(***************************************************************************)
(* Channels for TLC.                                                        *)
(***************************************************************************)
EXTENDS Channels, TLC

CONSTANTS A, B, G
Symmetry == Permutations({A, B})

\* A row of generate is not followed by another claim, nor follows one; and what a
\* second claim adds are the prompts of the first.
LastClaim == worker.attempt = MaxAttempts \/ worker.row \in Drawn
Claims    == worker.attempt > 1 => worker.row \notin Drawn /\ worker.prompts > 0
\* ... and its socket is lost only with ComfyUI's process.
Sockets   == worker.row \in Drawn => relay.drops = 0
\* Nothing more is asked of the threads once the last timings were made.
Unsent    == worker.at \in {"idle", "environment"} => ~LastClaim
===============================================================================
