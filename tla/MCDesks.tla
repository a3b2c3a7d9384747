------------------------------ MODULE MCDesks ------------------------------
(***************************************************************************)
(* The way of a package to PSA and its mint queue there, checked in one    *)
(* run: a behaviour is one of a single service.                            *)
(***************************************************************************)
EXTENDS MintQueue, VaultIntake

VARIABLE desk   \* the service that runs

Init ==
  /\ desk \in {"mint queue", "intake"}
  /\ QueueInit /\ IntakeInit
  /\ desk = "intake" \/ calls = 0

Next ==
  /\ UNCHANGED desk
  /\ \/ desk = "mint queue" /\ QueueNext  /\ UNCHANGED intakeVars
     \/ desk = "intake"     /\ IntakeNext /\ UNCHANGED queueVars

Spec == Init /\ [][Next]_<<desk, queueVars, intakeVars>>

\* The rows and what calls in flight hold have the values the columns and types
\* of the two services allow.
TypeOK == QueueTypeOK /\ IntakeTypeOK
=============================================================================
