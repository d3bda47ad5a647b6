------------------------------ MODULE MCIntake ------------------------------
(* Small instances of Intake: three messages of every kind, a queue with     *)
(* room for two, an inbox with room for one.                                 *)
EXTENDS Intake

MCKinds == {"work", "stop", "command"}

Verdict(s) ==
    IF DealtWith(s) THEN "dealt with" ELSE IF GivenUp(s) THEN "given up" ELSE "open"

\* What the safety properties can tell apart.  No guard reads fate or
\* toldToStop, the properties read of a fate only its verdict, and states that
\* differ in the rest have the same verdicts after the same step.
SafetyView ==
    <<queueVars, serveVars, drainVars, loopVars, unmarked,
      [s \in Numbers |-> Verdict(s)]>>
=============================================================================
