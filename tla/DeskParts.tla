------------------------------ MODULE DeskParts ------------------------------
(***************************************************************************)
(* The smaller parts of the system side by side.  They share no state but  *)
(* the clock, so one behaviour needs to move only one of them: the scene   *)
(* says which.                                                             *)
(***************************************************************************)
EXTENDS LoginLimit, Health, SecurityLog, Registration, AuditReset

VARIABLE scene

DeskInit ==
  /\ now = 0
  /\ LimitInit /\ HealthInit /\ LogInit /\ RegistrationInit /\ AuditInit
  /\ scene \in {"logins", "health", "log", "registration", "reset"}

DeskNext ==
  /\ \/ /\ scene = "logins" /\ LimitNext
        /\ UNCHANGED <<healthVars, logVars, registrationVars, auditVars>>
     \/ /\ scene = "health" /\ HealthNext
        /\ UNCHANGED <<limitVars, logVars, registrationVars, auditVars>>
     \/ /\ scene = "log" /\ LogNext
        /\ UNCHANGED <<limitVars, healthVars, registrationVars, auditVars>>
     \/ /\ scene = "registration" /\ RegistrationNext
        /\ UNCHANGED <<limitVars, healthVars, logVars, auditVars>>
     \/ /\ scene = "reset" /\ AuditNext
        /\ UNCHANGED <<limitVars, healthVars, logVars, registrationVars>>
  /\ UNCHANGED scene

deskVars == <<limitVars, healthVars, logVars, registrationVars, auditVars, now, scene>>
DeskSpec == DeskInit /\ [][DeskNext]_deskVars

\* The tables of every part keep rows of their own shape, in the scene of any part.
TypesOK == LimitTypeOK /\ HealthTypeOK /\ LogTypeOK /\ RegistrationTypeOK /\ AuditTypeOK
=============================================================================
