------------------------------ MODULE Procedures ------------------------------
(***************************************************************************)
(* The backup and restore procedures of monitoringBackupRestoreProcedure.js *)
(* carried out by an operator: a plan of steps, the list of the steps that *)
(* were executed, and the report that says from the list whether the       *)
(* procedure was completed.  The model adds what the steps do (their       *)
(* titles say it): one closes the platform to writes, some copy or restore *)
(* data, a later one opens the platform again.                             *)
(*                                                                         *)
(* External: the operator, who may leave steps out, repeat them, change    *)
(* their order and do things the plan does not know.                       *)
(***************************************************************************)
EXTENDS Integers, Sequences, FiniteSets

CONSTANTS
    MaxMistakes,    \* bound: deviations of the operator from the plan
    MaxExecuted     \* bound: executed steps

ProceduresAssumption == MaxMistakes \in Nat /\ MaxExecuted \in Nat

\* buildBackupProcedurePlan, buildRestoreProcedurePlan: all steps are required.
BackupPlan == <<"BK-01", "BK-02", "BK-03", "BK-04", "BK-05", "BK-06", "BK-07">>
RestorePlan == <<"RS-01", "RS-02", "RS-03", "RS-04", "RS-05", "RS-06", "RS-07">>

\* What the steps do to the platform.
Closes == {"BK-02", "RS-02"}
Handles == {"BK-03", "BK-04", "RS-03", "RS-04"}
Checks == {"BK-06", "RS-06"}
Opens == {"BK-07", "RS-07"}

VARIABLES
    plan,           \* the plan that is carried out
    executed,       \* the steps that were executed, in order
    open,           \* the platform takes writes
    handled,        \* history: the data steps done first while it was closed
    checked         \* history: the data that was handled when it was checked first

vars == <<plan, executed, open, handled, checked>>

Steps(p) == {p[i] : i \in DOMAIN p}
Nothing == [done |-> FALSE, with |-> {}]

TypeOK ==
    /\ plan \in {BackupPlan, RestorePlan}
    /\ executed \in Seq(Steps(plan) \cup {"XX"})
    /\ open \in BOOLEAN
    /\ handled \subseteq Handles
    /\ checked \in [done : BOOLEAN, with : SUBSET Handles]

Init ==
    /\ plan \in {BackupPlan, RestorePlan}
    /\ executed = <<>>
    /\ open = TRUE
    /\ handled = {}
    /\ checked = Nothing

\* The step that the plan has after the last one executed.
Due(s) ==
    IF executed = <<>> THEN s = plan[1]
    ELSE \E i \in DOMAIN plan : i > 1 /\ s = plan[i] /\ executed[Len(executed)] = plan[i - 1]

Mistakes == Cardinality({i \in DOMAIN executed :
    IF i = 1 THEN executed[1] # plan[1]
    ELSE ~\E j \in DOMAIN plan : j > 1 /\ executed[i] = plan[j] /\ executed[i - 1] = plan[j - 1]})

First(s) == s \notin {executed[i] : i \in DOMAIN executed}

Execute(s) ==
    /\ Len(executed) < MaxExecuted
    /\ Due(s) \/ Mistakes < MaxMistakes
    /\ executed' = Append(executed, s)
    /\ open' = IF s \in Closes THEN FALSE ELSE open \/ s \in Opens
    /\ handled' = IF s \in Handles /\ First(s) /\ ~open THEN handled \cup {s} ELSE handled
    /\ checked' = IF s \in Checks /\ First(s) THEN [done |-> TRUE, with |-> handled] ELSE checked
    /\ UNCHANGED plan

Next == \E s \in Steps(plan) \cup {"XX"} : Execute(s)

Spec == Init /\ [][Next]_vars

-----------------------------------------------------------------------------
(***************************************************************************)
(* validateProcedureExecution                                              *)
(***************************************************************************)

\* executedIds.indexOf: the place where a step was executed first.
Position(s) == CHOOSE i \in DOMAIN executed :
    executed[i] = s /\ \A j \in DOMAIN executed : executed[j] = s => i <= j

Missing == {s \in Steps(plan) : First(s)}

Unexpected == {executed[i] : i \in DOMAIN executed} \ Steps(plan)

\* A bug: a step is compared only with the one before it in the plan, executed or not.
OutOfOrderPairwise ==
    {plan[i] : i \in {i \in DOMAIN plan : i > 1 /\ ~First(plan[i]) /\ ~First(plan[i - 1])
                        /\ Position(plan[i - 1]) > Position(plan[i]) + 1}}

\* The steps first executed before one that the plan has earlier.
OutOfOrder ==
    {plan[i] : i \in {i \in DOMAIN plan : ~First(plan[i]) /\
        \E j \in 1 .. i - 1 : ~First(plan[j]) /\ Position(plan[j]) > Position(plan[i])}}

Status ==
    IF Missing = {} /\ OutOfOrder = {} /\ Unexpected = {} THEN "COMPLETED" ELSE "PARTIAL"

\* buildProcedureExecutionReport: the action of the audit record
Action ==
    IF plan = BackupPlan
    THEN IF Status = "COMPLETED" THEN "BACKUP_JOB_COMPLETED" ELSE "BACKUP_JOB_FAILED"
    ELSE IF Status = "COMPLETED" THEN "RESTORE_PROCEDURE_COMPLETED"
         ELSE "RESTORE_PROCEDURE_FAILED"

-----------------------------------------------------------------------------
(***************************************************************************)
(* Properties                                                              *)
(***************************************************************************)

\* A procedure is reported as completed only if every set of data was first handled
\* while the platform was closed to writes, and all of it before the check; and a
\* procedure carried out step by step is reported as completed, the platform open
\* again.  The reports look at the list of steps and not at the platform, and only at
\* the first execution of each step (detectOutOfOrder).
CompletedIsSound ==
    /\ Action \in {"BACKUP_JOB_COMPLETED", "RESTORE_PROCEDURE_COMPLETED"} =>
        /\ handled = Handles \cap Steps(plan)
        /\ checked = [done |-> TRUE, with |-> Handles \cap Steps(plan)]
    /\ executed = plan => open /\ Status = "COMPLETED"
=============================================================================
