-------------------------- MODULE DeploymentStatus --------------------------
(***************************************************************************)
(* What the status of one BentoDeployment promises to whoever reads it,    *)
(* without caches, queues, retries or children: a register that holds the  *)
(* object, and the few ways in which its conditions may move.  The         *)
(* controller (module BentoDeploymentController) writes every condition    *)
(* through an optimistic update of the whole object, from a copy that may  *)
(* be stale; that it nevertheless moves the status only in these ways is   *)
(* the refinement checked and proved about it.                             *)
(***************************************************************************)
CONSTANTS
    Specs,      \* the specs a user can write
    NoBD        \* the object does not exist (it was deleted)

VARIABLE obj    \* the BentoDeployment as the API server holds it

Status == {"None", "Unknown", "True", "False"}

Conditions == [available : Status, bentoFound : Status, requestFound : Status]

\* A condition that was never set is "None".
Unset == [available |-> "None", bentoFound |-> "None", requestFound |-> "None"]

Exists == obj # NoBD

\* The conditions become c; the spec is left alone.
Become(c) == obj' = [obj EXCEPT !.cond = c]

Started == obj.cond.available # "None"

Init == \E s \in Specs : obj = [spec |-> s, cond |-> Unset]
-----------------------------------------------------------------------------
\* The user edits the spec: no condition changes with it.
Edit == /\ Exists
        /\ \E s \in Specs : obj' = [obj EXCEPT !.spec = s]

Delete == obj' = NoBD

\* Before anything is known.
Start == /\ Exists
         /\ obj.cond.available \in {"None", "Unknown"}
         /\ Become([obj.cond EXCEPT !.available = "Unknown",
                                    !.bentoFound = "Unknown"])

FindBento == /\ Exists /\ Started
             /\ Become([obj.cond EXCEPT !.bentoFound = "True"])

MissBento == /\ Exists /\ Started
             /\ Become([obj.cond EXCEPT !.bentoFound = "False"])

\* The request is looked for only once the Bento is known to be missing.
SeekRequest == /\ Exists
               /\ obj.cond.bentoFound = "False"
               /\ Become([obj.cond EXCEPT !.requestFound = "Unknown"])

MissRequest == /\ Exists
               /\ obj.cond.bentoFound = "False"
               /\ obj.cond.requestFound = "Unknown"
               /\ Become([obj.cond EXCEPT !.requestFound = "False"])

FindRequest == /\ Exists
               /\ obj.cond.bentoFound = "False"
               /\ obj.cond.requestFound \in {"Unknown", "False"}
               /\ Become([obj.cond EXCEPT !.requestFound = "True"])

\* Something went wrong: only the availability is withdrawn.
Fail == /\ Exists /\ Started
        /\ Become([obj.cond EXCEPT !.available = "False"])

\* The deployment is available only while its Bento is known to exist.
Succeed == /\ Exists
           /\ obj.cond.bentoFound = "True"
           /\ Become([obj.cond EXCEPT !.available = "True"])

Next == \/ Edit \/ Delete \/ Start \/ FindBento \/ MissBento
        \/ SeekRequest \/ MissRequest \/ FindRequest \/ Fail \/ Succeed

Lifecycle == Init /\ [][Next]_obj
=============================================================================
