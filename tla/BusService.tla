----------------------------- MODULE BusService -----------------------------
(***************************************************************************)
(* What the bus driver promises its callers, without its semaphores, its   *)
(* count and its flag: operations of several threads, each of which works  *)
(* in a session, uses the peripheral alone and while it is on, and is told *)
(* when something failed.  The peripheral is switched off between sessions *)
(* only.  QspiBus implements it (BusRefinement).                           *)
(***************************************************************************)
CONSTANTS
  Threads, Ops,
  Polling,   \* the operations that work without a session of their own
  Lossy      \* those that may answer "ok" after a failure

VARIABLES
  at,        \* of each thread, the operation in progress or the last answer
  session,   \* the threads that rely on the peripheral being on
  users,     \* the thread that uses it
  bad,       \* the operations in progress that have failed
  on         \* the peripheral

serviceVars == <<at, session, users, bad, on>>

Answers == {"ok", "fail"}

ServiceInit ==
  /\ at = [t \in Threads |-> "ok"]
  /\ session = {} /\ users = {} /\ bad = {} /\ on = FALSE

Asked(t) == at[t] \in Ops

(* While nobody asks for anything the driver may be set up anew.           *)
Setup ==
  /\ \A t \in Threads : ~Asked(t)
  /\ on' \in BOOLEAN
  /\ UNCHANGED <<at, session, users, bad>>

Call(t) ==
  /\ ~Asked(t)
  /\ \E o \in Ops : at' = [at EXCEPT ![t] = o]
  /\ UNCHANGED <<session, users, bad, on>>

Open(t) ==
  /\ Asked(t) /\ t \notin session \cup users
  /\ session' = IF at[t] \in Polling THEN session ELSE session \cup {t}
  /\ on' = TRUE
  /\ UNCHANGED <<at, users, bad>>

(* A step of an operation fails.                                           *)
StepFails(t) ==
  /\ Asked(t)
  /\ bad' = bad \cup {t}
  /\ UNCHANGED <<at, session, users, on>>

Use(t) ==
  /\ Asked(t) /\ users = {}
  /\ at[t] \notin Polling => t \in session /\ on
  /\ users' = {t}
  /\ UNCHANGED <<at, session, bad, on>>

(* The end of a use, of the session with it or not, with success or not.   *)
EndUse(t) ==
  /\ t \in users
  /\ users' = {}
  /\ session' \in {session, session \ {t}}
  /\ bad' \in {bad, bad \cup {t}}
  /\ UNCHANGED <<at, on>>

(* Or by the step that fails.                                              *)
Close(t) ==
  /\ t \in session \ users
  /\ session' = session \ {t}
  /\ bad' \in {bad, bad \cup {t}}
  /\ UNCHANGED <<at, users, on>>

(* By the last one, before it returns.                                     *)
SwitchOff ==
  /\ session = {} /\ users = {}
  /\ on' = FALSE
  /\ UNCHANGED <<at, session, users, bad>>

(* The answer, perhaps at the failing step itself.                         *)
Answer(t) ==
  /\ Asked(t) /\ t \notin session \cup users
  /\ \E s \in Answers :
       /\ s = "ok" => t \notin bad \/ at[t] \in Lossy
       /\ at' = [at EXCEPT ![t] = s]
  /\ bad' = bad \ {t}
  /\ UNCHANGED <<session, users, on>>

ServiceNext ==
  \/ Setup \/ SwitchOff
  \/ \E t \in Threads :
       \/ Call(t) \/ Open(t) \/ StepFails(t) \/ Use(t) \/ EndUse(t) \/ Close(t) \/ Answer(t)

ServiceSpec == ServiceInit /\ [][ServiceNext]_serviceVars
=============================================================================
