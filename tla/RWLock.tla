------------------------------- MODULE RWLock -------------------------------
(***************************************************************************)
(* What rw_latch_t promises its users: many readers or one writer, and a   *)
(* writer that can become a reader without letting anyone in between.      *)
(***************************************************************************)
CONSTANT Threads

VARIABLES
  readers,  \* threads inside a shared section
  writers   \* threads inside an exclusive section

lockVars == <<readers, writers>>

LockInit == readers = {} /\ writers = {}

AcquireRead(t) ==
  /\ writers = {} /\ t \notin readers
  /\ readers' = readers \cup {t}
  /\ UNCHANGED writers

AcquireWrite(t) ==
  /\ readers = {} /\ writers = {}
  /\ writers' = {t}
  /\ UNCHANGED readers

ReleaseRead(t) ==
  /\ t \in readers
  /\ readers' = readers \ {t}
  /\ UNCHANGED writers

ReleaseWrite(t) ==
  /\ t \in writers
  /\ writers' = {}
  /\ UNCHANGED readers

\* The exclusive section turns into a shared one in a single step.
Downgrade(t) ==
  /\ t \in writers
  /\ writers' = {}
  /\ readers' = readers \cup {t}

LockNext ==
  \E t \in Threads :
    \/ AcquireRead(t) \/ AcquireWrite(t)
    \/ ReleaseRead(t) \/ ReleaseWrite(t) \/ Downgrade(t)

LockSpec == LockInit /\ [][LockNext]_lockVars
=============================================================================
