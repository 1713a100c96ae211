-------------------------------- MODULE Sema --------------------------------
(***************************************************************************)
(* P and V of UPST_LIB SRC/NIFO/mems.c: semop on a System V semaphore that *)
(* starts at 1, with SEM_UNDO.  Both do nothing unless the owner's flag is *)
(* MEMS_SEMA_ON.  The value of a semaphore is the process that holds it.   *)
(***************************************************************************)
EXTENDS Naturals

CONSTANT Null \* nobody holds the semaphore

MEMS_SEMA_ON == 1

P(sem, flag, p) == IF flag = MEMS_SEMA_ON THEN sem = Null /\ sem' = p
                                          ELSE sem' = sem

V(sem, flag) == sem' = IF flag = MEMS_SEMA_ON THEN Null ELSE sem

\* Broken variant: without SEM_UNDO.
ReleaseNothing(sem, p) == sem' = sem

\* SEM_UNDO: the kernel undoes what a dead process did to the semaphore.
Release(sem, p) == sem' = IF sem = p THEN Null ELSE sem
=============================================================================
