----------------------------- MODULE PgLockMode -----------------------------
(***************************************************************************)
(* The modes of PostgreSQL's heavyweight table locks and which of them     *)
(* conflict (storage/lmgr/lock.c).  The statements of WED-sql's engine read *)
(* and write its tables under AccessShareLock and RowExclusiveLock; the    *)
(* ALTER TABLE of find_job and of the job inspector takes job_pool under   *)
(* AccessExclusiveLock.                                                    *)
(***************************************************************************)
EXTENDS Integers

AccessShareLock          == 1
RowShareLock             == 2
RowExclusiveLock         == 3
ShareUpdateExclusiveLock == 4
ShareLock                == 5
ShareRowExclusiveLock    == 6
ExclusiveLock            == 7
AccessExclusiveLock      == 8

LockMode == 1 .. 8

(* conflictTab[mode]: the modes another process may not hold meanwhile. *)
LockConflicts ==
    << {AccessExclusiveLock},
       {ExclusiveLock, AccessExclusiveLock},
       LockMode \ {AccessShareLock, RowShareLock, RowExclusiveLock,
                   ShareUpdateExclusiveLock},
       LockMode \ {AccessShareLock, RowShareLock, RowExclusiveLock},
       LockMode \ {AccessShareLock, RowShareLock, ShareLock},
       LockMode \ {AccessShareLock, RowShareLock},
       LockMode \ {AccessShareLock},
       LockMode >>

(* Weak modes may be kept in the backend's own fast-path array; strong     *)
(* modes conflict with one of them.  ShareUpdateExclusiveLock is neither.  *)
EligibleForRelationFastPath(m)   == m < ShareUpdateExclusiveLock
ConflictsWithRelationFastPath(m) == m > ShareUpdateExclusiveLock
=============================================================================
