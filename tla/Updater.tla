-------------------------------- MODULE Updater --------------------------------
(***************************************************************************)
(* Self-update (dcc-cua-cli/src/update.rs): find the release, download and *)
(* verify it, and replace the installed executable under a lock, keeping a *)
(* copy until the replacement is in place or the old one is back.          *)
(***************************************************************************)
EXTENDS Naturals

CONSTANTS Procs,     \* the command lines
          Versions   \* releases of the executable, by number

ASSUME VersionsAssumption ==
    /\ Versions \subseteq Nat \ {0}
    /\ \E v \in Versions : \A u \in Versions : v <= u
    /\ \E v \in Versions : \A u \in Versions : u <= v

VARIABLES upc,       \* [Procs -> where the update is]
          exe,       \* the installed executable: a release, or Missing
          lock,      \* who holds the installation lock, or NoOwner
          backup     \* [Procs -> the release copied aside, or Missing]

updateVars == <<upc, exe, lock, backup>>

Missing == 0
NoOwner == "unlocked"

ASSUME NoOwnerAssumption == NoOwner \notin Procs

Latest == CHOOSE v \in Versions : \A u \in Versions : u <= v

\* The temporary directory with the copy of the old executable: dropped when
\* the update returns, kept when the rollback was incomplete or it crashed.
Kept(p) == backup[p] # Missing

UpdateInit(cmds, installed) ==
    /\ upc = [p \in Procs |-> IF cmds[p] = "update" THEN "begin" ELSE "none"]
    /\ exe = installed
    /\ lock = NoOwner
    /\ backup = [p \in Procs |-> Missing]

GotoU(p, l) == upc' = [upc EXCEPT ![p] = l]

\* The releases are listed, by the API or by the fallback of the public page.
\* The command ends with a query that failed, without a complete release or a
\* newer one, or if it was only to check; else it asks, unless told to apply.
Listed(p) ==
    /\ upc[p] = "begin"
    /\ \E l \in {"prompt", "download", "refused"} : GotoU(p, l)
    /\ UNCHANGED <<exe, lock, backup>>

\* confirm_update: the user's line on standard input.
UserConfirms(p) ==
    /\ upc[p] = "prompt"
    /\ \E l \in {"download", "refused"} : GotoU(p, l)
    /\ UNCHANGED <<exe, lock, backup>>

\* Checksum and archive arrive, or a download fails.
Downloaded(p) ==
    /\ upc[p] = "download"
    /\ \E l \in {"arrived", "refused"} : GotoU(p, l)
    /\ UNCHANGED <<exe, lock, backup>>

\* The bound on the archive, verify_sha256, and the executable unpacked.
Verify(p) ==
    /\ upc[p] = "arrived"
    /\ \E l \in {"downloaded", "refused"} : GotoU(p, l)
    /\ UNCHANGED <<exe, lock, backup>>

\* lock_installation: one update at a time owns the installation.
Lock(p) ==
    /\ upc[p] = "downloaded"
    /\ IF lock = NoOwner THEN lock' = p /\ GotoU(p, "locked")
                         ELSE GotoU(p, "refused") /\ UNCHANGED lock
    /\ UNCHANGED <<exe, backup>>

\* Leaving install_single_with: the lock goes with the file, the copy with
\* its directory unless it is kept.
Release(p, l, keep) == /\ GotoU(p, l)
                       /\ lock' = IF lock = p THEN NoOwner ELSE lock
                       /\ backup' = IF keep THEN backup ELSE [backup EXCEPT ![p] = Missing]

\* Both executables are bounded regular files and the old one is copied.
Backup(p) ==
    /\ upc[p] = "locked"
    /\ \/ /\ exe # Missing
          /\ backup' = [backup EXCEPT ![p] = exe]
          /\ GotoU(p, "replace")
          /\ UNCHANGED lock
       \/ Release(p, "refused", FALSE)
    /\ UNCHANGED exe

\* self_replace moves the old executable away first ...
MoveAway(p) ==
    /\ upc[p] = "replace"
    /\ exe' = Missing
    /\ GotoU(p, "moved")
    /\ UNCHANGED <<lock, backup>>

\* ... then the new one into place.
Replaced(p) ==
    /\ upc[p] = "moved"
    /\ exe' = Latest
    /\ Release(p, "installed", FALSE)

\* It fails before or after that.
ReplaceFails(p) ==
    /\ upc[p] \in {"replace", "moved"}
    /\ GotoU(p, "failed")
    /\ UNCHANGED <<exe, lock, backup>>

RollbackDropsCopy(p) ==
    /\ upc[p] = "failed"
    /\ \/ exe # Missing /\ Release(p, "rolledBack", FALSE) /\ UNCHANGED exe
       \/ /\ exe = Missing
          /\ exe' = backup[p]
          /\ Release(p, "rolledBack", FALSE)
       \/ Release(p, "incomplete", FALSE) /\ UNCHANGED exe

\* The rollback: an executable still there stays, a missing one is renamed
\* back from the copy. If that fails too the copy is kept.
Rollback(p) ==
    /\ upc[p] = "failed"
    /\ \/ exe # Missing /\ Release(p, "rolledBack", FALSE) /\ UNCHANGED exe
       \/ /\ exe = Missing
          /\ exe' = backup[p]
          /\ Release(p, "rolledBack", FALSE)
       \/ Release(p, "incomplete", TRUE) /\ UNCHANGED exe

\* The process dies: its lock is released by the system, its files stay.
Crash(p) ==
    /\ upc[p] \in {"locked", "replace", "moved", "failed"}
    /\ Release(p, "crashed", TRUE)
    /\ UNCHANGED exe

UpdateCommand(p) == \/ Verify(p) \/ Lock(p) \/ Backup(p) \/ MoveAway(p) \/ Replaced(p)
                    \/ ReplaceFails(p) \/ Rollback(p)

\* What a server or the user answers, without a deadline.
UpdateAnswer(p) == Listed(p) \/ UserConfirms(p) \/ Downloaded(p)
UpdateAsks(p) == upc[p] \in {"begin", "prompt", "download"}

UpdateEnded(p) == upc[p] \in {"none", "refused", "installed", "rolledBack", "incomplete",
                              "crashed"}
=============================================================================
