----------------------------- MODULE PkgInstall -----------------------------
(***************************************************************************)
(* `myon pkg lock`, `myon pkg install` and `myon pkg install <url>`        *)
(* (src/pkg_ops.c) on a project directory: myon.toml, myon.lock and        *)
(* .myon/packages (src/pkg_fs.c).                                          *)
(*                                                                         *)
(* A step is what happens between two file-system calls that another run   *)
(* of the tool could notice; between any two the process may be killed.    *)
(* The resolver is taken by its result (module PkgResolve shows that a     *)
(* lock is the closure of the manifest).  The network may answer the same  *)
(* request with different bytes at different times.  Staging directories   *)
(* have unpredictable names, so a later run never meets one: they are left *)
(* out.                                                                    *)
(*                                                                         *)
(* Bad... operators are plausible mistakes in the definition they precede. *)
(***************************************************************************)
EXTENDS PkgGraph

CONSTANTS
    Sources,  \* every source that exists on the network
    Deps,     \* Deps[s]: the dependencies in its package.myon
    Hashes,   \* the archive bytes (by SHA-256) the network may serve
    None      \* no such directory

ASSUME InstallAssumption ==
    /\ IsFiniteSet(Sources)
    /\ Deps \in [Sources -> ManifestsOver(Sources)]
    /\ Hashes # {}
    /\ None \notin [src : Sources, sha256 : Hashes]

Names == {NameOf(s) : s \in Sources}
Manifests == ManifestsOver(Sources)
Archives == [src : Sources, sha256 : Hashes]
ArchiveName(e) == NameOf(e.src)

VARIABLES
    toml,      \* the dependencies in myon.toml
    lockFile,  \* the entries of myon.lock (empty: no such file)
    packages,  \* packages[n]: what .myon/packages/<n> holds
    backup,    \* backup[n]: what .myon/packages/<n>.bak-old holds
    cmd,       \* the command that is running
    pc,        \* where it is
    plan,      \* the archives it has still to write, fetch or promote
    item,      \* the archive it is promoting
    okInstall, \* history: an install has returned 0 and nothing happened since
    ever,      \* history: the packages that have been installed
    killed,    \* history: the process was killed in the middle of a command
    stranded   \* history: promote could not put a backup back

disk == <<toml, lockFile, packages, backup>>
proc == <<cmd, pc, plan, item>>
hist == <<okInstall, ever, killed, stranded>>
vars == <<disk, proc, hist>>

NoItem == None

TypeOK ==
    /\ toml \in Manifests
    /\ lockFile \subseteq Archives
    /\ packages \in [Names -> Archives \union {None}]
    /\ backup \in [Names -> Archives \union {None}]
    /\ cmd \in {"none", "lock", "install", "url"}
    /\ pc \in {"idle", "manifest", "resolve", "write_lock", "fetch",
               "promote", "aside", "moved"}
    /\ plan \subseteq Archives
    /\ item \in Archives \union {NoItem}
    /\ okInstall \in BOOLEAN
    /\ ever \subseteq Names
    /\ killed \in BOOLEAN
    /\ stranded \in BOOLEAN

BadMatches(L, M) == \A s \in M : \E e \in L : NameOf(e.src) = NameOf(s)

\* pkg_lock_check_matches_manifest: name and commit of each direct dependency,
\* not the repository it comes from
Matches(L, M) ==
    \A s \in M : \E e \in L :
        NameOf(e.src) = NameOf(s) /\ RevisionOf(e.src) = RevisionOf(s)

\* What resolve_all may return: the closure, each with the bytes just served.
Resolutions(M) ==
    LET C == Closure(Deps, M)
    IN  IF OneRevisionEach(C)
        THEN {{[src |-> s, sha256 |-> h[s]] : s \in C} : h \in [C -> Hashes]}
        ELSE {}

Stop ==
    /\ cmd' = "none"
    /\ pc' = "idle"
    /\ plan' = {}
    /\ item' = NoItem

\* The command reports an error and exits.
Fail ==
    /\ Stop
    /\ UNCHANGED okInstall

-----------------------------------------------------------------------------
Init ==
    /\ toml = {}
    /\ lockFile = {}
    /\ packages = [n \in Names |-> None]
    /\ backup = [n \in Names |-> None]
    /\ cmd = "none"
    /\ pc = "idle"
    /\ plan = {}
    /\ item = NoItem
    /\ okInstall = FALSE
    /\ ever = {}
    /\ killed = FALSE
    /\ stranded = FALSE

\* The user edits the dependencies of myon.toml.
EditManifest(M) ==
    /\ pc = "idle"
    /\ toml' = M
    /\ okInstall' = FALSE
    /\ UNCHANGED <<lockFile, packages, backup, proc, ever, killed,
                   stranded>>

\* pkg_ops_lock up to the rendering of the lock; a failure changes nothing.
LockCommand(L) ==
    /\ pc = "idle"
    /\ L \in Resolutions(toml)
    /\ Matches(L, toml)
    /\ cmd' = "lock"
    /\ pc' = "write_lock"
    /\ plan' = L
    /\ okInstall' = FALSE
    /\ UNCHANGED <<disk, item, ever, killed, stranded>>

\* pkg_ops_install_locked up to its loop
InstallCommand ==
    /\ pc = "idle"
    /\ Matches(lockFile, toml)
    /\ lockFile # {}
    /\ cmd' = "install"
    /\ pc' = "fetch"
    /\ plan' = lockFile
    /\ okInstall' = FALSE
    /\ UNCHANGED <<disk, item, ever, killed, stranded>>

\* pkg_ops_install_url up to the upsert into the manifest: the archive has
\* been fetched once, for its name, and its staging directory removed.
UrlCommand(s) ==
    /\ pc = "idle"
    /\ cmd' = "url"
    /\ pc' = "manifest"
    /\ \E h \in Hashes : item' = [src |-> s, sha256 |-> h]
    /\ okInstall' = FALSE
    /\ UNCHANGED <<disk, plan, ever, killed, stranded>>

\* pkg_manifest_upsert_dep and the rename of myon.toml.tmp
WriteManifest ==
    /\ pc = "manifest"
    /\ toml' = {s \in toml : NameOf(s) # ArchiveName(item)} \union {item.src}
    /\ pc' = "resolve"
    /\ item' = NoItem
    /\ UNCHANGED <<lockFile, packages, backup, cmd, plan, hist>>

ManifestNotWritten ==
    /\ pc = "manifest"
    /\ Fail
    /\ UNCHANGED <<disk, ever, killed, stranded>>

\* resolve_all(keep_staging): every archive is fetched again.
Resolve(L) ==
    /\ pc = "resolve"
    /\ L \in Resolutions(toml)
    /\ Matches(L, toml)
    /\ plan' = L
    /\ pc' = "write_lock"
    /\ UNCHANGED <<disk, cmd, item, hist>>

\* The manifest that has just been written stays.
ResolveFails ==
    /\ pc = "resolve"
    /\ Fail
    /\ UNCHANGED <<disk, ever, killed, stranded>>

\* The rename of myon.lock.tmp
WriteLock ==
    /\ pc = "write_lock"
    /\ lockFile' = plan
    /\ IF cmd = "lock" THEN Stop
       ELSE pc' = "fetch" /\ UNCHANGED <<cmd, plan, item>>
    /\ UNCHANGED <<toml, packages, backup, hist>>

\* resolver_free(rmtree_staged) for an install by URL
LockNotWritten ==
    /\ pc = "write_lock"
    /\ Fail
    /\ UNCHANGED <<disk, ever, killed, stranded>>

\* install_locked: the next entry in name order is fetched, its hash
\* verified, extracted to staging and validated.
Fetch(e, h) ==
    /\ cmd = "install"
    /\ pc = "fetch"
    /\ e \in plan
    /\ \A f \in plan : ArchiveName(e) <= ArchiveName(f)
    /\ h = e.sha256
    /\ item' = e
    /\ pc' = "promote"
    /\ UNCHANGED <<disk, cmd, plan, hist>>

\* No answer, a different hash, a bad archive or layout: the loop breaks.
FetchFails ==
    /\ cmd = "install"
    /\ pc = "fetch"
    /\ Fail
    /\ UNCHANGED <<disk, ever, killed, stranded>>

\* install_url: the next staged package
TakeStaged(e) ==
    /\ cmd = "url"
    /\ pc = "fetch"
    /\ e \in plan
    /\ item' = e
    /\ pc' = "promote"
    /\ UNCHANGED <<disk, cmd, plan, hist>>

-----------------------------------------------------------------------------
\* pkg_fs_promote of item

Name == ArchiveName(item)

\* The caller's loop goes on, or the command ends well.
NextItem ==
    /\ plan' = {e \in plan : ArchiveName(e) # Name}
    /\ IF plan' = {}
       THEN okInstall' = TRUE /\ cmd' = "none" /\ pc' = "idle"
       ELSE pc' = "fetch" /\ UNCHANGED <<cmd, okInstall>>
    /\ item' = NoItem

BadMoveAside ==
    /\ pc = "promote"
    /\ packages[Name] # None
    /\ packages' = [packages EXCEPT ![Name] = None]
    /\ pc' = "aside"
    /\ UNCHANGED <<toml, lockFile, backup, cmd, plan, item, hist>>

\* Drop a stale backup, then rename the existing install to the backup name.
MoveAside ==
    /\ pc = "promote"
    /\ packages[Name] # None
    /\ backup' = [backup EXCEPT ![Name] = packages[Name]]
    /\ packages' = [packages EXCEPT ![Name] = None]
    /\ pc' = "aside"
    /\ UNCHANGED <<toml, lockFile, cmd, plan, item, hist>>

BadAfterFailedPromote == NextItem

\* After a failed promote: the caller's loop ends, the command reports it.
AfterFailedPromote == Fail

\* The rename fails, or already mkdirs did (then a stale backup is still there).
CannotMoveAside ==
    /\ pc = "promote"
    /\ packages[Name] # None
    /\ backup' \in {backup, [backup EXCEPT ![Name] = None]}
    /\ AfterFailedPromote
    /\ UNCHANGED <<toml, lockFile, packages, ever, killed, stranded>>

\* rename(staged, final_dir), no install before: a stale backup stays.
MoveIn ==
    /\ pc = "promote"
    /\ packages[Name] = None
    /\ packages' = [packages EXCEPT ![Name] = item]
    /\ ever' = ever \union {Name}
    /\ NextItem
    /\ UNCHANGED <<toml, lockFile, backup, killed, stranded>>

\* The same rename with the old install moved aside.
MoveOver ==
    /\ pc = "aside"
    /\ packages' = [packages EXCEPT ![Name] = item]
    /\ pc' = "moved"
    /\ UNCHANGED <<toml, lockFile, backup, cmd, plan, item, hist>>

\* The rename fails and there was no install before.
CannotMoveIn ==
    /\ pc = "promote"
    /\ packages[Name] = None
    /\ AfterFailedPromote
    /\ UNCHANGED <<disk, ever, killed, stranded>>

BadRollBack ==
    /\ pc = "aside"
    /\ AfterFailedPromote
    /\ UNCHANGED <<disk, ever, killed, stranded>>

\* The rename fails: put the backup back.
RollBack ==
    /\ pc = "aside"
    /\ packages' = [packages EXCEPT ![Name] = backup[Name]]
    /\ backup' = [backup EXCEPT ![Name] = None]
    /\ AfterFailedPromote
    /\ UNCHANGED <<toml, lockFile, ever, killed, stranded>>

\* The result of that second rename is not looked at.
RollBackFails ==
    /\ pc = "aside"
    /\ stranded' = TRUE
    /\ AfterFailedPromote
    /\ UNCHANGED <<disk, ever, killed>>

\* rmtree of the backup; its failure is ignored.
DropBackup ==
    /\ pc = "moved"
    /\ backup' \in {backup, [backup EXCEPT ![Name] = None]}
    /\ NextItem
    /\ UNCHANGED <<toml, lockFile, packages, ever, killed, stranded>>

-----------------------------------------------------------------------------
\* The process dies; what is on disk stays.
Kill ==
    /\ pc # "idle"
    /\ Stop
    /\ killed' = TRUE
    /\ UNCHANGED <<disk, okInstall, ever, stranded>>

Promote ==
    \/ MoveAside \/ CannotMoveAside
    \/ MoveIn \/ MoveOver \/ CannotMoveIn
    \/ RollBack \/ RollBackFails
    \/ DropBackup

Next ==
    \/ \E M \in Manifests : EditManifest(M)
    \/ \E L \in Resolutions(toml) : LockCommand(L) \/ Resolve(L)
    \/ InstallCommand
    \/ \E s \in Sources : UrlCommand(s)
    \/ WriteManifest \/ ManifestNotWritten
    \/ ResolveFails
    \/ WriteLock \/ LockNotWritten
    \/ \E e \in plan, h \in Hashes : Fetch(e, h)
    \/ FetchFails
    \/ \E e \in plan : TakeStaged(e)
    \/ Promote
    \/ Kill

Spec == Init /\ [][Next]_vars

-----------------------------------------------------------------------------
\* Properties

\* After an install that reports success, each package named by myon.lock is
\* installed from the very archive whose hash the lock records.
InstalledMatchesLock ==
    /\ TypeOK
    /\ okInstall => \A e \in lockFile : packages[ArchiveName(e)] = e

\* No failure and no kill loses an installed package: it is in place or in
\* its backup (pkg_fs_promote clears a backup only when it can replace it).
NoneLost == \A p \in ever : packages[p] # None \/ backup[p] # None

\* docs/package_manager.md section 10: a failure on the way leaves a working
\* install in place, as long as the process lives and backups can be put back.
FailureKeepsInstalls ==
    pc = "idle" /\ ~killed /\ ~stranded => \A p \in ever : packages[p] # None

\* docs/package_manager.md section 10: the replacement is atomic; a process
\* killed during it leaves an installed package installed.
AtomicReplacement ==
    pc = "idle" /\ ~stranded => \A p \in ever : packages[p] # None

-----------------------------------------------------------------------------
\* Refinement: an install that is aside counts as installed, so that moving it
\* aside, putting it back and dropping it are no steps of the store.
installed ==
    [n \in Names |->
        IF pc = "aside" /\ n = Name THEN backup[n] ELSE packages[n]]

interrupted == killed \/ stranded

Store == INSTANCE PackageStore WITH
            manifest <- toml, lock <- lockFile, store <- installed,
            broken <- interrupted, reported <- okInstall

\* The commands, with their failing calls and kills, do only what module
\* PackageStore promises: each package is replaced at once by what the lock
\* names; success means that all the manifest needs, directly or not, is
\* installed, also when the lock was written for another manifest
\* (pkg_lock_check_matches_manifest compares the direct dependencies only, and
\* of these name and commit: each may come from another repository than the
\* manifest says); and only a promote that is killed or cannot be rolled back
\* loses a package.
ImplementsStore == Store!Spec
=============================================================================
