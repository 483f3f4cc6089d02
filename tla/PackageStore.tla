---------------------------- MODULE PackageStore ----------------------------
(***************************************************************************)
(* What the package commands promise, without their steps: a package is    *)
(* replaced at once by the archive the lock names, a success means that    *)
(* everything the manifest needs is installed, up to the repository its    *)
(* own dependencies come from, and only an interrupted replacement can     *)
(* lose a package, the one being replaced.  The commands (module           *)
(* PkgInstall) implement this.                                             *)
(***************************************************************************)
EXTENDS PkgGraph

CONSTANTS
    Sources,   \* every source that exists
    Deps,      \* Deps[s]: the dependencies of s
    Hashes,    \* the bytes an archive may have
    None       \* "not installed"

VARIABLES
    manifest,  \* the direct dependencies
    lock,      \* the archives chosen for a manifest
    store,     \* store[n]: the archive installed as n
    broken,    \* a replacement has been interrupted, or could not be undone
    reported   \* a command has reported that everything is installed

vars == <<manifest, lock, store, broken, reported>>

Names == {NameOf(s) : s \in Sources}
Archives == [src : Sources, sha256 : Hashes]
Locked == {e.src : e \in lock}

TypeOK ==
    /\ manifest \in ManifestsOver(Sources)
    /\ lock \subseteq Archives
    /\ store \in [Names -> Archives \union {None}]
    /\ broken \in BOOLEAN
    /\ reported \in BOOLEAN

\* L has one archive for each source the manifest needs, and no other.
Resolves(L) ==
    /\ {e.src : e \in L} = Closure(Deps, manifest)
    /\ \A e, f \in L : NameOf(e.src) = NameOf(f.src) => e = f

\* M asks for the packages that N asks for at the same revisions, though
\* perhaps from other repositories.
Agrees(M, N) ==
    {<<NameOf(s), RevisionOf(s)>> : s \in M} = {<<NameOf(s), RevisionOf(s)>> : s \in N}

\* All that is needed by the manifest, or by one that agrees with it, is
\* locked, and everything locked is installed.
Complete ==
    /\ \E M \in ManifestsOver(Sources) :
          Agrees(M, manifest) /\ Closure(Deps, M) \subseteq Locked
    /\ \A e \in lock : store[NameOf(e.src)] = e

Init ==
    /\ manifest = {}
    /\ lock = {}
    /\ store = [n \in Names |-> None]
    /\ broken = FALSE
    /\ reported = FALSE

Edit(M) ==
    /\ manifest' = M
    /\ reported' = FALSE
    /\ UNCHANGED <<lock, store, broken>>

Relock(L) ==
    /\ lock' = L
    /\ Resolves(L)
    /\ reported' = FALSE
    /\ UNCHANGED <<manifest, store, broken>>

\* A command begins: what the last one has reported need not last.
Begin ==
    /\ reported' = FALSE
    /\ UNCHANGED <<manifest, lock, store, broken>>

\* The last package of a command may carry its report.
Install(e) ==
    /\ store' = [store EXCEPT ![NameOf(e.src)] = e]
    /\ reported' \in {FALSE, Complete'}
    /\ UNCHANGED <<manifest, lock, broken>>

Report ==
    /\ Complete
    /\ reported' = TRUE
    /\ UNCHANGED <<manifest, lock, store, broken>>

\* Interrupted between packages, or while e was to replace an older archive
Interrupt ==
    /\ broken' = TRUE
    /\ reported' = FALSE
    /\ UNCHANGED <<manifest, lock, store>>

Lose(e) ==
    /\ broken' = TRUE
    /\ store' = [store EXCEPT ![NameOf(e.src)] = None]
    /\ reported' = FALSE
    /\ UNCHANGED <<manifest, lock>>

Next ==
    \/ Begin
    \/ \E M \in ManifestsOver(Sources) : Edit(M)
    \/ \E L \in SUBSET Archives : Relock(L)
    \/ \E e \in lock : Install(e) \/ Lose(e)
    \/ Report
    \/ Interrupt

Spec == Init /\ [][Next]_vars
=============================================================================
