-------------------------- MODULE PkgInstallProofs --------------------------
(***************************************************************************)
(* Proofs about the package commands (module PkgInstall) for any set of    *)
(* sources and dependencies and any bytes the network may serve, with a    *)
(* failure at every call and a kill between any two.                       *)
(*                                                                         *)
(* What a command leaves to do (plan) and where it is in pkg_fs_promote    *)
(* say what the package directory must hold: Planned.  With it no step     *)
(* gives up the last copy of an installed package.                         *)
(***************************************************************************)
EXTENDS PkgInstall, PkgGraphProofs

Promoting == {"promote", "aside", "moved"}
Installing == {"fetch"} \union Promoting

OneArchiveEach(L) == \A e, f \in L : ArchiveName(e) = ArchiveName(f) => e = f

\* The lock is ahead of the plan, and what is in the lock but no longer in
\* the plan is installed.
Planned ==
    /\ OneArchiveEach(lockFile)
    /\ OneArchiveEach(plan)
    /\ pc = "manifest" => item # None
    /\ pc \in Promoting => item \in plan
    /\ pc \in Installing =>
        /\ plan \subseteq lockFile
        /\ \A e \in lockFile \ plan : packages[ArchiveName(e)] = e
    /\ okInstall =>
        /\ pc = "idle"
        /\ \A e \in lockFile : packages[ArchiveName(e)] = e

\* Inside pkg_fs_promote: the old install is aside, or the new one is in.
Swapping ==
    /\ pc = "aside" => packages[Name] = None /\ backup[Name] # None
    /\ pc = "moved" => packages[Name] = item

\* A live process misses an installed package only while it is aside.
KeptUnlessAside ==
    ~killed /\ ~stranded =>
        \A p \in ever : packages[p] # None \/ (pc = "aside" /\ p = Name)

Inv ==
    /\ TypeOK
    /\ Planned
    /\ Swapping
    /\ NoneLost
    /\ KeptUnlessAside

\* An archive is something, and its name is the name of a source.
LEMMA ArchiveFacts ==
    /\ None \notin Archives
    /\ \A e \in Archives : e.src \in Sources /\ ArchiveName(e) \in Names
    /\ \A s \in Sources, h \in Hashes : [src |-> s, sha256 |-> h] \in Archives
  BY InstallAssumption DEF Archives, ArchiveName, Names

\* What resolve_all returns for a manifest is a set of archives with one
\* archive for each name.
LEMMA ResolutionFacts ==
    ASSUME NEW M \in Manifests, NEW L \in Resolutions(M)
    PROVE  L \in SUBSET Archives /\ OneArchiveEach(L)
  <1> DEFINE C == Closure(Deps, M)
  <1>1. C \in SUBSET Sources
    <2>1. Deps \in [Sources -> SUBSET Sources] /\ M \in SUBSET Sources
      BY InstallAssumption DEF Manifests, ManifestsOver
    <2> QED
      BY <2>1, ClosureHolds
  <1> HIDE DEF C
  <1>2. /\ OneRevisionEach(C)
        /\ L \in {{[src |-> s, sha256 |-> h[s]] : s \in C} : h \in [C -> Hashes]}
    BY DEF Resolutions, C
  <1>3. PICK h \in [C -> Hashes] : L = {[src |-> s, sha256 |-> h[s]] : s \in C}
    BY <1>2
  <1>4. L \in SUBSET Archives
    BY <1>1, <1>3, ArchiveFacts
  <1>5. OneArchiveEach(L)
    BY <1>2, <1>3 DEF OneArchiveEach, OneRevisionEach, ArchiveName
  <1> QED
    BY <1>4, <1>5

-----------------------------------------------------------------------------
\* The initial state satisfies the invariant.
LEMMA InitInv == Init => Inv
  <1> SUFFICES ASSUME Init PROVE Inv
    OBVIOUS
  <1>1. {} \in Manifests
    BY DEF Manifests, ManifestsOver
  <1> QED
    BY <1>1 DEF Init, Inv, TypeOK, NoItem, Planned, OneArchiveEach, Promoting,
                Installing, Swapping, NoneLost, KeptUnlessAside

\* Giving up anywhere but in the middle of a swap, or with killed or stranded
\* noted, keeps the invariant: the disk is left as it is.
LEMMA GiveUpInv ==
    ASSUME Inv, pc # "idle", Stop, UNCHANGED <<disk, okInstall, ever>>,
           killed' \in BOOLEAN, stranded' \in BOOLEAN,
           \/ pc # "aside" /\ (killed => killed') /\ (stranded => stranded')
           \/ killed' \/ stranded'
    PROVE  Inv'
  <1>1. TypeOK'
    BY DEF Inv, TypeOK, Stop, disk, NoItem
  <1>2. Planned'
    BY DEF Inv, Planned, OneArchiveEach, Stop, disk, Promoting, Installing
  <1>3. Swapping' /\ NoneLost' /\ KeptUnlessAside'
    BY DEF Inv, Stop, disk, Swapping, NoneLost, KeptUnlessAside
  <1> QED
    BY <1>1, <1>2, <1>3 DEF Inv

\* A command that starts keeps the invariant.
LEMMA CommandInv ==
    ASSUME Inv, \/ \E M \in Manifests : EditManifest(M)
                \/ \E L \in Resolutions(toml) : LockCommand(L)
                \/ InstallCommand
                \/ \E s \in Sources : UrlCommand(s)
    PROVE  Inv'
  <1> USE DEF Inv
  <1>1. ASSUME NEW M \in Manifests, EditManifest(M)
        PROVE  Inv'
    BY <1>1 DEF EditManifest, proc, TypeOK, Planned, OneArchiveEach,
                Promoting, Installing, Swapping, NoneLost, KeptUnlessAside
  <1>2. ASSUME NEW L \in Resolutions(toml), LockCommand(L)
        PROVE  Inv'
    <2>1. L \in SUBSET Archives /\ OneArchiveEach(L)
      BY ResolutionFacts DEF TypeOK
    <2>2. TypeOK'
      BY <1>2, <2>1 DEF LockCommand, disk, TypeOK
    <2>3. Planned'
      BY <1>2, <2>1 DEF LockCommand, disk, Planned, OneArchiveEach, Promoting,
                        Installing
    <2>4. Swapping' /\ NoneLost' /\ KeptUnlessAside'
      BY <1>2 DEF LockCommand, disk, Swapping, NoneLost, KeptUnlessAside
    <2> QED
      BY <2>2, <2>3, <2>4
  <1>3. CASE InstallCommand
    <2>1. TypeOK'
      BY <1>3 DEF InstallCommand, disk, TypeOK
    <2>2. Planned'
      BY <1>3 DEF InstallCommand, disk, Planned, OneArchiveEach, Promoting,
                  Installing
    <2>3. Swapping' /\ NoneLost' /\ KeptUnlessAside'
      BY <1>3 DEF InstallCommand, disk, Swapping, NoneLost, KeptUnlessAside
    <2> QED
      BY <2>1, <2>2, <2>3
  <1>4. ASSUME NEW s \in Sources, UrlCommand(s)
        PROVE  Inv'
    <2>1. item' \in Archives /\ item' # None
      BY <1>4, ArchiveFacts DEF UrlCommand
    <2>2. TypeOK'
      BY <1>4, <2>1 DEF UrlCommand, disk, TypeOK
    <2>3. Planned'
      BY <1>4, <2>1 DEF UrlCommand, disk, Planned, OneArchiveEach, Promoting,
                        Installing
    <2>4. Swapping' /\ NoneLost' /\ KeptUnlessAside'
      BY <1>4 DEF UrlCommand, disk, Swapping, NoneLost, KeptUnlessAside
    <2> QED
      BY <2>2, <2>3, <2>4
  <1> QED
    BY <1>1, <1>2, <1>3, <1>4

\* Writing the manifest, resolving and writing the lock keep the invariant.
LEMMA WriteInv ==
    ASSUME Inv, \/ WriteManifest
                \/ \E L \in Resolutions(toml) : Resolve(L)
                \/ WriteLock
    PROVE  Inv'
  <1> USE DEF Inv
  <1>1. CASE WriteManifest
    <2>1. item.src \in Sources
      BY <1>1, ArchiveFacts DEF WriteManifest, TypeOK, Planned, NoItem
    <2>2. toml' \in Manifests
      BY <1>1, <2>1 DEF WriteManifest, TypeOK, Manifests, ManifestsOver,
                        ArchiveName
    <2>3. TypeOK'
      BY <1>1, <2>2 DEF WriteManifest, hist, TypeOK
    <2>4. Planned'
      BY <1>1 DEF WriteManifest, hist, Planned, OneArchiveEach, Promoting,
                  Installing
    <2>5. Swapping' /\ NoneLost' /\ KeptUnlessAside'
      BY <1>1 DEF WriteManifest, hist, Swapping, NoneLost, KeptUnlessAside
    <2> QED
      BY <2>3, <2>4, <2>5
  <1>2. ASSUME NEW L \in Resolutions(toml), Resolve(L)
        PROVE  Inv'
    <2>1. L \in SUBSET Archives /\ OneArchiveEach(L)
      BY ResolutionFacts DEF TypeOK
    <2>2. TypeOK'
      BY <1>2, <2>1 DEF Resolve, disk, hist, TypeOK
    <2>3. Planned'
      BY <1>2, <2>1 DEF Resolve, disk, hist, Planned, OneArchiveEach,
                        Promoting, Installing
    <2>4. Swapping' /\ NoneLost' /\ KeptUnlessAside'
      BY <1>2 DEF Resolve, disk, hist, Swapping, NoneLost, KeptUnlessAside
    <2> QED
      BY <2>2, <2>3, <2>4
  <1>3. CASE WriteLock
    <2>1. pc' \in {"idle", "fetch"} /\ plan' \in {{}, plan}
      BY <1>3 DEF WriteLock, Stop
    <2>2. TypeOK'
      BY <1>3 DEF WriteLock, Stop, hist, TypeOK
    <2>3. Planned'
      BY <1>3 DEF WriteLock, Stop, hist, Planned, OneArchiveEach, Promoting,
                  Installing
    <2>4. Swapping' /\ NoneLost' /\ KeptUnlessAside'
      BY <1>3, <2>1 DEF WriteLock, hist, Swapping, NoneLost, KeptUnlessAside
    <2> QED
      BY <2>2, <2>3, <2>4
  <1> QED
    BY <1>1, <1>2, <1>3

\* Taking the next archive keeps the invariant.
LEMMA TakeInv ==
    ASSUME Inv, NEW e \in plan,
           (\E h \in Hashes : Fetch(e, h)) \/ TakeStaged(e)
    PROVE  Inv'
  <1> USE DEF Inv
  <1>1. /\ pc = "fetch" /\ pc' = "promote" /\ item' = e
        /\ UNCHANGED <<disk, cmd, plan, hist>>
    BY DEF Fetch, TakeStaged
  <1>2. TypeOK'
    BY <1>1 DEF disk, hist, TypeOK
  <1>3. Planned'
    BY <1>1 DEF disk, hist, Planned, OneArchiveEach, Promoting, Installing
  <1>4. Swapping' /\ NoneLost' /\ KeptUnlessAside'
    BY <1>1 DEF disk, hist, Swapping, NoneLost, KeptUnlessAside
  <1> QED
    BY <1>2, <1>3, <1>4

-----------------------------------------------------------------------------
\* In pkg_fs_promote the item is an archive of the plan, and the only one of
\* its name there and in the lock.
LEMMA PromotingFacts ==
    ASSUME Inv, pc \in Promoting
    PROVE  /\ item \in Archives /\ item \in plan /\ item # None
           /\ Name \in Names
           /\ \A e \in lockFile : ArchiveName(e) = Name => e = item
           /\ ~okInstall
  BY ArchiveFacts DEF Inv, TypeOK, Planned, Promoting, Installing,
                      OneArchiveEach, Name

\* Going on to the next archive keeps the plan: the item is installed.
LEMMA NextItemPlanned ==
    ASSUME Inv, pc \in Promoting, NextItem, UNCHANGED lockFile,
           packages' \in [Names -> Archives \union {None}],
           packages'[Name] = item,
           \A n \in Names : n # Name => packages'[n] = packages[n]
    PROVE  Planned' /\ plan' \subseteq plan /\ pc' \in {"idle", "fetch"}
  <1>1. /\ plan' = {e \in plan : ArchiveName(e) # Name}
        /\ pc' \in {"idle", "fetch"}
        /\ pc' = "idle" => plan' = {}
        /\ okInstall' => pc' = "idle"
    BY PromotingFacts DEF NextItem
  <1>2. OneArchiveEach(lockFile)' /\ OneArchiveEach(plan)'
    BY <1>1 DEF Inv, Planned, OneArchiveEach
  <1>3. plan' \subseteq lockFile'
    BY <1>1 DEF Inv, Planned, Installing
  <1>4. ASSUME NEW e \in lockFile' \ plan'
        PROVE  packages'[ArchiveName(e)] = e
    <2>1. e \in lockFile /\ ArchiveName(e) \in Names
      BY <1>4, ArchiveFacts DEF Inv, TypeOK
    <2>2. CASE ArchiveName(e) = Name
      BY <2>1, <2>2, PromotingFacts
    <2>3. CASE ArchiveName(e) # Name
      <3>1. e \notin plan
        BY <1>1, <1>4, <2>3
      <3> QED
        BY <2>1, <2>3, <3>1 DEF Inv, Planned, Installing
    <2> QED
      BY <2>2, <2>3
  <1> QED
    BY <1>1, <1>2, <1>3, <1>4 DEF Planned, Promoting, Installing

\* Moving the old install aside, and the new one over it, keep the invariant.
LEMMA SwapInv ==
    ASSUME Inv, MoveAside \/ MoveOver
    PROVE  Inv'
  <1>1. /\ item \in Archives /\ item \in plan /\ item # None
        /\ Name \in Names
        /\ \A e \in lockFile : ArchiveName(e) = Name => e = item
        /\ ~okInstall
        /\ pc \in Promoting /\ pc' \in Promoting
    BY PromotingFacts DEF MoveAside, MoveOver, Promoting
  <1> USE DEF Inv
  <1>2. /\ UNCHANGED <<toml, lockFile, cmd, plan, item, hist>>
        /\ Name' = Name
    BY DEF MoveAside, MoveOver, Name
  <1>3. TypeOK'
    BY <1>1, <1>2 DEF MoveAside, MoveOver, hist, TypeOK
  <1>4. Planned'
    <2>1. \A n \in Names \ {Name} : packages'[n] = packages[n]
      BY DEF MoveAside, MoveOver, TypeOK
    <2>2. \A e \in lockFile \ plan : ArchiveName(e) \in Names \ {Name}
      BY <1>1, ArchiveFacts DEF TypeOK
    <2>3. \A e \in lockFile \ plan : packages'[ArchiveName(e)] = e
      BY <1>1, <2>1, <2>2 DEF Planned, Installing
    <2> QED
      BY <1>1, <1>2, <2>3 DEF hist, Planned, OneArchiveEach, Promoting,
                              Installing
  <1>5. Swapping' /\ NoneLost' /\ KeptUnlessAside'
    BY <1>1, <1>2 DEF MoveAside, MoveOver, hist, TypeOK, Swapping, NoneLost,
                      KeptUnlessAside
  <1> QED
    BY <1>3, <1>4, <1>5

\* The end of a promotion that succeeds keeps the invariant.
LEMMA PromotedInv ==
    ASSUME Inv, MoveIn \/ DropBackup
    PROVE  Inv'
  <1>1. /\ item \in Archives /\ item \in plan /\ item # None
        /\ Name \in Names
        /\ pc \in Promoting
    BY PromotingFacts DEF MoveIn, DropBackup, Promoting
  <1> USE DEF Inv
  <1>2. /\ NextItem
        /\ UNCHANGED <<toml, lockFile, killed, stranded>>
        /\ packages' = [packages EXCEPT ![Name] = item]
        /\ backup' \in {backup, [backup EXCEPT ![Name] = None]}
        /\ ever' \in {ever, ever \union {Name}}
    BY <1>1 DEF MoveIn, DropBackup, Swapping, TypeOK
  <1>3. Planned' /\ plan' \subseteq plan /\ pc' \in {"idle", "fetch"}
    BY <1>1, <1>2, NextItemPlanned DEF TypeOK
  <1>4. TypeOK'
    BY <1>1, <1>2, <1>3 DEF NextItem, TypeOK
  <1>5. Swapping'
    BY <1>3 DEF Swapping
  <1>6. \A p \in ever' :
            packages'[p] # None \/ (packages'[p] = packages[p] /\ p \in ever
                                      /\ p # Name /\ backup'[p] = backup[p])
    BY <1>1, <1>2 DEF TypeOK
  <1>7. NoneLost' /\ KeptUnlessAside'
    BY <1>2, <1>6 DEF NoneLost, KeptUnlessAside
  <1> QED
    BY <1>3, <1>4, <1>5, <1>7

\* A promotion that fails keeps the invariant, whether it cannot begin, is
\* rolled back, or leaves the old install stranded in its backup.
LEMMA FailedInv ==
    ASSUME Inv, \/ CannotMoveAside \/ CannotMoveIn
                \/ RollBack \/ RollBackFails
    PROVE  Inv'
  <1>1. /\ item \in Archives /\ item \in plan /\ item # None
        /\ Name \in Names
        /\ ~okInstall
        /\ pc \in Promoting
    BY PromotingFacts
       DEF CannotMoveAside, CannotMoveIn, RollBack, RollBackFails, Promoting
  <1> USE DEF Inv, AfterFailedPromote, Fail
  <1>2. CASE CannotMoveIn \/ RollBackFails
    BY <1>1, <1>2, GiveUpInv
       DEF CannotMoveIn, RollBackFails, disk, TypeOK, Promoting
  <1>3. CASE CannotMoveAside \/ RollBack
    <2>1. /\ Stop /\ UNCHANGED <<toml, lockFile, hist>>
          /\ pc # "idle"
      BY <1>3 DEF CannotMoveAside, RollBack, hist
    <2>2. /\ packages' \in [Names -> Archives \union {None}]
          /\ backup' \in [Names -> Archives \union {None}]
          /\ packages'[Name] # None
          /\ \A n \in Names \ {Name} :
                 packages'[n] = packages[n] /\ backup'[n] = backup[n]
      BY <1>1, <1>3 DEF CannotMoveAside, RollBack, TypeOK, Swapping
    <2>3. TypeOK'
      BY <2>1, <2>2 DEF Stop, hist, TypeOK, NoItem
    <2>4. Planned'
      BY <1>1, <2>1 DEF Stop, hist, Planned, OneArchiveEach, Promoting,
                        Installing
    <2>5. Swapping' /\ NoneLost' /\ KeptUnlessAside'
      BY <2>1, <2>2 DEF Stop, hist, TypeOK, Swapping, NoneLost,
                        KeptUnlessAside
    <2> QED
      BY <2>3, <2>4, <2>5
  <1> QED
    BY <1>2, <1>3

-----------------------------------------------------------------------------
\* Every step keeps the invariant.
LEMMA NextInv == Inv /\ [Next]_vars => Inv'
  <1> SUFFICES ASSUME Inv, [Next]_vars PROVE Inv'
    OBVIOUS
  <1>1. CASE \/ \E M \in Manifests : EditManifest(M)
             \/ \E L \in Resolutions(toml) : LockCommand(L)
             \/ InstallCommand
             \/ \E s \in Sources : UrlCommand(s)
    BY <1>1, CommandInv
  <1>2. CASE \/ WriteManifest
             \/ \E L \in Resolutions(toml) : Resolve(L)
             \/ WriteLock
    BY <1>2, WriteInv
  <1>3. CASE ManifestNotWritten \/ ResolveFails \/ LockNotWritten \/ FetchFails
    BY <1>3, GiveUpInv DEF ManifestNotWritten, ResolveFails, LockNotWritten,
                           FetchFails, Fail, Inv, TypeOK
  <1>4. CASE \/ \E e \in plan, h \in Hashes : Fetch(e, h)
             \/ \E e \in plan : TakeStaged(e)
    BY <1>4, TakeInv
  <1>5. CASE Promote
    BY <1>5, SwapInv, PromotedInv, FailedInv DEF Promote
  <1>6. CASE Kill
    BY <1>6, GiveUpInv DEF Kill, disk, Inv, TypeOK
  <1>7. CASE UNCHANGED vars
    BY <1>7 DEF vars, disk, proc, hist, Inv, TypeOK, Planned, OneArchiveEach,
                Swapping, Name, NoneLost, KeptUnlessAside
  <1> QED
    BY <1>1, <1>2, <1>3, <1>4, <1>5, <1>6, <1>7 DEF Next

\* The inductive invariant holds in every reachable state.
THEOREM Invariance == Spec => []Inv
  <1>1. Init => Inv
    BY InitInv
  <1>2. Inv /\ [Next]_vars => Inv'
    BY NextInv
  <1> QED
    BY <1>1, <1>2, PTL DEF Spec

\* After an install that reports success every package named by myon.lock is
\* installed from the archive whose hash the lock records, whatever failed or
\* was killed before it (install_locked, pkg_ops_install_url).
THEOREM Installed_Matches_Lock == Spec => []InstalledMatchesLock
  <1>1. Inv => InstalledMatchesLock
    BY DEF Inv, Planned, InstalledMatchesLock
  <1> QED
    BY <1>1, Invariance, PTL

\* No failure and no kill loses an installed package: it is in its place or
\* in its backup (pkg_fs_promote).
THEOREM None_Lost == Spec => []NoneLost
  <1>1. Inv => NoneLost
    BY DEF Inv
  <1> QED
    BY <1>1, Invariance, PTL

\* A command that fails leaves every installed package in its place, unless
\* it was killed or the backup could not be put back (pkg_fs_promote).
THEOREM Failure_Keeps_Installs == Spec => []FailureKeepsInstalls
  <1>1. Inv => FailureKeepsInstalls
    BY DEF Inv, KeptUnlessAside, FailureKeepsInstalls
  <1> QED
    BY <1>1, Invariance, PTL

-----------------------------------------------------------------------------
\* The refinement of module PackageStore

SourcesOf(L) == {e.src : e \in L}

\* The lock holds what its members depend on; a lock about to be written is
\* the graph of the manifest; and from the check of the lock to the report of
\* the install it names the direct dependencies, from wherever it has them.
Covered ==
    /\ Closed(Deps, SourcesOf(lockFile))
    /\ pc = "write_lock" => SourcesOf(plan) = Closure(Deps, toml)
    /\ pc \in Installing \/ okInstall => Matches(lockFile, toml)

\* The dependencies and a manifest are what the lemmas about closures assume.
LEMMA GraphFacts ==
    ASSUME TypeOK
    PROVE  /\ Deps \in [Sources -> SUBSET Sources]
           /\ toml \in SUBSET Sources
           /\ SourcesOf(lockFile) \in SUBSET Sources
  <1>1. \A M \in Manifests : M \in SUBSET Sources
    BY DEF Manifests, ManifestsOver
  <1>2. Deps \in [Sources -> SUBSET Sources]
    BY <1>1, InstallAssumption DEF Manifests
  <1> QED
    BY <1>1, <1>2, ArchiveFacts DEF TypeOK, SourcesOf

\* A lock that names the direct dependencies at their commits names all that
\* is needed by a manifest that takes these from where the lock has them.
LEMMA CoveredMeansNeeded ==
    ASSUME Inv, Covered, Matches(lockFile, toml)
    PROVE  \E M \in ManifestsOver(Sources) :
              /\ Store!Agrees(M, toml)
              /\ Closure(Deps, M) \subseteq SourcesOf(lockFile)
  <1> DEFINE Same(s, u) == NameOf(s) = NameOf(u) /\ RevisionOf(s) = RevisionOf(u)
             M == {u \in SourcesOf(lockFile) : \E s \in toml : Same(s, u)}
  <1>1. SourcesOf(lockFile) \in SUBSET Sources /\ M \subseteq SourcesOf(lockFile)
    BY GraphFacts DEF Inv
  <1>2. \A s, u \in SourcesOf(lockFile) : NameOf(s) = NameOf(u) => s = u
    BY DEF Inv, Planned, OneArchiveEach, ArchiveName, SourcesOf
  <1>3. M \in ManifestsOver(Sources)
    BY <1>1, <1>2 DEF ManifestsOver
  <1>4. \A u \in M : \E s \in toml : Same(s, u)
    OBVIOUS
  <1>5. ASSUME NEW s \in toml
        PROVE  \E u \in M : Same(s, u)
    <2>1. PICK e \in lockFile :
              NameOf(e.src) = NameOf(s) /\ RevisionOf(e.src) = RevisionOf(s)
      BY DEF Matches
    <2>2. e.src \in SourcesOf(lockFile)
      BY DEF SourcesOf
    <2> QED
      BY <2>1, <2>2
  <1> HIDE DEF M
  <1>6. {<<NameOf(u), RevisionOf(u)>> : u \in M}
          = {<<NameOf(s), RevisionOf(s)>> : s \in toml}
    <2>1. \A u \in M : \E s \in toml :
              <<NameOf(u), RevisionOf(u)>> = <<NameOf(s), RevisionOf(s)>>
      BY <1>4
    <2>2. \A s \in toml : \E u \in M :
              <<NameOf(u), RevisionOf(u)>> = <<NameOf(s), RevisionOf(s)>>
      BY <1>5
    <2> QED
      BY <2>1, <2>2
  <1>7. Store!Agrees(M, toml)
    BY <1>6 DEF Store!Agrees, Store!NameOf, Store!RevisionOf, NameOf, RevisionOf
  <1>8. Closure(Deps, M) \subseteq SourcesOf(lockFile)
    <2>1. Closed(Deps, SourcesOf(lockFile))
      BY DEF Covered
    <2> QED
      BY <1>1, <2>1, GraphFacts, ClosureLeast DEF Inv
  <1> QED
    BY <1>3, <1>7, <1>8

\* What is resolved names the whole graph.
LEMMA ResolutionCovers ==
    ASSUME NEW M \in Manifests, NEW L \in Resolutions(M)
    PROVE  SourcesOf(L) = Closure(Deps, M)
  <1> DEFINE C == Closure(Deps, M)
  <1>1. L \in {{[src |-> s, sha256 |-> h[s]] : s \in C} : h \in [C -> Hashes]}
    BY DEF Resolutions
  <1> HIDE DEF C
  <1>2. PICK h \in [C -> Hashes] : L = {[src |-> s, sha256 |-> h[s]] : s \in C}
    BY <1>1
  <1>3. \A e \in L : e.src \in C
    BY <1>2
  <1>4. ASSUME NEW s \in C
        PROVE  \E e \in L : e.src = s
    <2>1. [src |-> s, sha256 |-> h[s]] \in L
      BY <1>2
    <2> QED
      BY <2>1
  <1>5. SourcesOf(L) = C
    BY <1>3, <1>4 DEF SourcesOf
  <1> QED
    BY <1>5 DEF C

LEMMA InitCovered == Init => Covered
  BY DEF Init, Covered, SourcesOf, Closed, Installing, Promoting

\* Every step keeps the lock covering what it has to.
LEMMA NextCovered ==
    ASSUME Inv, Covered, [Next]_vars
    PROVE  Covered'
  <1> USE DEF Inv
  <1>1. CASE UNCHANGED <<toml, lockFile>> /\ pc' = "idle" /\ okInstall' = okInstall
    BY <1>1 DEF Covered, Installing, Promoting, SourcesOf, Matches
  <1>2. CASE UNCHANGED <<toml, lockFile>> /\ pc \in Installing /\ pc' # "write_lock"
    BY <1>2 DEF Covered, SourcesOf, Matches
  <1>3. ASSUME NEW M \in Manifests, EditManifest(M)
        PROVE  Covered'
    BY <1>3 DEF EditManifest, proc, Covered, Installing, Promoting, SourcesOf
  <1>4. ASSUME NEW L \in Resolutions(toml), LockCommand(L) \/ Resolve(L)
        PROVE  Covered'
    <2>1. /\ UNCHANGED disk /\ pc' = "write_lock" /\ plan' = L /\ ~okInstall'
      BY <1>4 DEF LockCommand, Resolve, hist, Planned
    <2>2. SourcesOf(L) = Closure(Deps, toml)
      BY ResolutionCovers DEF TypeOK
    <2> QED
      BY <2>1, <2>2 DEF disk, Covered, Installing, Promoting, SourcesOf
  <1>5. CASE InstallCommand
    <2>1. Matches(lockFile, toml)
      BY <1>5 DEF InstallCommand
    <2> QED
      BY <1>5, <2>1 DEF InstallCommand, disk, Covered, SourcesOf, Matches
  <1>6. ASSUME NEW s \in Sources, UrlCommand(s)
        PROVE  Covered'
    BY <1>6 DEF UrlCommand, disk, Covered, Installing, Promoting, SourcesOf
  <1>7. CASE WriteManifest
    BY <1>7 DEF WriteManifest, hist, Planned, Covered, Installing, Promoting,
                SourcesOf
  <1>8. CASE WriteLock
    <2>1. /\ lockFile' = plan /\ toml' = toml /\ pc' # "write_lock"
          /\ SourcesOf(plan) = Closure(Deps, toml)
      BY <1>8 DEF WriteLock, Stop, Covered
    <2>2. /\ Closed(Deps, Closure(Deps, toml))
          /\ toml \subseteq Closure(Deps, toml)
      BY GraphFacts, ClosureHolds
    <2>3. SourcesOf(lockFile)' = Closure(Deps, toml)
      BY <2>1 DEF SourcesOf
    <2>4. \A s \in toml' : \E e \in lockFile' : e.src = s
      BY <2>1, <2>2 DEF SourcesOf
    <2>5. Matches(lockFile, toml)'
      BY <2>4 DEF Matches
    <2> QED
      BY <2>1, <2>2, <2>3, <2>5 DEF Covered
  <1>9. ASSUME NEW e \in plan, (\E h \in Hashes : Fetch(e, h)) \/ TakeStaged(e)
        PROVE  Covered'
    BY <1>2, <1>9 DEF Fetch, TakeStaged, disk, Installing, Promoting
  <1>10. CASE ManifestNotWritten \/ ResolveFails \/ LockNotWritten \/ FetchFails
    BY <1>1, <1>10 DEF ManifestNotWritten, ResolveFails, LockNotWritten,
                       FetchFails, Fail, Stop, disk
  <1>11. CASE MoveIn \/ MoveOver \/ MoveAside \/ DropBackup
    <2>1. /\ UNCHANGED <<toml, lockFile>> /\ pc \in Installing
          /\ pc' \in {"idle", "fetch", "aside", "moved"}
      BY <1>11 DEF MoveIn, MoveOver, MoveAside, DropBackup, NextItem,
                   Installing, Promoting
    <2> QED
      BY <1>2, <2>1
  <1>12. CASE CannotMoveAside \/ CannotMoveIn \/ RollBack \/ RollBackFails
    BY <1>1, <1>12 DEF CannotMoveAside, CannotMoveIn, RollBack, RollBackFails,
                       AfterFailedPromote, Fail, Stop, disk
  <1>13. CASE Kill
    BY <1>1, <1>13 DEF Kill, Stop, disk
  <1>14. CASE UNCHANGED vars
    BY <1>14 DEF vars, disk, proc, hist, Covered, SourcesOf, Matches
  <1> QED
    BY <1>3, <1>4, <1>5, <1>6, <1>7, <1>8, <1>9, <1>10, <1>11, <1>12, <1>13,
       <1>14 DEF Next, Promote

-----------------------------------------------------------------------------
\* Outside a swap the packages are what they seem; in it the old one counts.
LEMMA InstalledFacts ==
    ASSUME TypeOK
    PROVE  /\ installed \in [Names -> Archives \union {None}]
           /\ pc # "aside" => installed = packages
           /\ \A n \in Names : ~(pc = "aside" /\ n = Name)
                                  => installed[n] = packages[n]
           /\ pc = "aside" /\ Name \in Names => installed[Name] = backup[Name]
  BY DEF TypeOK, installed

\* Both modules mean the same graphs.
LEMMA SameGraphs ==
    /\ \A s : Store!NameOf(s) = NameOf(s)
    /\ \A M : Store!Closure(Deps, M) = Closure(Deps, M)
    /\ Store!ManifestsOver(Sources) = ManifestsOver(Sources)
  BY DEF NameOf, Closure, ManifestsOver,
         Store!NameOf, Store!Closure, Store!ManifestsOver

\* A step that does not touch what is installed, the files or the history
LEMMA StoreStutters ==
    ASSUME TypeOK, TypeOK', UNCHANGED <<toml, lockFile, okInstall, killed, stranded>>,
           pc # "aside", pc' # "aside", packages' = packages
    PROVE  UNCHANGED Store!vars
  <1>1. installed' = installed /\ interrupted' = interrupted
    BY DEF TypeOK, installed, interrupted
  <1> QED
    BY <1>1 DEF Store!vars

\* Editing, locking and beginning to install are steps of the store.
LEMMA CommandRefines ==
    ASSUME Inv, Inv', Covered,
           \/ \E M \in Manifests : EditManifest(M)
           \/ \E L \in Resolutions(toml) : LockCommand(L) \/ Resolve(L)
           \/ InstallCommand
           \/ \E s \in Sources : UrlCommand(s)
           \/ WriteManifest
           \/ WriteLock
    PROVE  [Store!Next]_(Store!vars)
  <1> USE DEF Inv
  <1>1. /\ pc # "aside" /\ pc' # "aside"
        /\ UNCHANGED <<packages, killed, stranded>>
    BY DEF EditManifest, LockCommand, Resolve, InstallCommand, UrlCommand,
           WriteManifest, WriteLock, Stop, disk, proc, hist
  <1>2. UNCHANGED <<installed, interrupted>>
    BY <1>1 DEF TypeOK, installed, interrupted
  <1>3. CASE (\E M \in Manifests : EditManifest(M)) \/ WriteManifest
    <2>1. UNCHANGED lockFile /\ okInstall' = FALSE
      BY <1>3 DEF EditManifest, WriteManifest, hist, Planned, TypeOK
    <2>2. PICK M \in Store!ManifestsOver(Sources) : toml' = M
      BY SameGraphs DEF TypeOK, Manifests
    <2>3. Store!Edit(M)
      BY <1>2, <2>1, <2>2 DEF Store!Edit
    <2> QED
      BY <2>2, <2>3 DEF Store!Next
  <1>4. CASE \/ \E L \in Resolutions(toml) : LockCommand(L)
             \/ InstallCommand
             \/ \E s \in Sources : UrlCommand(s)
    <2>1. UNCHANGED disk /\ okInstall' = FALSE
      BY <1>4 DEF LockCommand, InstallCommand, UrlCommand
    <2> QED
      BY <1>2, <2>1 DEF disk, Store!Next, Store!Begin
  <1>5. CASE \E L \in Resolutions(toml) : Resolve(L)
    BY <1>2, <1>5 DEF Resolve, disk, hist, Store!vars
  <1>6. CASE WriteLock
    <2>1. /\ lockFile' = plan /\ UNCHANGED toml /\ okInstall' = FALSE
      BY <1>6 DEF WriteLock, hist, Planned, TypeOK
    <2>2. PICK L \in SUBSET Store!Archives : L = plan
      BY DEF TypeOK, Archives, Store!Archives
    <2>3. /\ {e.src : e \in L} = Closure(Deps, toml)
          /\ \A e, f \in L : NameOf(e.src) = NameOf(f.src) => e = f
      BY <1>6, <2>2 DEF WriteLock, Covered, SourcesOf, Planned, OneArchiveEach,
                        ArchiveName
    <2>4. Store!Resolves(L)
      BY <2>3, SameGraphs DEF Store!Resolves
    <2>5. Store!Relock(L)
      BY <1>2, <2>1, <2>2, <2>4 DEF Store!Relock
    <2> QED
      BY <2>2, <2>5 DEF Store!Next
  <1> QED
    BY <1>3, <1>4, <1>5, <1>6

\* What an install reports is what the store calls complete.
LEMMA ReportIsComplete == Inv /\ Covered /\ okInstall => Store!Complete
  <1> SUFFICES ASSUME Inv, Covered, okInstall PROVE Store!Complete
    OBVIOUS
  <1>1. pc = "idle" /\ Matches(lockFile, toml)
    BY DEF Inv, Planned, Covered
  <1>2. \E M \in ManifestsOver(Sources) :
            Store!Agrees(M, toml) /\ Closure(Deps, M) \subseteq SourcesOf(lockFile)
    BY <1>1, CoveredMeansNeeded
  <1>3. \A e \in lockFile : installed[NameOf(e.src)] = e
    BY <1>1, InstalledFacts DEF Inv, Planned, ArchiveName
  <1> QED
    BY <1>2, <1>3, SameGraphs DEF Store!Complete, Store!Locked, SourcesOf

LEMMA ReportIsCompleteNext == (Inv /\ Covered /\ okInstall => Store!Complete)'
  BY ReportIsComplete, PTL

\* The steps of pkg_fs_promote, and the end of its callers' loops
LEMMA PromoteRefines ==
    ASSUME Inv, Inv', Covered, Covered', Promote
    PROVE  [Store!Next]_(Store!vars)
  <1> USE DEF Inv
  <1>1. /\ item \in Archives /\ item \in plan /\ item \in lockFile
        /\ Name \in Names /\ Name = NameOf(item.src)
        /\ okInstall' \in BOOLEAN /\ okInstall = FALSE
        /\ UNCHANGED <<toml, lockFile>>
    BY PromotingFacts
       DEF Promote, MoveAside, CannotMoveAside, MoveIn, MoveOver, CannotMoveIn,
           RollBack, RollBackFails, DropBackup, Promoting, Installing, Planned,
           Name, ArchiveName, TypeOK, disk
  <1>2. /\ UNCHANGED <<killed, stranded>> => UNCHANGED interrupted
        /\ stranded' => interrupted' = TRUE
    BY DEF TypeOK, interrupted
  <1>3. CASE MoveAside
    <2>1. installed' = installed
      <3>1. /\ pc = "promote" /\ pc' = "aside" /\ Name' = Name
            /\ backup' = [backup EXCEPT ![Name] = packages[Name]]
            /\ packages' = [packages EXCEPT ![Name] = None]
        BY <1>3 DEF MoveAside, Name
      <3> QED
        BY <1>1, <3>1 DEF TypeOK, installed
    <2> QED
      BY <1>2, <1>3, <2>1 DEF MoveAside, hist, Store!vars
  <1>4. CASE CannotMoveAside \/ CannotMoveIn
    <2>1. /\ pc = "promote" /\ pc' = "idle"
          /\ UNCHANGED <<packages, okInstall, killed, stranded>>
      BY <1>4 DEF CannotMoveAside, CannotMoveIn, AfterFailedPromote, Fail,
                  Stop, disk
    <2>2. installed' = installed
      BY <2>1 DEF TypeOK, installed
    <2> QED
      BY <1>1, <1>2, <2>1, <2>2 DEF Store!vars
  <1>5. CASE RollBack
    <2>1. /\ pc = "aside" /\ pc' = "idle"
          /\ packages' = [packages EXCEPT ![Name] = backup[Name]]
          /\ UNCHANGED <<okInstall, killed, stranded>>
      BY <1>5 DEF RollBack, AfterFailedPromote, Fail, Stop
    <2>2. installed' = installed
      BY <1>1, <2>1 DEF TypeOK, installed
    <2> QED
      BY <1>1, <1>2, <2>1, <2>2 DEF Store!vars
  <1>6. CASE RollBackFails
    <2>1. /\ pc = "aside" /\ pc' = "idle" /\ stranded'
          /\ UNCHANGED <<packages, okInstall>>
      BY <1>6 DEF RollBackFails, AfterFailedPromote, Fail, Stop, disk
    <2>2. installed' = [installed EXCEPT ![Name] = None]
      BY <1>1, <2>1 DEF TypeOK, Swapping, installed
    <2>3. PICK e \in lockFile : e = item
      BY <1>1
    <2>4. Store!Lose(e)
      BY <1>1, <1>2, <2>1, <2>2, <2>3, SameGraphs DEF Store!Lose
    <2> QED
      BY <2>4 DEF Store!Next
  <1>7. CASE MoveIn \/ MoveOver
    <2>1. /\ pc' # "aside" /\ UNCHANGED <<killed, stranded>>
          /\ packages' = [packages EXCEPT ![Name] = item]
      BY <1>7 DEF MoveIn, MoveOver, NextItem, hist
    <2>2. installed' = [installed EXCEPT ![Name] = item]
      BY <1>1, <2>1 DEF TypeOK, installed
    <2>3. okInstall' \in {FALSE, Store!Complete'}
      BY <1>1, ReportIsCompleteNext
    <2>4. PICK e \in lockFile : e = item
      BY <1>1
    <2>5. Store!Install(e)
      BY <1>1, <1>2, <2>1, <2>2, <2>3, <2>4, SameGraphs DEF Store!Install
    <2> QED
      BY <2>5 DEF Store!Next
  <1>8. CASE DropBackup
    <2>1. /\ pc = "moved" /\ pc' # "aside"
          /\ UNCHANGED <<packages, killed, stranded>>
      BY <1>8 DEF DropBackup, NextItem
    <2>2. installed' = installed
      BY <2>1 DEF TypeOK, installed
    <2>3. CASE okInstall'
      <3>1. Store!Complete
        BY <1>1, <2>2, <2>3, ReportIsCompleteNext
           DEF Store!Complete, Store!Locked, Store!Agrees
      <3> QED
        BY <1>1, <1>2, <2>1, <2>2, <2>3, <3>1 DEF Store!Next, Store!Report
    <2>4. CASE ~okInstall'
      BY <1>1, <1>2, <2>1, <2>2, <2>4 DEF Store!vars
    <2> QED
      BY <2>3, <2>4
  <1> QED
    BY <1>3, <1>4, <1>5, <1>6, <1>7, <1>8 DEF Promote

\* A killed command loses at most the package it was replacing.
LEMMA KillRefines ==
    ASSUME Inv, Inv', Kill
    PROVE  [Store!Next]_(Store!vars)
  <1> USE DEF Inv
  <1>1. /\ pc # "idle" /\ pc' = "idle"
        /\ okInstall = FALSE
        /\ UNCHANGED <<toml, lockFile, packages, backup, okInstall>>
    BY DEF Kill, Stop, disk, Planned, TypeOK
  <1>2. interrupted' = TRUE
    BY DEF Kill, TypeOK, interrupted
  <1>3. CASE pc = "aside"
    <2>1. /\ item \in lockFile /\ Name \in Names /\ Name = NameOf(item.src)
      BY <1>3, PromotingFacts DEF Promoting, Installing, Planned, Name,
                                  ArchiveName
    <2>2. installed' = [installed EXCEPT ![Name] = None]
      BY <1>1, <1>3, <2>1 DEF TypeOK, Swapping, installed
    <2>3. PICK e \in lockFile : e = item
      BY <2>1
    <2>4. Store!Lose(e)
      BY <1>1, <1>2, <2>1, <2>2, <2>3, SameGraphs DEF Store!Lose
    <2> QED
      BY <2>4 DEF Store!Next
  <1>4. CASE pc # "aside"
    <2>1. installed' = installed
      BY <1>1, <1>4 DEF TypeOK, installed
    <2> QED
      BY <1>1, <1>2, <2>1 DEF Store!Next, Store!Interrupt
  <1> QED
    BY <1>3, <1>4

\* Every step of the commands is a step of the store or none.
LEMMA NextRefines ==
    ASSUME Inv, Inv', Covered, Covered', [Next]_vars
    PROVE  [Store!Next]_(Store!vars)
  <1>1. CASE \/ ManifestNotWritten \/ ResolveFails \/ LockNotWritten \/ FetchFails
             \/ \E e \in plan, h \in Hashes : Fetch(e, h)
             \/ \E e \in plan : TakeStaged(e)
    <2>1. /\ UNCHANGED disk /\ UNCHANGED <<okInstall, killed, stranded>>
          /\ pc # "aside" /\ pc' # "aside"
      BY <1>1 DEF ManifestNotWritten, ResolveFails, LockNotWritten, FetchFails,
                  Fail, Stop, Fetch, TakeStaged, hist
    <2> QED
      BY <2>1, StoreStutters DEF Inv, disk
  <1>2. CASE UNCHANGED vars
    <2>1. UNCHANGED <<installed, interrupted>>
      BY <1>2 DEF vars, disk, proc, hist, installed, interrupted, Name
    <2> QED
      BY <1>2, <2>1 DEF vars, disk, hist, Store!vars
  <1> QED
    BY <1>1, <1>2, CommandRefines, PromoteRefines, KillRefines DEF Next

\* The package commands implement the store of module PackageStore: whatever
\* fails or is killed, a package is replaced at once by what the lock names, a
\* success means that all the manifest needs is installed, and only the
\* package whose replacement was interrupted can be lost.
THEOREM Implements_Store == Spec => ImplementsStore
  <1>1. Init => Store!Init
    <2> SUFFICES ASSUME Init PROVE Store!Init
      OBVIOUS
    <2>1. installed = [n \in Store!Names |-> None]
      BY SameGraphs DEF Init, installed, Names, Store!Names
    <2>2. interrupted = FALSE
      BY DEF Init, interrupted
    <2> QED
      BY <2>1, <2>2 DEF Init, Store!Init
  <1>2. Spec => []Covered
    BY InitCovered, NextCovered, Invariance, PTL DEF Spec
  <1> QED
    BY <1>1, <1>2, NextRefines, Invariance, PTL
       DEF Spec, ImplementsStore, Store!Spec

-----------------------------------------------------------------------------
(***************************************************************************)
(* Commands end: the parts of a command come one after another, its loop   *)
(* takes each package once, and a promote goes through its renames once.   *)
(***************************************************************************)

Stage ==
    CASE pc = "manifest" -> 3 [] pc = "resolve" -> 2 [] pc = "write_lock" -> 1
      [] OTHER -> 0

Point ==
    CASE pc = "fetch" -> 3 [] pc = "promote" -> 2 [] pc = "aside" -> 1
      [] OTHER -> 0

PlannedNames == {ArchiveName(e) : e \in plan}

\* What is left to do: parts of the command, packages, renames of this one
remaining == <<Stage, <<Cardinality(PlannedNames), Point>>>>

\* A step of a command; what the user does between commands is not one.
GoesDown == pc # "idle" => pc' = "idle" \/ <<remaining', remaining>> \in Before

LEMMA RemainingFacts ==
    TypeOK => /\ Stage \in 0..3 /\ Point \in 0..3
              /\ IsFiniteSet(PlannedNames)
              /\ Cardinality(PlannedNames) \in Nat
  <1> SUFFICES ASSUME TypeOK
               PROVE  /\ Stage \in 0..3 /\ Point \in 0..3
                      /\ IsFiniteSet(PlannedNames)
                      /\ Cardinality(PlannedNames) \in Nat
    OBVIOUS
  <1>1. Stage \in 0..3 /\ Point \in 0..3
    BY DEF Stage, Point
  <1>2. IsFiniteSet(Names)
    BY InstallAssumption, FinitelyManyNames DEF Names
  <1>3. PlannedNames \subseteq Names
    BY ArchiveFacts DEF TypeOK, PlannedNames
  <1> QED
    BY <1>1, <1>2, <1>3, FS_Subset, FS_CardinalityType

LEMMA RemainingFactsNext ==
    (TypeOK => /\ Stage \in 0..3 /\ Point \in 0..3
               /\ IsFiniteSet(PlannedNames)
               /\ Cardinality(PlannedNames) \in Nat)'
  BY RemainingFacts, PTL

\* Less is left if one number is smaller and those before it are the same.
LEMMA LessIsLeft ==
    ASSUME TypeOK, TypeOK',
           \/ Stage' < Stage
           \/ /\ Stage' = Stage
              /\ Cardinality(PlannedNames') < Cardinality(PlannedNames)
           \/ /\ Stage' = Stage /\ PlannedNames' = PlannedNames
              /\ Point' < Point
    PROVE  <<remaining', remaining>> \in Before
  <1> DEFINE n == Cardinality(PlannedNames)
  <1>1. Stage \in Nat /\ Point \in Nat /\ n \in Nat
    BY RemainingFacts
  <1>2. Stage' \in Nat /\ Point' \in Nat /\ n' \in Nat
    BY RemainingFactsNext
  <1>3. \/ Stage' < Stage
        \/ Stage' = Stage /\ (n' < n \/ (n' = n /\ Point' < Point))
    OBVIOUS
  <1> HIDE DEF n
  <1>4. <<<<Stage', <<n', Point'>>>>, <<Stage, <<n, Point>>>>>> \in Before
    BY <1>1, <1>2, <1>3, BeforeFacts
  <1> QED
    BY <1>4 DEF remaining, n

\* The loop leaves the package behind that it has promoted.
LEMMA NextItemGoesDown ==
    ASSUME Inv, Inv', pc \in Promoting, NextItem
    PROVE  pc' = "idle" \/ <<remaining', remaining>> \in Before
  <1>1. CASE pc' = "idle"
    BY <1>1
  <1>2. CASE pc' # "idle"
    <2>1. pc' = "fetch" /\ plan' = {e \in plan : ArchiveName(e) # Name}
      BY <1>2 DEF NextItem
    <2>2. Stage' = 0 /\ Stage = 0
      BY <2>1 DEF Stage, Promoting
    <2>3. PlannedNames' = PlannedNames \ {Name} /\ Name \in PlannedNames
      BY <2>1, PromotingFacts DEF PlannedNames, Name
    <2>4. IsFiniteSet(PlannedNames) /\ Cardinality(PlannedNames) \in Nat
      BY RemainingFacts DEF Inv
    <2>5. Cardinality(PlannedNames') = Cardinality(PlannedNames) - 1
      BY <2>3, <2>4, FS_RemoveElement
    <2> QED
      BY <2>2, <2>4, <2>5, LessIsLeft DEF Inv
  <1> QED
    BY <1>1, <1>2

LEMMA NextGoesDown == Inv /\ Next => GoesDown
  <1> SUFFICES ASSUME Inv, Next, pc # "idle"
               PROVE  pc' = "idle" \/ <<remaining', remaining>> \in Before
    BY DEF GoesDown
  <1>1. Inv'
    BY NextInv
  <1>2. TypeOK /\ TypeOK'
    BY <1>1 DEF Inv
  <1>3. ASSUME NEW M \in Manifests, EditManifest(M) PROVE FALSE
    BY <1>3 DEF EditManifest
  <1>4. ASSUME NEW L \in Resolutions(toml), LockCommand(L) \/ Resolve(L)
        PROVE  <<remaining', remaining>> \in Before
    <2>1. pc = "resolve" /\ pc' = "write_lock"
      BY <1>4 DEF LockCommand, Resolve
    <2>2. Stage' < Stage
      BY <2>1 DEF Stage
    <2> QED
      BY <1>2, <2>2, LessIsLeft
  <1>5. CASE InstallCommand \/ \E s \in Sources : UrlCommand(s)
    BY <1>5 DEF InstallCommand, UrlCommand
  <1>6. CASE WriteManifest \/ WriteLock
    <2>1. \/ pc = "manifest" /\ pc' = "resolve"
          \/ pc = "write_lock" /\ pc' \in {"idle", "fetch"}
      BY <1>6 DEF WriteManifest, WriteLock, Stop
    <2>2. Stage' < Stage
      BY <2>1 DEF Stage
    <2> QED
      BY <1>2, <2>2, LessIsLeft
  <1>7. CASE \/ ManifestNotWritten \/ ResolveFails \/ LockNotWritten
             \/ FetchFails \/ CannotMoveAside \/ CannotMoveIn
             \/ RollBack \/ RollBackFails \/ Kill
    BY <1>7 DEF ManifestNotWritten, ResolveFails, LockNotWritten, FetchFails,
                CannotMoveAside, CannotMoveIn, RollBack, RollBackFails, Kill,
                AfterFailedPromote, Fail, Stop
  <1>8. ASSUME NEW e \in plan,
               (\E h \in Hashes : Fetch(e, h)) \/ TakeStaged(e)
        PROVE  <<remaining', remaining>> \in Before
    <2>1. pc = "fetch" /\ pc' = "promote" /\ plan' = plan
      BY <1>8 DEF Fetch, TakeStaged
    <2>2. Stage' = Stage /\ PlannedNames' = PlannedNames /\ Point' < Point
      BY <2>1 DEF Stage, Point, PlannedNames
    <2> QED
      BY <1>2, <2>2, LessIsLeft
  <1>9. CASE MoveAside \/ MoveOver
    <2>1. /\ <<pc, pc'>> \in {<<"promote", "aside">>, <<"aside", "moved">>}
          /\ plan' = plan
      BY <1>9 DEF MoveAside, MoveOver
    <2>2. Stage' = Stage /\ PlannedNames' = PlannedNames /\ Point' < Point
      BY <2>1 DEF Stage, Point, PlannedNames
    <2> QED
      BY <1>2, <2>2, LessIsLeft
  <1>10. CASE MoveIn \/ DropBackup
    <2>1. pc \in Promoting /\ NextItem
      BY <1>10 DEF MoveIn, DropBackup, Promoting
    <2> QED
      BY <1>1, <2>1, NextItemGoesDown
  <1> QED
    BY <1>3, <1>4, <1>5, <1>6, <1>7, <1>8, <1>9, <1>10 DEF Next, Promote

\* A command takes only finitely many steps, whatever the network answers and
\* whatever fails: each ends it or goes down in a well-founded order.  So the
\* loop of pkg_ops_install_locked passes no entry of the lock twice, and there
\* is no way back from a later part of pkg_ops_install_url to an earlier one.
THEOREM Commands_End ==
    /\ IsWellFoundedOn(Before, Nat \X (Nat \X Nat))
    /\ Spec => [](remaining \in Nat \X (Nat \X Nat))
    /\ Spec => [][GoesDown]_vars
  <1>1. Inv => remaining \in Nat \X (Nat \X Nat)
    BY RemainingFacts DEF Inv, remaining
  <1>2. Inv /\ [Next]_vars => [GoesDown]_vars
    BY NextGoesDown
  <1>3. Spec => [](remaining \in Nat \X (Nat \X Nat))
    BY <1>1, Invariance, PTL
  <1>4. Spec => [][GoesDown]_vars
    BY <1>2, Invariance, PTL DEF Spec
  <1> QED
    BY <1>3, <1>4, BeforeIsWellFounded
=============================================================================
