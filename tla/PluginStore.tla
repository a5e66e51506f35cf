----------------------------- MODULE PluginStore -----------------------------
(* The plugin manager of one process: packages downloaded or copied into a     *)
(* staging directory, verified, and moved into the plugins directory; enabling, *)
(* disabling and removal; the trusted publishers; and what a start loads. The   *)
(* process may die between any two moves. A package is its version, the key it  *)
(* is signed with, and its manifest's flags.                                    *)
EXTENDS Integers, FiniteSets

CONSTANTS PlPlugins, PlKeys,      \* plugin names, publishers' keys
          MaxPlVersion,           \* bound: versions in the market are 1..MaxPlVersion
          MaxPlOps, MaxPlFaults   \* bounds: operations; failed moves and kills
ASSUME PlAssumption == "none" \notin PlKeys /\ MaxPlVersion \in Nat \ {0} /\ MaxPlOps \in Nat /\ MaxPlFaults \in Nat

VARIABLES
  plDir, plOld,     \* plugins/{name} and plugins/.{name}.old
  plStage,          \* plugins/.marketplace
  plOp,             \* the operation that holds op_lock
  plStrict,         \* production without allow_untrusted
  plTrust,          \* trusted publishers, configured or in .trust
  plLoaded,         \* plugins whose platform the running server has registered
  plUp,             \* a server runs
  plWanted,         \* ghost: plugins installed and not removed since
  plOps, plFaults
plVars == <<plDir, plOld, plStage, plOp, plStrict, plTrust, plLoaded, plUp, plWanted, plOps, plFaults>>

NoPackage == [version |-> 0]
Broken == [version |-> -1]
Package(version, key, enabled, entry) == [version |-> version, key |-> key, enabled |-> enabled, entry |-> entry]
Whole(d) == d.version > 0
NoOp == [at |-> "idle"]

PluginStoreInit ==
  /\ plDir = [p \in PlPlugins |-> NoPackage] /\ plOld = plDir /\ plStage = NoPackage /\ plOp = NoOp
  /\ plStrict \in BOOLEAN /\ plTrust = {} /\ plLoaded = {} /\ plUp = TRUE /\ plWanted = {} /\ plOps = 0 /\ plFaults = 0

Starts(op) == plUp /\ plOp.at = "idle" /\ plOps < MaxPlOps /\ plOps' = plOps + 1 /\ plOp' = op
PlFault == plFaults < MaxPlFaults /\ plFaults' = plFaults + 1
Files == <<plDir, plOld, plStage>>

\* The newest version of the market's channel: the versions are chosen as the
\* market offers them. The checks of ABI, host version and platform have passed.
\* allow_downgrade, and --file, come with the request.
Requests(p, version, key, file, trust, again, downgrade) ==
  /\ Whole(plDir[p]) => /\ version = plDir[p].version => again
                        /\ version < plDir[p].version => downgrade
  /\ Starts([at |-> "fetch", name |-> p, version |-> version, key |-> key, file |-> file, trust |-> trust, replace |-> Whole(plDir[p])])
  /\ UNCHANGED <<Files, plStrict, plTrust, plLoaded, plUp, plWanted, plFaults>>

\* A package on disk may be installed over its own version.
PlInstall ==
  \E p \in PlPlugins, version \in 1..MaxPlVersion, key \in PlKeys \cup {"none"}, file, trust, downgrade \in BOOLEAN :
    plDir[p] # Broken /\ Requests(p, version, key, file, trust, file, downgrade)

\* An update asks for the installed version again, or for the newest.
PlUpdate ==
  \E p \in PlPlugins, version \in 1..MaxPlVersion, key \in PlKeys \cup {"none"} :
    /\ Whole(plDir[p]) /\ (version = plDir[p].version \/ version = MaxPlVersion)
    /\ Requests(p, version, key, FALSE, FALSE, version = plDir[p].version, FALSE)

Trusted(key) == key \in plTrust

\* Signed packages need a signature that verifies and a trusted or confirmed
\* publisher; unsigned ones need allow_untrusted.
Accepted(op) == IF op.key = "none" THEN ~plStrict ELSE Trusted(op.key) \/ op.trust

\* The staging directory is emptied and filled; a package refused is dropped, or
\* stays there. A copied package keeps its manifest, whose entry may carry
\* another name than the file it was copied to.
PlFetch ==
  /\ plOp.at = "fetch" /\ UNCHANGED <<plDir, plOld, plStrict, plTrust, plLoaded, plUp, plWanted, plOps, plFaults>>
  /\ \/ Accepted(plOp) /\ plOp' = [plOp EXCEPT !.at = "place"]
        /\ \E entry \in {TRUE, ~plOp.file} : plStage' = Package(plOp.version, plOp.key, TRUE, entry)
     \/ plOp' = NoOp /\ plStage' \in {NoPackage, Broken}

\* Mutant: the old version is deleted before the new one is in place.
PlAside_Deletes ==
  /\ plOp.at = "place" /\ plOp.replace /\ Whole(plDir[plOp.name])
  /\ plOld' = [plOld EXCEPT ![plOp.name] = NoPackage] /\ plDir' = [plDir EXCEPT ![plOp.name] = NoPackage] /\ plOp' = [plOp EXCEPT !.at = "swap"]
  /\ UNCHANGED <<plStage, plStrict, plTrust, plLoaded, plUp, plWanted, plOps, plFaults>>

\* The leftover of an earlier update goes, then the old version is moved aside.
PlAside ==
  /\ plOp.at = "place" /\ plOp.replace /\ Whole(plDir[plOp.name])
  /\ \/ plOld' = [plOld EXCEPT ![plOp.name] = plDir[plOp.name]] /\ plDir' = [plDir EXCEPT ![plOp.name] = NoPackage]
        /\ plOp' = [plOp EXCEPT !.at = "swap"] /\ UNCHANGED <<plStage, plFaults>>
     \/ PlFault /\ plOld' = [plOld EXCEPT ![plOp.name] = NoPackage] /\ plOp' = NoOp /\ plStage' = NoPackage /\ UNCHANGED plDir
  /\ UNCHANGED <<plStrict, plTrust, plLoaded, plUp, plWanted, plOps>>

\* The staged package becomes the plugin; if that fails the old one is moved
\* back, which may fail too.
PlSwap ==
  /\ plOp.at = "swap" \/ (plOp.at = "place" /\ ~plOp.replace)
  /\ \/ /\ plDir' = [plDir EXCEPT ![plOp.name] = plStage] /\ plStage' = NoPackage /\ plWanted' = plWanted \cup {plOp.name}
        /\ plOp' = IF plOp.at = "swap" THEN [plOp EXCEPT !.at = "clean"] ELSE NoOp
        /\ UNCHANGED <<plOld, plFaults>>
     \/ /\ PlFault /\ plOp' = NoOp /\ plStage' = NoPackage /\ UNCHANGED plWanted
        /\ \/ plOp.at = "swap" /\ plDir' = [plDir EXCEPT ![plOp.name] = plOld[plOp.name]] /\ plOld' = [plOld EXCEPT ![plOp.name] = NoPackage]
           \/ UNCHANGED <<plDir, plOld>>
  /\ UNCHANGED <<plStrict, plTrust, plLoaded, plUp, plOps>>

PlClean ==
  /\ plOp.at = "clean" /\ plOp' = NoOp /\ \E left \in {NoPackage, Broken} : plOld' = [plOld EXCEPT ![plOp.name] = left]
  /\ UNCHANGED <<plDir, plStage, plStrict, plTrust, plLoaded, plUp, plWanted, plOps, plFaults>>

\* The adapter of a loaded plugin is stopped, and its factory unregistered.
StopAdapter(p) == plLoaded' = plLoaded \ {p}

\* Removal of a directory may stop half way.
PlUninstall ==
  \E p \in PlPlugins :
    /\ plDir[p] # NoPackage /\ Starts(NoOp) /\ StopAdapter(p) /\ plWanted' = plWanted \ {p}
    /\ \/ plDir' = [plDir EXCEPT ![p] = NoPackage] /\ UNCHANGED plFaults
       \/ PlFault /\ plDir' = [plDir EXCEPT ![p] = Broken]
    /\ UNCHANGED <<plOld, plStage, plStrict, plTrust, plUp>>

\* Disabling rewrites the manifest and stops the adapter; enabling waits for the
\* next start.
PlSetEnabled ==
  \E p \in PlPlugins, enabled \in BOOLEAN :
    /\ Whole(plDir[p]) /\ Starts(NoOp) /\ plDir' = [plDir EXCEPT ![p].enabled = enabled]
    /\ IF enabled THEN UNCHANGED plLoaded ELSE StopAdapter(p)
    /\ UNCHANGED <<plOld, plStage, plStrict, plTrust, plUp, plWanted, plFaults>>

PlTrust == \E key \in PlKeys : Starts(NoOp) /\ plTrust' = plTrust \cup {key} /\ UNCHANGED <<Files, plStrict, plLoaded, plUp, plWanted, plFaults>>

PlKill == plUp /\ PlFault /\ plUp' = FALSE /\ plOp' = NoOp /\ plLoaded' = {} /\ UNCHANGED <<Files, plStrict, plTrust, plWanted, plOps>>

\* A directory without a readable manifest, a disabled plugin, an entry that is
\* not where the manifest says, a signature that does not verify or, under the
\* strict policy, is missing or of an untrusted publisher: none of them loads.
Verified(d) == d.key # "none" /\ Trusted(d.key)
Loads(d) == Whole(d) /\ d.enabled /\ d.entry /\ (plStrict => Verified(d))

\* In production a directory that is there, not disabled and not verified keeps
\* the server from starting.
Unverified(d) == d = Broken \/ (Whole(d) /\ d.enabled /\ ~(d.entry /\ Verified(d)))

PlRestart ==
  /\ ~plUp /\ (plStrict => \A p \in PlPlugins : ~Unverified(plDir[p]))
  /\ plUp' = TRUE /\ plLoaded' = {p \in PlPlugins : Loads(plDir[p])}
  /\ UNCHANGED <<Files, plOp, plStrict, plTrust, plWanted, plOps, plFaults>>

PluginStoreNext ==
  \/ PlInstall \/ PlUpdate \/ PlFetch \/ PlAside \/ PlSwap \/ PlClean
  \/ PlUninstall \/ PlSetEnabled \/ PlTrust \/ PlKill \/ PlRestart

Directory == {NoPackage, Broken} \cup {Package(v, k, e, f) : v \in 1..MaxPlVersion, k \in PlKeys \cup {"none"}, e \in BOOLEAN, f \in BOOLEAN}
PluginStoreTypeOK ==
  /\ plDir \in [PlPlugins -> Directory] /\ plOld \in [PlPlugins -> Directory] /\ plStage \in Directory
  /\ plOp.at \in {"idle", "fetch", "place", "swap", "clean"} /\ plStrict \in BOOLEAN /\ plUp \in BOOLEAN
  /\ plTrust \subseteq PlKeys /\ plLoaded \subseteq PlPlugins /\ plWanted \subseteq PlPlugins

\* Whatever installation, update or kill fails where, a plugin once installed
\* and not removed is whole: in its place, or aside under the name that the next
\* move into place leaves alone (place_installed: never delete the old version
\* first).
PluginIsNeverLost == \A p \in plWanted : Whole(plDir[p]) \/ Whole(plOld[p])
=============================================================================
