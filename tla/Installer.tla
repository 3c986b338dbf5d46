------------------------------ MODULE Installer ------------------------------
(***************************************************************************)
(* Runs of install.py: it copies some files of the directory it lies in to *)
(* a target, one after the other and over what is there, and validates the *)
(* result before it reports success.  A run may raise or die anywhere and  *)
(* be repeated; between runs an operator puts releases into directories.   *)
(***************************************************************************)
EXTENDS Naturals, Sequences

CONSTANTS Place,         \* directories
          Within,        \* <<p, q>>: p is q or lies inside q
          DefaultTarget, \* /a0/usr/plugins/neuro_core_2
          Release,       \* releases of the plugin
          Complete,      \* those whose manifest has all required fields,
          Named,         \* those whose manifest has the expected name
          Compatible,    \* <<r, s>>: tools of r import with modules of s
          Copied,        \* the files copied, in order: plugin.yaml first,
          FirstTool,     \* from this one on the tools (TOOL_FILES)
          Module,        \* the other files: modules, hooks.py, install.py
          Absent         \* no such file

VARIABLES dir,    \* what each directory holds
          pc,     \* where the run is, or how the last one ended
          here,   \* HERE
          target, \* TARGET
          host,   \* is the host's package helpers on sys.path?
          next    \* the file the loops of the run are at

vars == <<dir, pc, here, target, host, next>>

CopiedFile == {Copied[i] : i \in DOMAIN Copied}
File == CopiedFile \cup Module

\* A file of a release, or as much of it as was written.
Content == [release : Release, whole : BOOLEAN]

ASSUME PlaceAssumption ==
    /\ DefaultTarget \in Place
    /\ \A p \in Place : <<p, p>> \in Within
ASSUME FileAssumption ==
    /\ Copied \in Seq(STRING)
    /\ \A i, j \in DOMAIN Copied : Copied[i] = Copied[j] => i = j
    /\ Module \cap CopiedFile = {}
    /\ FirstTool \in 2..Len(Copied)
    /\ Absent \notin Content

Whole(r) == [f \in File |-> [release |-> r, whole |-> TRUE]]
Nothing == [f \in File |-> Absent]

\* All the modules of the plugin are there, install.py with them.
Deployed(p) == \A m \in Module : dir[p][m] # Absent

Ended == {"idle", "refused", "raised", "error", "crashed", "installed"}

Init ==
    /\ dir \in [Place -> {Nothing} \cup {Whole(r) : r \in Release}]
    /\ pc = "idle" /\ here = DefaultTarget /\ target = DefaultTarget
    /\ host = FALSE /\ next = 1

-----------------------------------------------------------------------------
\* An operator checks a release out into p.
Checkout(p, r) ==
    /\ pc \in Ended
    /\ dir' = [dir EXCEPT ![p] = Whole(r)]
    /\ pc' = "idle"
    /\ UNCHANGED <<here, target, host, next>>

\* python install.py, with or without NEURO_CORE_2_INSTALL_TARGET: the
\* imports, the target, and the check that it is not inside the source.
Start ==
    /\ pc \in Ended
    /\ here' \in {p \in Place : Deployed(p)}
    /\ target' \in Place /\ host' \in BOOLEAN
    /\ pc' = IF <<target', here'>> \in Within THEN "refused" ELSE "copy"
    /\ next' = 1
    /\ UNCHANGED dir

\* Mutant: the loop goes on behind the last file.
AdvancePastEnd(again, then) ==
    /\ pc' = IF next < Len(Copied) THEN again ELSE then
    /\ next' = next + 1

\* The file after the one just dealt with, or the next part of the script.
Advance(again, then) ==
    /\ pc' = IF next < Len(Copied) THEN again ELSE then
    /\ next' = IF next < Len(Copied) THEN next + 1 ELSE FirstTool

\* Mutant: files that are there already are not copied again.
CopyBeginMissing ==
    /\ pc = "copy"
    /\ dir[here][Copied[next]] # Absent
    /\ IF dir[target][Copied[next]] # Absent
       THEN Advance("copy", "permissions") /\ UNCHANGED dir
       ELSE /\ dir' = [dir EXCEPT ![target][Copied[next]] = [dir[here][Copied[next]] EXCEPT !.whole = FALSE]]
            /\ pc' = "write"
            /\ UNCHANGED next
    /\ UNCHANGED <<here, target, host>>

\* shutil.copy truncates the target's file,
CopyBegin ==
    /\ pc = "copy"
    /\ dir[here][Copied[next]] # Absent
    /\ dir' = [dir EXCEPT ![target][Copied[next]] = [dir[here][Copied[next]] EXCEPT !.whole = FALSE]]
    /\ pc' = "write"
    /\ UNCHANGED <<here, target, host, next>>

\* and writes it.
CopyEnd ==
    /\ pc = "write"
    /\ dir' = [dir EXCEPT ![target][Copied[next]] = dir[here][Copied[next]]]
    /\ Advance("copy", "permissions")
    /\ UNCHANGED <<here, target, host>>

\* mkdir or copy raises: no such file, no permission, no space.
CopyRaises ==
    /\ pc \in {"copy", "write"}
    /\ pc' = "raised"
    /\ UNCHANGED <<dir, here, target, host, next>>

-----------------------------------------------------------------------------
\* What a check of a file's content may say: of a truncated one, anything.
Verdicts(content, good) == IF content.whole THEN {content.release \in good} ELSE BOOLEAN

Manifest == dir[target][Copied[1]]

\* A validation passes and the script goes on, or sys.exit.
Validated(ok, then) ==
    /\ pc' = IF ok THEN then ELSE "error"
    /\ UNCHANGED <<dir, here, target, host, next>>

ValidatePermissions ==
    pc = "permissions" /\ \E writable \in BOOLEAN : Validated(writable, "discovery")

\* _load_manifest() may also fail to read the file.
ValidateDiscovery ==
    /\ pc = "discovery"
    /\ \E ok \in Verdicts(Manifest, Complete) \cup {FALSE} : Validated(ok, "manifest")

ValidateManifestBehavior ==
    /\ pc = "manifest"
    /\ \E ok \in Verdicts(Manifest, Named) \cup {FALSE} : Validated(ok, "imports")

\* Mutant: HERE comes before TARGET on sys.path.
FoundHere(m) == dir[here][m]

\* The file that "import m" finds: TARGET was put before HERE on sys.path.
Found(m) == IF dir[target][m] # Absent THEN dir[target][m] ELSE dir[here][m]

\* Releases of modules that go with tool t.
Fitting(t) == {s \in Release : <<t.release, s>> \in Compatible}

\* Mutant: the loop ends before the last tool.
ValidateImportsButLast ==
    /\ pc = "imports"
    /\ LET tool == dir[target][Copied[next]]
       IN  IF host /\ (tool.whole => \A m \in Module : Found(m).release \in Fitting(tool))
           THEN /\ pc' = IF next < Len(Copied) - 1 THEN "imports" ELSE "installed"
                /\ next' = IF next < Len(Copied) - 1 THEN next + 1 ELSE FirstTool
           ELSE pc' = "error" /\ UNCHANGED next
    /\ UNCHANGED <<dir, here, target, host>>

\* One turn of the loop of validate_imports: the tool in TARGET is executed,
\* its imports are looked up in the host, in TARGET and in HERE.
ValidateImport ==
    /\ pc = "imports"
    /\ LET tool == dir[target][Copied[next]]
       IN  /\ host
           /\ tool.whole => \A m \in Module : Found(m).release \in Fitting(tool)
    /\ Advance("imports", "installed")
    /\ UNCHANGED <<dir, here, target, host>>

\* An import raises; a truncated tool may also not be Python.
ImportFails ==
    /\ pc = "imports"
    /\ LET tool == dir[target][Copied[next]]
       IN  \/ ~host
           \/ ~tool.whole
           \/ \E m \in Module : Found(m).release \notin Fitting(tool)
    /\ pc' = "error"
    /\ UNCHANGED <<dir, here, target, host, next>>

Crash ==
    /\ pc \notin Ended
    /\ pc' = "crashed"
    /\ UNCHANGED <<dir, here, target, host, next>>

-----------------------------------------------------------------------------
Run ==
    \/ Start \/ CopyBegin \/ CopyEnd \/ CopyRaises \/ ValidatePermissions \/ ValidateDiscovery
    \/ ValidateManifestBehavior \/ ValidateImport \/ ImportFails \/ Crash

Next == Run \/ \E p \in Place, r \in Release : Checkout(p, r)

Spec == Init /\ [][Next]_vars

-----------------------------------------------------------------------------
TypeOK ==
    /\ dir \in [Place -> [File -> Content \cup {Absent}]]
    /\ pc \in Ended \cup {"copy", "write", "permissions", "discovery", "manifest", "imports"}
    /\ here \in Place /\ target \in Place
    /\ host \in BOOLEAN
    /\ next \in DOMAIN Copied

\* "Installed" means installed: the copied files in the target are those the run
\* was started from, whatever earlier runs, cut short anywhere, have left there
\* (install.py:28-36, 196).
InstalledFromHere ==
    pc = "installed" => \A f \in CopiedFile : dir[target][f] = dir[here][f]

\* A host with only p on its path can import the tool in file t.
Loads(p, t) ==
    /\ Deployed(p)
    /\ \A m \in Module : dir[p][m].release \in Fitting(dir[p][t])

ToolFiles == {Copied[i] : i \in FirstTool..Len(Copied)}

\* A success reported for a target that has modules of its own, of whatever
\* release, is not owed to the modules of the source: the host, too, can
\* import every tool it was given in one piece (validate_imports).
LoadsWhereDeployed ==
    pc = "installed" /\ Deployed(target) =>
        \A t \in ToolFiles : dir[target][t].whole => Loads(target, t)

-----------------------------------------------------------------------------
\* The inductive invariant.

\* The files before the i-th are copied.
CopiedBefore(i) ==
    \A j \in 1..Len(Copied) : j < i => dir[target][Copied[j]] = dir[here][Copied[j]]

\* The tools before the i-th import with what is found.
ImportedBefore(i) ==
    \A j \in FirstTool..Len(Copied) :
        LET tool == dir[target][Copied[j]]
        IN  j < i /\ tool.whole => \A m \in Module : Found(m).release \in Fitting(tool)

\* What each label of the script has behind it (install.py).
Inv ==
    /\ TypeOK /\ LoadsWhereDeployed
    /\ pc \notin Ended => target # here
    /\ pc \in {"copy", "write"} => CopiedBefore(next)
    /\ pc = "write" => dir[here][Copied[next]] # Absent
    /\ pc \in {"permissions", "discovery", "manifest", "imports", "installed"} =>
          CopiedBefore(Len(Copied) + 1)
    /\ pc \in {"permissions", "discovery", "manifest"} => next = FirstTool
    /\ pc = "imports" => next >= FirstTool /\ ImportedBefore(next)
    /\ pc = "installed" => ImportedBefore(Len(Copied) + 1)

-----------------------------------------------------------------------------
\* What documents say of all installations.

\* "Install Neuro Core 2 plugin files into the running Agent Zero container"
\* (install.py:1), after which the tools "are callable"
\* (docs/AGENT_ZERO_CONTRACT_BASELINE.md:235-240): what is reported as
\* installed can be loaded by a host that has nothing but the target.
InstalledLoads == pc = "installed" => \A t \in ToolFiles : Loads(target, t)

\* "Install command (e.g. python /a0/usr/plugins/neuro_core_2/install.py)"
\* (docs/validation/README.md:152-153), with no target set: it installs.
DocumentedInstallRuns == pc = "refused" => ~(here = DefaultTarget /\ target = DefaultTarget)

=============================================================================
