--------------------------- MODULE PackagesProofs ---------------------------
(***************************************************************************)
(* Proofs about Packages, for any number of packages, edits, restarts and  *)
(* other mishaps, with and without signing.                                *)
(***************************************************************************)
EXTENDS Packages, TLAPS

\* The parts of TypeOK.
BuildTypes ==
    /\ exe \in [rev: 0..MaxEdits, signed: BOOLEAN, older: BOOLEAN]
    /\ build \in [status: {"IDLE", "RUNNING", "SUCCEEDED", "FAILED"},
                  step: {"none", "publish", "custom action", "sign"}, rev: 0..MaxEdits]
    /\ orphans \in SUBSET (0..MaxEdits)

FlagTypes == outlived \in BOOLEAN /\ midway \in BOOLEAN

PackageTypes ==
    /\ package \in [Packages -> [status: {"none", "READY", "FAILED", "DELETED"},
                                 step: {"none", "wix", "sign", "commit"},
                                 signed: BOOLEAN, agent: {"none", "signed", "unsigned", "suspect"}]]
    /\ token \in [Packages -> {"none", "live", "revoked"}]
    /\ stored \in SUBSET Packages /\ deleting \in SUBSET Packages /\ lost \in SUBSET Packages

\* The builder's thread is at a step exactly while a rebuild is reported.
BuildInv ==
    /\ build.status = "RUNNING" <=> build.step # "none"
    /\ build.step = "sign" => Signing

\* Only an exe that may be unsigned is unsigned.
ExeInv == Signing /\ ~exe.signed => Suspect

\* What is compiled, and what a rebuild has compiled, is the source of today,
\* unless it was edited midway.
RevisionInv ==
    \/ midway
    \/ /\ \A r \in orphans : r = source
       /\ build.step # "none" => build.rev = source
       /\ build.step \in {"custom action", "sign"} => exe.rev = source

\* A package in the making has neither a row nor a token that others see.
MakingInv ==
    \A p \in Packages :
        /\ package[p].step # "none" => package[p].status = "none"
        /\ package[p].status = "none" => token[p] # "live" /\ p \notin deleting
        /\ package[p].step = "sign" /\ Signing => package[p].agent # "unsigned"
        /\ package[p].step = "commit" =>
             p \in stored /\ (Signing => package[p].signed /\ package[p].agent # "unsigned")

\* The file of a package that is ready is there, or its loss is known.
FilesInv ==
    \A p \in Packages : package[p].status = "READY" => p \in stored \cup lost \cup deleting

BuildsInv == BuildInv /\ ExeInv /\ RevisionInv /\ GoodBuildIsSigned /\ StaleIsTold

PackagesInv ==
    MakingInv /\ FilesInv /\ ReadyPackagesAreSigned /\ TokensDieWithTheirPackage /\ LiveFilesAreListed

Inv == TypeOK /\ BuildsInv /\ PackagesInv

-----------------------------------------------------------------------------

\* TypeOK by its parts, which the provers take one at a time.
LEMMA TypeParts ==
    TypeOK <=> /\ source \in 0..MaxEdits /\ mishaps \in 0..MaxMishaps
               /\ BuildTypes /\ FlagTypes /\ PackageTypes
BY Zenon DEF TypeOK, BuildTypes, FlagTypes, PackageTypes

\* A step of Next that a package takes.
PackageStep(p) ==
    \/ create_package(p) \/ build_msi(p) \/ _sign_if_configured(p) \/ commit_package(p)
    \/ build_fails(p) \/ roll_back(p) \/ download_package(p) \/ delete_package(p)
    \/ commit_delete(p) \/ delete_refused(p) \/ removed_out_of_band(p)

\* A package's step leaves the rebuild alone, ...
LEMMA BuildsApart ==
    ASSUME NEW p \in Packages, PackageStep(p)
    PROVE  UNCHANGED buildVars
BY DEF PackageStep, create_package, build_msi, _sign_if_configured, commit_package,
       build_fails, roll_back, download_package, delete_package, commit_delete,
       delete_refused, removed_out_of_band

\* ... and a step of the rebuild the packages.
LEMMA PackagesApart ==
    ASSUME edit_source \/ start_agent_build \/ Builder \/ orphan_publishes
    PROVE  UNCHANGED <<packageVars, mishaps>>
BY DEF edit_source, start_agent_build, Builder, publish, build_custom_action, _sign,
       orphan_publishes

\* Mishaps are counted up to their bound, ...
LEMMA MishapStep ==
    ASSUME mishaps \in 0..MaxMishaps, [Next]_vars PROVE mishaps' \in 0..MaxMishaps
<1>1. ASSUME NEW p \in Packages, PackageStep(p) PROVE mishaps' = mishaps \/ Mishap
  BY <1>1 DEF PackageStep, create_package, build_msi, _sign_if_configured, commit_package,
       build_fails, roll_back, download_package, delete_package, commit_delete,
       delete_refused, removed_out_of_band
<1>2. mishaps' = mishaps \/ Mishap
  BY <1>1, PackagesApart DEF Next, PackageStep, restart, vars
<1> QED
  BY <1>2, PackagesAssumption DEF Mishap

\* ... and so are edits.
LEMMA SourceStep ==
    ASSUME source \in 0..MaxEdits, [Next]_vars PROVE source' \in 0..MaxEdits
<1>1. CASE edit_source
  <2>1. source < MaxEdits /\ source' = source + 1
    BY <1>1 DEF edit_source
  <2> QED BY <2>1, PackagesAssumption
<1>2. CASE start_agent_build \/ Builder \/ orphan_publishes \/ restart
  BY <1>2 DEF start_agent_build, Builder, publish, build_custom_action, _sign, orphan_publishes,
     restart
<1>3. CASE UNCHANGED buildVars
  BY <1>3 DEF buildVars
<1> QED
  BY <1>1, <1>2, <1>3, BuildsApart DEF Next, PackageStep, vars

\* The rebuild keeps its types.
LEMMA BuildTypeStep ==
    ASSUME source \in 0..MaxEdits, BuildTypes, [Next]_vars PROVE BuildTypes'
<1> USE DEF BuildTypes
<1>1. CASE edit_source
  <2>1. exe' = [exe EXCEPT !.older = TRUE] /\ UNCHANGED <<build, orphans>>
    BY <1>1 DEF edit_source
  <2> QED BY <2>1
<1>2. CASE start_agent_build
  <2>1. build' = [status |-> "RUNNING", step |-> "publish", rev |-> source]
        /\ UNCHANGED <<exe, orphans>>
    BY <1>2 DEF start_agent_build, start
  <2> QED BY <2>1
<1>3. CASE publish
  <2>1. exe' \in {exe, Published(build.rev)} /\ orphans' = orphans
    BY <1>3 DEF publish
  <2>2. \/ build' = [build EXCEPT !.step = "custom action"]
        \/ build' = [build EXCEPT !.status = "FAILED", !.step = "none"]
    BY <1>3, Zenon DEF publish, _finish
  <2>3. build.rev \in 0..MaxEdits
    OBVIOUS
  <2>4. Published(build.rev) \in [rev: 0..MaxEdits, signed: BOOLEAN, older: BOOLEAN]
    BY <2>3 DEF Published
  <2> QED BY <2>1, <2>2, <2>4
<1>4. CASE build_custom_action
  BY <1>4 DEF build_custom_action, after_custom_action, _finish
<1>5. CASE _sign
  BY <1>5 DEF _sign, _finish
<1>6. CASE orphan_publishes
  <2>1. PICK r \in orphans : orphans' = orphans \ {r} /\ exe' \in {exe, Published(r)}
    BY <1>6 DEF orphan_publishes
  <2>2. build' = build /\ r \in 0..MaxEdits
    BY <1>6 DEF orphan_publishes
  <2>3. Published(r) \in [rev: 0..MaxEdits, signed: BOOLEAN, older: BOOLEAN]
    BY <2>2 DEF Published
  <2> QED BY <2>1, <2>2, <2>3
<1>7. CASE restart
  <2>1. /\ build' = [build EXCEPT !.status = "IDLE", !.step = "none"]
        /\ orphans' = orphans \cup (IF build.step = "publish" THEN {build.rev} ELSE {})
        /\ exe' = exe
    BY <1>7 DEF restart
  <2> QED BY <2>1
<1>8. CASE UNCHANGED buildVars
  BY <1>8 DEF buildVars
<1> QED
  BY <1>1, <1>2, <1>3, <1>4, <1>5, <1>6, <1>7, <1>8, BuildsApart
     DEF Next, Builder, PackageStep, vars

\* The flags stay Boolean.
LEMMA FlagTypeStep ==
    ASSUME FlagTypes, [Next]_vars PROVE FlagTypes'
<1> USE DEF FlagTypes
<1>1. CASE edit_source
  BY <1>1, Zenon DEF edit_source
<1>2. CASE start_agent_build
  BY <1>2, Zenon DEF start_agent_build
<1>3. CASE Builder
  BY <1>3, Zenon DEF Builder, publish, build_custom_action, _sign
<1>4. CASE orphan_publishes
  BY <1>4, Zenon DEF orphan_publishes
<1>5. CASE restart
  BY <1>5, Zenon DEF restart
<1>6. CASE UNCHANGED buildVars
  BY <1>6, Zenon DEF buildVars
<1> QED
  BY <1>1, <1>2, <1>3, <1>4, <1>5, <1>6, BuildsApart DEF Next, PackageStep, vars

\* A step of a package keeps the types of packages.
LEMMA PackageTypeStep ==
    ASSUME PackageTypes, [Next]_vars PROVE PackageTypes'
<1> USE DEF PackageTypes
<1>1. ASSUME NEW p \in Packages, create_package(p) \/ build_msi(p) PROVE PackageTypes'
  <2>1. \/ package' = [package EXCEPT ![p].step = "wix"]
        \/ \E a \in {"signed", "unsigned", "suspect"} :
             package' = [package EXCEPT ![p].step = "sign", ![p].agent = a]
    BY <1>1 DEF create_package, build_msi, Step
  <2>2. UNCHANGED <<token, stored, deleting, lost>>
    BY <1>1 DEF create_package, build_msi
  <2> QED BY <2>1, <2>2
<1>2. ASSUME NEW p \in Packages, _sign_if_configured(p) PROVE PackageTypes'
  <2>1. PICK s \in {FALSE, Signing} :
             package' = [package EXCEPT ![p].step = "commit", ![p].signed = s]
    BY <1>2 DEF _sign_if_configured
  <2>2. stored' = stored \cup {p} /\ UNCHANGED <<token, deleting, lost>>
    BY <1>2 DEF _sign_if_configured
  <2> QED BY <2>1, <2>2, PackagesAssumption, ZenonT(30)
<1>3. ASSUME NEW p \in Packages, commit_package(p) \/ build_fails(p) PROVE PackageTypes'
  <2>1. PICK s \in {"READY", "FAILED"} :
             package' = [package EXCEPT ![p].status = s, ![p].step = "none"]
    BY <1>3 DEF commit_package, build_fails
  <2>2. PICK t \in {"live", "revoked"} : token' = [token EXCEPT ![p] = t]
    BY <1>3 DEF commit_package, build_fails
  <2>3. UNCHANGED <<stored, deleting, lost>>
    BY <1>3 DEF commit_package, build_fails
  <2>4. package' \in [Packages -> [status: {"none", "READY", "FAILED", "DELETED"},
                                 step: {"none", "wix", "sign", "commit"},
                                 signed: BOOLEAN, agent: {"none", "signed", "unsigned", "suspect"}]]
    BY <2>1, ZenonT(30)
  <2>5. token' \in [Packages -> {"none", "live", "revoked"}]
    BY <2>2
  <2> QED BY <2>3, <2>4, <2>5
<1>4. ASSUME NEW p \in Packages, roll_back(p) PROVE PackageTypes'
  BY <1>4 DEF roll_back, Step
<1>5. ASSUME NEW p \in Packages, download_package(p) PROVE PackageTypes'
  BY <1>5 DEF download_package
<1>6. ASSUME NEW p \in Packages, delete_package(p) PROVE PackageTypes'
  BY <1>6 DEF delete_package
<1>7. ASSUME NEW p \in Packages, commit_delete(p) PROVE PackageTypes'
  BY <1>7 DEF commit_delete
<1>8. ASSUME NEW p \in Packages, delete_refused(p) \/ removed_out_of_band(p) PROVE PackageTypes'
  BY <1>8 DEF delete_refused, removed_out_of_band
<1>9. CASE restart
  <2>1. package' = [p \in Packages |-> [package[p] EXCEPT !.step = "none"]]
    BY <1>9 DEF restart
  <2>2. /\ token' = token /\ stored' = stored /\ deleting' = {}
        /\ lost' = lost \cup deleting \cup {p \in Packages : package[p].step # "none"}
    BY <1>9 DEF restart
  <2>3. package' \in [Packages -> [status: {"none", "READY", "FAILED", "DELETED"},
                                 step: {"none", "wix", "sign", "commit"},
                                 signed: BOOLEAN, agent: {"none", "signed", "unsigned", "suspect"}]]
    BY <2>1
  <2> QED BY <2>2, <2>3
<1>10. CASE UNCHANGED packageVars
  BY <1>10 DEF packageVars
<1> QED
  BY <1>1, <1>2, <1>3, <1>4, <1>5, <1>6, <1>7, <1>8, <1>9, <1>10, PackagesApart DEF Next, vars

\* Every step keeps the types.
LEMMA TypeStep == TypeOK /\ [Next]_vars => TypeOK'
<1>1. ASSUME TypeOK, [Next]_vars
      PROVE  /\ source' \in 0..MaxEdits /\ mishaps' \in 0..MaxMishaps
             /\ BuildTypes' /\ FlagTypes' /\ PackageTypes'
  BY <1>1, TypeParts, SourceStep, MishapStep, BuildTypeStep, FlagTypeStep, PackageTypeStep
<1>2. ASSUME source' \in 0..MaxEdits /\ mishaps' \in 0..MaxMishaps
             /\ BuildTypes' /\ FlagTypes' /\ PackageTypes'
      PROVE  TypeOK'
  BY <1>2, Zenon DEF TypeOK, BuildTypes, FlagTypes, PackageTypes
<1> QED BY <1>1, <1>2

-----------------------------------------------------------------------------

\* Every step keeps what is said of the rebuild: the exe is fresh, signed or suspect.
LEMMA BuildsStep ==
    ASSUME BuildTypes, FlagTypes, BuildsInv, [Next]_vars PROVE BuildsInv'
<1> USE DEF BuildsInv, BuildInv, ExeInv, Suspect, RevisionInv, GoodBuildIsSigned, StaleIsTold,
            source_status, BuildTypes
<1>1. CASE edit_source
  BY <1>1 DEF edit_source
<1>2. CASE start_agent_build
  BY <1>2 DEF start_agent_build, start
<1>3. CASE publish
  <2>1. /\ build.step = "publish" /\ exe' \in {exe, Published(build.rev)}
        /\ UNCHANGED <<source, orphans, outlived, midway>>
    BY <1>3 DEF publish
  <2>2. CASE exe' = Published(build.rev) /\ build' = [build EXCEPT !.step = "custom action"]
    BY <2>1, <2>2 DEF Published
  <2>3. CASE exe' = exe /\ build' = [build EXCEPT !.status = "FAILED", !.step = "none"]
    BY <2>1, <2>3
  <2>4. CASE /\ exe' = Published(build.rev)
             /\ build' = [build EXCEPT !.status = "FAILED", !.step = "none"]
    BY <2>1, <2>4 DEF Published
  <2> QED BY <1>3, <2>1, <2>2, <2>3, <2>4 DEF publish, _finish
<1>4. CASE build_custom_action
  BY <1>4 DEF build_custom_action, after_custom_action, _finish
<1>5. CASE _sign
  BY <1>5 DEF _sign, _finish
<1>6. CASE orphan_publishes
  <2>1. PICK r \in orphans : orphans' = orphans \ {r} /\ exe' \in {exe, Published(r)}
    BY <1>6 DEF orphan_publishes
  <2>2. outlived' = TRUE /\ UNCHANGED <<source, build, midway>>
    BY <1>6 DEF orphan_publishes
  <2>3. CASE exe' = exe
    BY <2>1, <2>2, <2>3
  <2>4. CASE exe' = Published(r)
    BY <2>1, <2>2, <2>4 DEF Published
  <2> QED BY <2>1, <2>3, <2>4
<1>7. CASE restart
  BY <1>7 DEF restart
<1>8. CASE UNCHANGED buildVars
  BY <1>8 DEF buildVars
<1> QED
  BY <1>1, <1>2, <1>3, <1>4, <1>5, <1>6, <1>7, <1>8, BuildsApart
     DEF Next, Builder, PackageStep, vars

\* Every step keeps what is said of packages; ExeInv carries the agent's signature into them.
LEMMA PackagesStep ==
    ASSUME PackageTypes, ExeInv, PackagesInv, [Next]_vars PROVE PackagesInv'
<1> USE PackagesAssumption DEF PackagesInv, MakingInv, FilesInv, ReadyPackagesAreSigned,
        TokensDieWithTheirPackage, LiveFilesAreListed, PackageTypes
<1>1. ASSUME NEW p \in Packages, create_package(p) PROVE PackagesInv'
  BY <1>1 DEF create_package, Step
<1>2. ASSUME NEW p \in Packages, build_msi(p) PROVE PackagesInv'
  BY <1>2 DEF build_msi, ExeInv
<1>3. ASSUME NEW p \in Packages, _sign_if_configured(p) PROVE PackagesInv'
  BY <1>3 DEF _sign_if_configured, may_go_out
<1>4. ASSUME NEW p \in Packages, commit_package(p) PROVE PackagesInv'
  BY <1>4 DEF commit_package
<1>5. ASSUME NEW p \in Packages, build_fails(p) PROVE PackagesInv'
  BY <1>5 DEF build_fails
<1>6. ASSUME NEW p \in Packages, roll_back(p) PROVE PackagesInv'
  BY <1>6 DEF roll_back, Step
<1>7. ASSUME NEW p \in Packages, download_package(p) PROVE PackagesInv'
  BY <1>7 DEF download_package
<1>8. ASSUME NEW p \in Packages, delete_package(p) PROVE PackagesInv'
  BY <1>8 DEF delete_package
<1>9. ASSUME NEW p \in Packages, commit_delete(p) PROVE PackagesInv'
  BY <1>9 DEF commit_delete
<1>10. ASSUME NEW p \in Packages, delete_refused(p) PROVE PackagesInv'
  BY <1>10 DEF delete_refused
<1>11. ASSUME NEW p \in Packages, removed_out_of_band(p) PROVE PackagesInv'
  BY <1>11 DEF removed_out_of_band
<1>12. CASE restart
  BY <1>12 DEF restart
<1>13. CASE UNCHANGED packageVars
  BY <1>13 DEF packageVars
<1> QED
  BY <1>1, <1>2, <1>3, <1>4, <1>5, <1>6, <1>7, <1>8, <1>9, <1>10, <1>11, <1>12, <1>13,
     PackagesApart DEF Next, vars

-----------------------------------------------------------------------------

\* The first state satisfies the invariant.
LEMMA InitInv == Init => Inv
<1>1. Init => TypeOK
  <2>1. Init => source \in 0..MaxEdits /\ mishaps \in 0..MaxMishaps
    BY PackagesAssumption DEF Init
  <2>2. Init => BuildTypes
    BY PackagesAssumption DEF Init, BuildTypes
  <2>3. Init => FlagTypes
    BY DEF Init, FlagTypes
  <2>4. Init => PackageTypes
    BY DEF Init, PackageTypes
  <2> QED BY <2>1, <2>2, <2>3, <2>4, TypeParts
<1>2. Init => BuildsInv
  BY DEF Init, BuildsInv, BuildInv, ExeInv, Suspect, RevisionInv, GoodBuildIsSigned,
         StaleIsTold, source_status
<1>3. Init => PackagesInv
  BY DEF Init, PackagesInv, MakingInv, FilesInv, ReadyPackagesAreSigned,
         TokensDieWithTheirPackage, LiveFilesAreListed
<1> QED BY <1>1, <1>2, <1>3 DEF Inv

\* The invariant holds in every reachable state.
LEMMA Invariance == Spec => []Inv
<1>1. Inv /\ [Next]_vars => Inv'
  <2> SUFFICES ASSUME Inv, [Next]_vars PROVE Inv'
    OBVIOUS
  <2>1. TypeOK /\ BuildsInv /\ PackagesInv /\ ExeInv
    BY DEF Inv, BuildsInv
  <2>2. BuildTypes /\ FlagTypes /\ PackageTypes
    BY <2>1, TypeParts
  <2>3. TypeOK'
    BY <2>1, TypeStep
  <2>4. BuildsInv'
    BY <2>1, <2>2, BuildsStep
  <2>5. PackagesInv'
    BY <2>1, <2>2, PackagesStep
  <2> QED BY <2>3, <2>4, <2>5 DEF Inv
<1> QED
  BY InitInv, <1>1, PTL DEF Spec

\* Rows, steps, tokens and flags stay in their types.
THEOREM TypeCorrect == Spec => []TypeOK
BY Invariance, PTL DEF Inv

\* A rebuild that is reported to have succeeded left a signed exe, unless a
\* compiler that outlived a restart wrote over it.
THEOREM GoodBuilds == Spec => []GoodBuildIsSigned
BY Invariance, PTL DEF Inv, BuildsInv

\* When the exe is not built from today's source the console is told, unless
\* the source was edited while a rebuild or an orphan ran.
THEOREM StaleBuilds == Spec => []StaleIsTold
BY Invariance, PTL DEF Inv, BuildsInv

\* With signing on, a package that is ready is signed, and the agent in it was
\* signed unless a rebuild was running, had failed, or an orphan had written.
THEOREM SignedPackages == Spec => []ReadyPackagesAreSigned
BY Invariance, PTL DEF Inv, PackagesInv

\* The token of a package that failed or was deleted is revoked, unless its
\* file was found missing without a delete having completed.
THEOREM DeadTokens == Spec => []TokensDieWithTheirPackage
BY Invariance, PTL DEF Inv, PackagesInv

\* A stored file whose token works belongs to a package that is listed.
THEOREM ListedFiles == Spec => []LiveFilesAreListed
BY Invariance, PTL DEF Inv, PackagesInv
=============================================================================
