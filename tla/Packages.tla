------------------------------ MODULE Packages ------------------------------
(***************************************************************************)
(* Installer packages (api/packages.py, services/packaging.py) and the     *)
(* rebuild of the agent they wrap (services/agent_build.py), with the      *)
(* signing both use (services/signing.py).                                 *)
(*                                                                         *)
(* The builder replaces EndpointAgent.exe in place, then builds the        *)
(* custom-action DLL, then signs the exe; a package is assembled from      *)
(* whatever lies there at that moment.  A package's enrollment token is    *)
(* committed together with its row, after the file is in the store.  A     *)
(* restart rolls back what is not committed and forgets the builder, but   *)
(* not the compiler the builder had started.                               *)
(***************************************************************************)
EXTENDS Naturals

CONSTANTS
    Packages,       \* installation_packages, each created once
    Signing,        \* SIGNING_ENABLED
    MaxEdits,       \* bound: changes of the agent's source
    MaxMishaps      \* bound: restarts, refused commits, files lost

ASSUME PackagesAssumption ==
    /\ Signing \in BOOLEAN
    /\ MaxEdits \in Nat /\ MaxMishaps \in Nat

VARIABLES
    source,         \* revision of the agent's source on the server
    exe,            \* EndpointAgent.exe: revision, signed, older than a source file
    build,          \* AgentBuilder._state, the step of its thread, the revision it compiles
    orphans,        \* revisions that compilers of a former process still compile
    outlived,       \* the exe may be an orphan's, or of a rebuild a former process did not complete
    midway,         \* the source was edited while a build or an orphan ran
    package,        \* per package, its row, the request that makes it, its MSI
    token,          \* per package, its enrollment token
    stored,         \* packages whose file is in PACKAGE_OUTPUT_DIR
    deleting,       \* packages whose file is unlinked and whose row is not yet deleted
    lost,           \* packages whose file went otherwise than by a completed delete
    mishaps         \* bounded count of mishaps

buildVars == <<source, exe, build, orphans, outlived, midway>>
packageVars == <<package, token, stored, deleting, lost>>
vars == <<buildVars, packageVars, mishaps>>

TypeOK ==
    /\ source \in 0..MaxEdits
    /\ exe \in [rev: 0..MaxEdits, signed: BOOLEAN, older: BOOLEAN]
    /\ build \in [status: {"IDLE", "RUNNING", "SUCCEEDED", "FAILED"},
                  step: {"none", "publish", "custom action", "sign"}, rev: 0..MaxEdits]
    /\ orphans \in SUBSET (0..MaxEdits) /\ outlived \in BOOLEAN /\ midway \in BOOLEAN
    /\ package \in [Packages -> [status: {"none", "READY", "FAILED", "DELETED"},
                                 step: {"none", "wix", "sign", "commit"},
                                 signed: BOOLEAN, agent: {"none", "signed", "unsigned", "suspect"}]]
    /\ token \in [Packages -> {"none", "live", "revoked"}]
    /\ stored \in SUBSET Packages /\ deleting \in SUBSET Packages /\ lost \in SUBSET Packages
    /\ mishaps \in 0..MaxMishaps

\* The server starts on an exe that install.ps1 built and signed.
Init ==
    /\ source = 0
    /\ exe = [rev |-> 0, signed |-> Signing, older |-> FALSE]
    /\ build = [status |-> "IDLE", step |-> "none", rev |-> 0]
    /\ orphans = {} /\ outlived = FALSE /\ midway = FALSE
    /\ package = [p \in Packages |-> [status |-> "none", step |-> "none", signed |-> FALSE,
                                      agent |-> "none"]]
    /\ token = [p \in Packages |-> "none"]
    /\ stored = {} /\ deleting = {} /\ lost = {}
    /\ mishaps = 0

Mishap == mishaps < MaxMishaps /\ mishaps' = mishaps + 1

-----------------------------------------------------------------------------
(* Rebuilding the agent                                                    *)

edit_source ==
    /\ source < MaxEdits
    /\ source' = source + 1
    /\ exe' = [exe EXCEPT !.older = TRUE]
    /\ midway' = (midway \/ build.status = "RUNNING" \/ orphans # {})
    /\ UNCHANGED <<build, orphans, outlived, packageVars, mishaps>>

\* Mutant of source_status: after a rebuild that succeeded nothing is looked at.
source_status_of_build(stale) == stale /\ build.status # "SUCCEEDED"

\* source_status: what the console is told, from the times of the files.
source_status(stale) == stale

\* AgentBuilder.start: one rebuild at a time.
start ==
    /\ build.status # "RUNNING"
    /\ build' = [status |-> "RUNNING", step |-> "publish", rev |-> source]

start_agent_build ==
    /\ start
    /\ outlived' = FALSE
    /\ UNCHANGED <<source, exe, orphans, midway, packageVars, mishaps>>

\* Mutant of _finish: the thread ends and leaves the status.
_finish_silently(status) == build' = [build EXCEPT !.step = "none"]

_finish(status) == build' = [build EXCEPT !.status = status, !.step = "none"]

Published(rev) == [rev |-> rev, signed |-> FALSE, older |-> FALSE]

\* dotnet publish: the exe is replaced, or the step fails or times out before or after that.
publish ==
    /\ build.step = "publish"
    /\ \/ /\ exe' = Published(build.rev)
          /\ build' = [build EXCEPT !.step = "custom action"]
       \/ /\ exe' \in {exe, Published(build.rev)}
          /\ _finish("FAILED")
    /\ UNCHANGED <<source, orphans, outlived, midway, packageVars, mishaps>>

\* Mutant of after_custom_action: the exe is not signed.
unsigned_success == _finish("SUCCEEDED")

after_custom_action ==
    IF Signing THEN build' = [build EXCEPT !.step = "sign"] ELSE _finish("SUCCEEDED")

build_custom_action ==
    /\ build.step = "custom action"
    /\ after_custom_action \/ _finish("FAILED")
    /\ UNCHANGED <<source, exe, orphans, outlived, midway, packageVars, mishaps>>

\* _sign writes the exe again, so it is newer than every source file.
_sign ==
    /\ build.step = "sign"
    /\ \/ exe' = [exe EXCEPT !.signed = TRUE, !.older = FALSE] /\ _finish("SUCCEEDED")
       \/ UNCHANGED exe /\ _finish("FAILED")
    /\ UNCHANGED <<source, orphans, outlived, midway, packageVars, mishaps>>

\* A compiler that outlived the server that had started it ends.
orphan_publishes ==
    /\ \E r \in orphans :
         /\ orphans' = orphans \ {r}
         /\ exe' \in {exe, Published(r)}
    /\ outlived' = TRUE
    /\ UNCHANGED <<source, build, midway, packageVars, mishaps>>

-----------------------------------------------------------------------------
(* Packages                                                                *)

Step(p, s) == package' = [package EXCEPT ![p].step = s]

\* Mutant of create_package: the token is committed before the MSI is built.
create_package_token_first(p) ==
    /\ package[p].status = "none" /\ package[p].step = "none"
    /\ p \notin stored \cup lost
    /\ Step(p, "wix")
    /\ token' = [token EXCEPT ![p] = "live"]
    /\ UNCHANGED <<buildVars, stored, deleting, lost, mishaps>>

\* create_package up to WiX: token and row are flushed, not committed.
create_package(p) ==
    /\ package[p].status = "none" /\ package[p].step = "none"
    /\ p \notin stored \cup lost
    /\ Step(p, "wix")
    /\ UNCHANGED <<buildVars, token, stored, deleting, lost, mishaps>>

\* The exe may be unsigned, or about to be replaced, and nothing says so.
Suspect == build.status \in {"RUNNING", "FAILED"} \/ orphans # {} \/ outlived

\* build_msi runs WiX over the exe that is there.
build_msi(p) ==
    /\ package[p].step = "wix"
    /\ package' = [package EXCEPT ![p].step = "sign",
                                  ![p].agent = IF Suspect THEN "suspect"
                                               ELSE IF exe.signed THEN "signed" ELSE "unsigned"]
    /\ UNCHANGED <<buildVars, token, stored, deleting, lost, mishaps>>

\* Mutant of may_go_out: what could not be signed goes out as it is.
may_go_out_unsigned(signed) == TRUE

may_go_out(signed) == signed = Signing

\* _sign_if_configured, and the MSI is moved into the store.
_sign_if_configured(p) ==
    /\ package[p].step = "sign"
    /\ \E signed \in {FALSE, Signing} :
         /\ may_go_out(signed)
         /\ package' = [package EXCEPT ![p].step = "commit", ![p].signed = signed]
    /\ stored' = stored \cup {p}
    /\ UNCHANGED <<buildVars, token, deleting, lost, mishaps>>

\* Row and token are committed together.
commit_package(p) ==
    /\ package[p].step = "commit"
    /\ package' = [package EXCEPT ![p].status = "READY", ![p].step = "none"]
    /\ token' = [token EXCEPT ![p] = "live"]
    /\ UNCHANGED <<buildVars, stored, deleting, lost, mishaps>>

\* A PackagingError of WiX or the signer: the row says FAILED, the token is retired.
build_fails(p) ==
    /\ package[p].step \in {"wix", "sign"}
    /\ package' = [package EXCEPT ![p].status = "FAILED", ![p].step = "none"]
    /\ token' = [token EXCEPT ![p] = "revoked"]
    /\ UNCHANGED <<buildVars, stored, deleting, lost, mishaps>>

\* Any other exception, or a refused commit, rolls back; a stored file stays.
roll_back(p) ==
    /\ package[p].step # "none"
    /\ Step(p, "none")
    /\ lost' = lost \cup {p}
    /\ Mishap
    /\ UNCHANGED <<buildVars, token, stored, deleting>>

\* download_package of a file that is not there deletes the row, not the token.
download_package(p) ==
    /\ package[p].status = "READY"
    /\ p \notin stored
    /\ package' = [package EXCEPT ![p].status = "DELETED"]
    /\ UNCHANGED <<buildVars, token, stored, deleting, lost, mishaps>>

\* delete_package, up to the commit; a FAILED package has no file.
delete_package(p) ==
    /\ package[p].status \in {"READY", "FAILED"}
    /\ deleting' = deleting \cup {p}
    /\ stored' = stored \ {p}
    /\ UNCHANGED <<buildVars, package, token, lost, mishaps>>

\* Mutant of commit_delete: without the token.
commit_delete_row(p) ==
    /\ p \in deleting
    /\ deleting' = deleting \ {p}
    /\ package' = [package EXCEPT ![p].status = "DELETED"]
    /\ UNCHANGED <<buildVars, token, stored, lost, mishaps>>

commit_delete(p) ==
    /\ p \in deleting
    /\ deleting' = deleting \ {p}
    /\ package' = [package EXCEPT ![p].status = "DELETED"]
    /\ token' = [token EXCEPT ![p] = "revoked"]
    /\ UNCHANGED <<buildVars, stored, lost, mishaps>>

delete_refused(p) ==
    /\ p \in deleting
    /\ deleting' = deleting \ {p}
    /\ lost' = lost \cup {p}
    /\ Mishap
    /\ UNCHANGED <<buildVars, package, token, stored>>

removed_out_of_band(p) ==
    /\ p \in stored /\ package[p].status = "READY"
    /\ stored' = stored \ {p}
    /\ lost' = lost \cup {p}
    /\ Mishap
    /\ UNCHANGED <<buildVars, package, token, deleting>>

\* The process is restarted; the compiler it had started is not.
restart ==
    /\ Mishap
    /\ orphans' = orphans \cup (IF build.step = "publish" THEN {build.rev} ELSE {})
    /\ outlived' = (outlived \/ build.status \in {"RUNNING", "FAILED"})
    /\ build' = [build EXCEPT !.status = "IDLE", !.step = "none"]
    /\ package' = [p \in Packages |-> [package[p] EXCEPT !.step = "none"]]
    /\ deleting' = {}
    /\ lost' = lost \cup deleting \cup {p \in Packages : package[p].step # "none"}
    /\ UNCHANGED <<source, exe, midway, token, stored>>

-----------------------------------------------------------------------------

Builder == publish \/ build_custom_action \/ _sign

Next ==
    \/ edit_source
    \/ start_agent_build
    \/ Builder
    \/ orphan_publishes
    \/ \E p \in Packages :
         \/ create_package(p)
         \/ build_msi(p)
         \/ _sign_if_configured(p)
         \/ commit_package(p)
         \/ build_fails(p)
         \/ roll_back(p)
         \/ download_package(p)
         \/ delete_package(p)
         \/ commit_delete(p)
         \/ delete_refused(p)
         \/ removed_out_of_band(p)
    \/ restart

\* Every step of the builder's thread ends by itself or by BUILD_TIMEOUT_SECONDS.
Spec == Init /\ [][Next]_vars /\ WF_vars(Builder)

-----------------------------------------------------------------------------

\* A rebuild that is reported to have succeeded left a signed exe
\* (agent_build.py: "must not be reported as a good build unsigned"), unless a
\* compiler that outlived a restart wrote over it.
GoodBuildIsSigned ==
    build.status = "SUCCEEDED" /\ ~outlived /\ Signing => exe.signed

\* A package that is ready is signed (packaging.py: "must not go out unsigned
\* silently"), and so is the agent in it, unless it was assembled during a
\* rebuild, after one that failed or was interrupted, or beside an orphan.
ReadyPackagesAreSigned ==
    Signing => \A p \in Packages : package[p].status = "READY" =>
                 package[p].signed /\ package[p].agent # "unsigned"

\* When the exe is not built from the source that is there, the console is
\* told to rebuild (agent_build.py, source_status), unless the source was
\* edited while a rebuild or an orphan ran.
StaleIsTold == exe.rev # source /\ ~midway => source_status(exe.older)

\* A package that is deleted leaves no working token (packages.py: "revoking
\* the token is what actually stops them working"), unless its file was found
\* missing without a delete having completed.
TokensDieWithTheirPackage ==
    \A p \in Packages :
        package[p].status \in {"FAILED", "DELETED"} /\ p \notin lost \cup deleting
        => token[p] = "revoked"

\* A file in the store whose token works belongs to a package that is listed
\* and can be deleted, whatever was rolled back.
LiveFilesAreListed ==
    \A p \in stored : token[p] = "live" => package[p].status = "READY"

\* A rebuild that started is over some time, so that the next can start.
RebuildEnds == build.status = "RUNNING" ~> build.status # "RUNNING"
=============================================================================
