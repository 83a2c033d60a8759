------------------------------ MODULE Updater ------------------------------
(***************************************************************************)
(* In-app updates (update.rs): the desktop application and the command     *)
(* line, which may update at the same time, the release file they download *)
(* under one name, its installation, and the refresh of a staged daemon    *)
(* (settings/main.rs, setup-helper) that an AppImage asks for afterwards.  *)
(***************************************************************************)
EXTENDS Naturals, FiniteSets

CONSTANTS
    Updaters,   \* processes that can update
    Window,     \* the one of them that is the desktop application
    Newest,     \* releases 1 .. Newest come out one after another
    MaxOrphans  \* bound: children of killed processes at a time

VARIABLES
    kind,       \* InstallKind: "AppImage" or "Package"
    latest,     \* the newest release that is out
    app,        \* the installed release, and whether all of its file is there
    file,       \* the download of each release, by the state of its content
    at,         \* program point of every process
    runs,       \* the release a process is; 1 when it is off
    info,       \* the release it is about; 0: none
    fd,         \* where the file its curl writes to is now
    orphans,    \* children of killed processes, by release and what they do
    staged,     \* the release of the staged daemon; 0: not staged
    marker,     \* pending-daemon-restage
    shared,     \* history: the AppImages two were at the download of at once
    forgotten   \* history: the marker was lost

files   == <<file, fd, orphans>>
history == <<shared, forgotten>>
vars    == <<kind, latest, app, files, at, runs, info, staged, marker, history>>

Releases == 1 .. Newest
Nowhere  == "nowhere"

\* A curl that has not opened its file, has it open under the name of a download
\* or as the AppImage, or as a file without a name. Or a script root runs.
Orphans == Releases \X {"start", "download", "app", "pkexec"}

TypeOK ==
    /\ kind \in {"AppImage", "Package"}
    /\ latest \in Releases
    /\ app \in [release : Releases, whole : BOOLEAN]
    /\ file \in [Releases -> {"absent", "growing", "whole"}]
    /\ at \in [Updaters -> {"off", "idle", "download", "curl", "verify",
                            "install", "mark", "restage", "clear"}]
    /\ runs \in [Updaters -> Releases]
    /\ info \in [Updaters -> Releases \cup {0}]
    /\ \A u \in Updaters : at[u] \in {"download", "curl", "verify", "install",
                                      "mark"} => info[u] # 0
    /\ fd \in [Updaters -> {"start", "download", "app", "gone", Nowhere}]
    /\ \A u \in Updaters : (fd[u] = Nowhere) = (at[u] # "curl")
    /\ orphans \subseteq Orphans
    /\ staged \in Releases \cup {0} /\ marker \in BOOLEAN
    /\ shared \subseteq Releases /\ forgotten \in BOOLEAN

\* What is installed may be a build newer than the latest release.
Init ==
    /\ kind \in {"AppImage", "Package"}
    /\ latest = 1 /\ app \in [release : Releases, whole : {TRUE}]
    /\ file = [r \in Releases |-> "absent"]
    /\ at = [u \in Updaters |-> "off"] /\ runs = [u \in Updaters |-> 1]
    /\ info = [u \in Updaters |-> 0] /\ fd = [u \in Updaters |-> Nowhere]
    /\ orphans = {}
    /\ staged \in {0, app.release} /\ (kind = "Package" => staged = 0)
    /\ marker = FALSE
    /\ shared = {} /\ forgotten = FALSE
-----------------------------------------------------------------------------
(***************************************************************************)
(* The release.                                                            *)
(***************************************************************************)
NewRelease ==
    /\ latest < Newest /\ latest' = latest + 1
    /\ UNCHANGED <<kind, app, files, at, runs, info, staged, marker, history>>

\* check_latest_release: kept by a window for as long as it is open, and asked
\* once by a command line.
Check(u) ==
    /\ at[u] = "idle" /\ (u # Window => info[u] = 0)
    /\ info' = [info EXCEPT ![u] = latest]
    /\ UNCHANGED <<kind, latest, app, files, at, runs, staged, marker, history>>

check_not_downgrade(target, current, allow) == allow \/ target > current

Goto(u, point) == at' = [at EXCEPT ![u] = point]

\* The window stays, the command line ends with its update.
Done(u) ==
    IF u = Window
    THEN Goto(u, "idle") /\ UNCHANGED <<runs, info>>
    ELSE /\ Goto(u, "off")
         /\ runs' = [runs EXCEPT ![u] = 1] /\ info' = [info EXCEPT ![u] = 0]

\* The file of a release is removed, by its name. Who has it open writes on.
Remove(u) ==
    /\ file' = [file EXCEPT ![info[u]] = "absent"]
    /\ fd' = [w \in Updaters |->
                IF w = u THEN Nowhere
                ELSE IF fd[w] = "download" /\ info[w] = info[u] THEN "gone"
                ELSE fd[w]]
    /\ orphans' = orphans \ {<<info[u], "download">>}

\* A file that was left is removed, and the signature of the release fetched.
\* The command line has --allow-downgrade.
Begin(u) ==
    /\ at[u] = "idle" /\ info[u] # 0
    /\ \E allow \in IF u = Window THEN {FALSE} ELSE BOOLEAN :
         check_not_downgrade(info[u], runs[u], allow)
    /\ Remove(u)
    /\ Goto(u, "download")
    /\ UNCHANGED <<kind, latest, app, runs, info, staged, marker, history>>

\* No signature, no space, a failed check: an error. A download goes with it, but
\* for the AppImage that could not be made executable.
Fails(u) ==
    /\ at[u] \in {"download", "verify", "install"}
    /\ \/ /\ at[u] = "download" \/ (at[u] = "install" /\ kind = "AppImage")
          /\ UNCHANGED files
       \/ at[u] # "download" /\ Remove(u)
    /\ Done(u)
    /\ UNCHANGED <<kind, latest, app, staged, marker, history>>
-----------------------------------------------------------------------------
(***************************************************************************)
(* The download. A release has one file name, in the directory of the      *)
(* AppImage or in the cache of the user, and curl is a process of its own, *)
(* which goes on when the one that started it is killed.                   *)
(***************************************************************************)
Spawn(u) ==
    /\ at[u] = "download"
    /\ fd' = [fd EXCEPT ![u] = "start"]
    /\ Goto(u, "curl")
    /\ UNCHANGED <<kind, latest, app, file, orphans, runs, info, staged, marker,
                   history>>

\* Another process than those of S, or a curl nobody waits for, is at it.
Contended(r, S) ==
    \/ <<r, "download">> \in orphans
    \/ \E w \in Updaters \ S :
         info[w] = r /\ at[w] \in {"download", "curl", "verify", "install"}

\* A curl of release r, which the processes S wait for, opens its file with the
\* first of the content, and truncates one that is there.
Opens(r, S) ==
    /\ file' = [file EXCEPT ![r] = "growing"]
    /\ shared' = IF kind = "AppImage" /\ Contended(r, S)
                 THEN shared \cup {r} ELSE shared

\* The file it has open is truncated (--retry), or has all of the content.
Writes(r, place, whole) ==
    /\ file' = IF place = "download"
               THEN [file EXCEPT ![r] = IF whole THEN "whole" ELSE "growing"]
               ELSE file
    /\ app' = IF place = "app" THEN [app EXCEPT !.whole = whole] ELSE app

CurlOpens(u) ==
    /\ at[u] = "curl" /\ fd[u] = "start"
    /\ Opens(info[u], {u})
    /\ fd' = [fd EXCEPT ![u] = "download"]
    /\ UNCHANGED <<kind, latest, app, orphans, at, runs, info, staged, marker,
                   forgotten>>

CurlRetries(u) ==
    /\ at[u] = "curl" /\ fd[u] \in {"download", "app"}
    /\ Writes(info[u], fd[u], FALSE)
    /\ UNCHANGED <<kind, latest, fd, orphans, at, runs, info, staged, marker,
                   history>>

\* It ends, with all of the release in the file or not: it is another file than
\* the one that was signed, or another process has truncated it meanwhile.
CurlEnds(u) ==
    /\ at[u] = "curl"
    /\ \/ Writes(info[u], fd[u], TRUE)
       \/ UNCHANGED <<file, app>>
    /\ fd' = [fd EXCEPT ![u] = Nowhere]
    /\ Goto(u, "verify")
    /\ UNCHANGED <<kind, latest, orphans, runs, info, staged, marker, history>>

\* It fails, and the file of that name is removed.
CurlFails(u) ==
    /\ at[u] = "curl"
    /\ Remove(u)
    /\ Done(u)
    /\ UNCHANGED <<kind, latest, app, staged, marker, history>>

\* Mutant: the signature is not asked for.
Verify_Not(u) ==
    /\ at[u] = "verify" /\ file[info[u]] # "absent"
    /\ Goto(u, "install")
    /\ UNCHANGED <<kind, latest, app, files, runs, info, staged, marker, history>>

\* verify_download: the size, the signature and the checksum of what is there.
Verify(u) ==
    /\ at[u] = "verify" /\ file[info[u]] = "whole"
    /\ Goto(u, "install")
    /\ UNCHANGED <<kind, latest, app, files, runs, info, staged, marker, history>>
-----------------------------------------------------------------------------
(***************************************************************************)
(* The installation.                                                       *)
(***************************************************************************)
\* apply_appimage_update: a rename, of whatever the file now holds. Who has it
\* open writes to the AppImage.
Rename(u) ==
    LET r == info[u]
    IN  /\ at[u] = "install" /\ kind = "AppImage" /\ file[r] # "absent"
        /\ app' = [release |-> r, whole |-> file[r] = "whole"]
        /\ file' = [file EXCEPT ![r] = "absent"]
        /\ fd' = [w \in Updaters |->
                    IF fd[w] = "download" /\ info[w] = r THEN "app"
                    ELSE IF fd[w] = "app" THEN "gone" ELSE fd[w]]
        /\ orphans' =
             {o \in orphans : o[2] # "app" /\ o # <<r, "download">>} \cup
             {o \in {<<r, "app">>} : <<r, "download">> \in orphans}
        /\ Goto(u, "mark")
        /\ UNCHANGED <<kind, latest, runs, info, staged, marker, history>>

\* Mutant: the AppImage leaves no marker.
Mark_Not(u) ==
    /\ at[u] = "mark"
    /\ Done(u)
    /\ UNCHANGED <<kind, latest, app, files, staged, marker, history>>

\* mark_pending_restage: without a configuration directory, or when the write
\* fails, there is no marker, and no error.
Mark(u) ==
    /\ at[u] = "mark"
    /\ marker' \in {marker, TRUE}
    /\ forgotten' = ~marker'
    /\ Done(u)
    /\ UNCHANGED <<kind, latest, app, files, staged, shared>>

\* pkexec_staged: root copies the file, and installs the copy if its checksum
\* is the verified one. The file is removed.
PkexecStaged(u) ==
    /\ at[u] = "install" /\ kind = "Package" /\ file[info[u]] = "whole"
    /\ app' = [release |-> info[u], whole |-> TRUE]
    /\ Remove(u)
    /\ Done(u)
    /\ UNCHANGED <<kind, latest, staged, marker, history>>
-----------------------------------------------------------------------------
(***************************************************************************)
(* Starts and ends.                                                        *)
(***************************************************************************)
\* maybe_finish_pending_restage, in the desktop application, unless it starts
\* hidden: with the marker, and a daemon staged, a restage; with none staged, no
\* marker any more.
Start(u) ==
    /\ at[u] = "off" /\ app.whole
    /\ runs' = [runs EXCEPT ![u] = app.release]
    /\ info' = [info EXCEPT ![u] = 0]
    /\ \E looks \in IF u = Window THEN BOOLEAN ELSE {FALSE} :
         /\ Goto(u, IF looks /\ marker /\ staged # 0 THEN "restage" ELSE "idle")
         /\ marker' = (marker /\ (looks => staged # 0))
    /\ UNCHANGED <<kind, latest, app, files, staged, shared, forgotten>>

\* Another build than the AppImage is started, and takes the marker away.
StartOther ==
    /\ marker /\ marker' = FALSE
    /\ forgotten' = (forgotten \/ staged # 0)
    /\ UNCHANGED <<kind, latest, app, files, at, runs, info, staged, shared>>

\* enable-daemon copies the daemon of the bundle that runs.
Restage(u) ==
    /\ at[u] = "restage"
    /\ staged' = runs[u]
    /\ forgotten' = (forgotten /\ runs[u] # app.release)
    /\ Goto(u, "clear")
    /\ UNCHANGED <<kind, latest, app, files, runs, info, marker, shared>>

\* No password: the marker stays for the next start.
RestageFails(u) ==
    /\ at[u] = "restage"
    /\ Goto(u, "idle")
    /\ UNCHANGED <<kind, latest, app, files, runs, info, staged, marker, history>>

\* The marker may be of an update made since, and the daemon not the one staged.
Clear(u) ==
    /\ at[u] = "clear"
    /\ marker' = FALSE
    /\ forgotten' = (forgotten \/ staged # runs[u] \/ runs[u] # app.release)
    /\ Goto(u, "idle")
    /\ UNCHANGED <<kind, latest, app, files, runs, info, staged, shared>>

\* The user turns the service on: the daemon of the running bundle.
EnableDaemon(u) ==
    /\ u = Window /\ at[u] = "idle" /\ kind = "AppImage" /\ staged # runs[u]
    /\ staged' = runs[u]
    /\ forgotten' = (forgotten \/ (runs[u] # app.release /\ ~marker))
    /\ UNCHANGED <<kind, latest, app, files, at, runs, info, marker, shared>>

\* An AppImage that does not start any more is downloaded again by hand.
Reinstall ==
    /\ ~app.whole
    /\ app' \in [release : app.release .. Newest, whole : {TRUE}]
    /\ fd' = [w \in Updaters |-> IF fd[w] = "app" THEN "gone" ELSE fd[w]]
    /\ orphans' = {o \in orphans : o[2] # "app"}
    /\ forgotten' = TRUE
    /\ UNCHANGED <<kind, latest, file, at, runs, info, staged, marker, shared>>

\* What the children of a process are at when it ends.
Left(u) ==
    {o \in Orphans :
        \/ at[u] = "curl" /\ o = <<info[u], fd[u]>>
        \/ at[u] = "install" /\ kind = "Package" /\ o = <<info[u], "pkexec">>
        \/ at[u] = "restage" /\ o = <<runs[u], "pkexec">>}

\* A process ends, or is killed at any point. Its children go on, or are killed
\* with it.
Quit(u) ==
    /\ at[u] # "off"
    /\ forgotten' = (forgotten \/ (at[u] = "mark" /\ ~marker))
    /\ info' = [info EXCEPT ![u] = 0] /\ runs' = [runs EXCEPT ![u] = 1]
    /\ fd' = [fd EXCEPT ![u] = Nowhere]
    /\ \E left \in {{}, Left(u)} :
         /\ orphans' = orphans \cup left
         /\ left = {} \/ Cardinality(orphans') <= MaxOrphans
    /\ Goto(u, "off")
    /\ UNCHANGED <<kind, latest, app, file, staged, marker, shared>>
-----------------------------------------------------------------------------
(***************************************************************************)
(* Children nobody waits for. Two at the same point of one release count   *)
(* as one.                                                                 *)
(***************************************************************************)
OrphanOpens(r) ==
    /\ <<r, "start">> \in orphans
    /\ Opens(r, {})
    /\ orphans' = (orphans \ {<<r, "start">>}) \cup {<<r, "download">>}
    /\ UNCHANGED <<kind, latest, app, fd, at, runs, info, staged, marker,
                   forgotten>>

OrphanRetries(o) ==
    /\ o[2] \in {"download", "app"}
    /\ Writes(o[1], o[2], FALSE)
    /\ UNCHANGED <<kind, latest, fd, orphans, at, runs, info, staged, marker,
                   history>>

OrphanEnds(o) ==
    /\ Writes(o[1], o[2], TRUE) \/ UNCHANGED <<file, app>>
    /\ orphans' = orphans \ {o}
    /\ UNCHANGED <<kind, latest, fd, at, runs, info, staged, marker, history>>

\* The password is given after all.
OrphanInstalls(r) ==
    /\ kind = "Package" /\ <<r, "pkexec">> \in orphans /\ file[r] = "whole"
    /\ app' = [release |-> r, whole |-> TRUE]
    /\ orphans' = orphans \ {<<r, "pkexec">>}
    /\ UNCHANGED <<kind, latest, file, fd, at, runs, info, staged, marker,
                   history>>

OrphanRestages(r) ==
    /\ kind = "AppImage" /\ <<r, "pkexec">> \in orphans
    /\ staged' = r
    /\ forgotten' = (forgotten \/ r # app.release)
    /\ orphans' = orphans \ {<<r, "pkexec">>}
    /\ UNCHANGED <<kind, latest, app, file, fd, at, runs, info, marker, shared>>

Update(u) ==
    \/ Check(u) \/ Begin(u) \/ Fails(u) \/ Spawn(u) \/ CurlOpens(u)
    \/ CurlRetries(u) \/ CurlEnds(u) \/ CurlFails(u) \/ Verify(u)
    \/ Rename(u) \/ Mark(u) \/ PkexecStaged(u)

Orphan ==
    \/ \E r \in Releases :
         OrphanOpens(r) \/ OrphanInstalls(r) \/ OrphanRestages(r)
    \/ \E o \in orphans : OrphanRetries(o) \/ OrphanEnds(o)

Next ==
    \/ NewRelease \/ StartOther \/ Reinstall \/ Orphan
    \/ \E u \in Updaters :
         \/ Update(u) \/ Start(u) \/ Quit(u)
         \/ Restage(u) \/ RestageFails(u) \/ Clear(u) \/ EnableDaemon(u)

Spec == Init /\ [][Next]_vars
-----------------------------------------------------------------------------
(***************************************************************************)
(* Properties.                                                             *)
(***************************************************************************)

\* A program that is installed is all there, however downloads fail, are killed,
\* left behind or go on without the process that started them: for a package
\* whatever two processes do at once, for an AppImage unless a curl opened the
\* download of that release while another process, or another curl, was at it,
\* which its rename, unlike the installation by root, does not look at again.
WholeApp == app.whole \/ (kind = "AppImage" /\ app.release \in shared)

\* "the next launch will refresh it": a staged daemon of another release than the
\* AppImage is always to be refreshed, also after failed restages, hidden starts
\* and more updates; but not when the marker could not be written, an update was
\* killed before it, another build was started, the AppImage was replaced by
\* hand, or a restage was one of an older release than is installed by its end.
RestageToCome ==
    kind = "AppImage" /\ staged \notin {0, app.release} /\ ~forgotten =>
        marker \/ \E u \in Updaters : at[u] = "mark"
=============================================================================
