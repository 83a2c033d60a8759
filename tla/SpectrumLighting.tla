-------------------------- MODULE SpectrumLighting --------------------------
(***************************************************************************)
(* The lights of a Spectrum keyboard (keyboard.rs): the desktop            *)
(* application, whose jobs a worker thread coalesces and carries out, and  *)
(* the daemon's watchdog (rgb_panic.rs), which repairs what it takes for a *)
(* fault. Each of the two processes has settings of its own; the device is *)
(* one. Of the lighting commands the daemon serves, only the brightness    *)
(* (from the tray) and the repair (from the Fix page) are sent to it.      *)
(***************************************************************************)
(* Not modelled: two repairs at once, and jobs of the daemon's worker that *)
(* meet in one batch.                                                      *)
(***************************************************************************)
EXTENDS Naturals, FiniteSets

CONSTANTS
    Zones,       \* subset of {"keyboard", "front", "rear", "logo"}
    Targets,     \* what an effect can be for
    Colors,      \* effects a client can ask for; "off" is one of them
    Levels,      \* brightness a client can ask for
    Profiles,    \* named profiles
    Cooldown,    \* checks the watchdog leaves out after a repair
    Requests,    \* bound: jobs and edits a client makes
    Faults       \* bound: faults of the device

VARIABLES
    hw,         \* the device: brightness and the effect of every zone
    device,     \* "ok", "blocked" (by its permissions) or "dead"
    cfg,        \* settings of the desktop application
    queue,      \* the batch the jobs in the channel add up to
    at,         \* the worker: "recv", "bright", "effects" or "show"
    work,       \* the batch it carries out
    snap,       \* the settings it is about to show
    owed,       \* what has been changed and not yet asked to show
    dcfg,       \* the daemon's settings
    watch,      \* where the daemon is in a repair, "watch" for nowhere
    by_user,    \* the repair was asked for on the Fix page
    kicked,     \* it has reset the device in this repair
    cooldown,   \* checks the watchdog will leave out
    asked,      \* history: the last effect asked for, for every zone
    mode_asked, \* history: "effects" or "per-key", whatever was asked for last
    lost,       \* history: zones whose last request the coalescing gave up
    waived,     \* history: those given up for something else asked for
    stale,      \* history: the zones were not last shown by the application
    bumped,     \* history: the brightness was not last set by it
    requests,   \* jobs and edits so far
    faults      \* faults so far

deviceVars == <<hw, device>>
workerVars == <<at, work, snap>>
daemonVars == <<dcfg, watch, by_user, kicked, cooldown>>
history    == <<asked, mode_asked, lost, waived, stale, bumped>>
bounds     == <<requests, faults>>
vars == <<deviceVars, cfg, queue, workerVars, owed, daemonVars, history, bounds>>

Paint == "paint"    \* the per-key colours, one for all keys
None  == "none"
White == "white"
AllLevels == 0 .. 9
NoLevel == 10       \* no brightness in a batch

Lights == Colors \cup {White}
Config == [level : AllLevels, zones : [Zones -> Lights],
           painted : BOOLEAN, lighting_mode : {"effects", "per-key"}]

Defaults == [level |-> 9, zones |-> [z \in Zones |-> White],
             painted |-> FALSE, lighting_mode |-> "effects"]

covers(t) ==
    CASE t = "all"     -> Zones
      [] t = "chassis" -> Zones \cap {"front", "rear"}
      [] OTHER         -> Zones \cap {t}

NoBatch == [effects |-> [t \in Targets |-> None], restore |-> FALSE,
            level |-> NoLevel]
Batches == [effects : [Targets -> Colors \cup {None}], restore : BOOLEAN,
            level : AllLevels \cup {NoLevel}]

\* Jobs to be sent for a change of the settings: by the timer of the painted
\* keys, by the GUI thread that goes on, by the thread of a profile (its
\* brightness first, NoLevel once that is sent; threads are told apart by the
\* request they come from).
Owings ==
    {"paint", "now", "load"} \X (AllLevels \cup {NoLevel}) \X (0 .. Requests)

targets(b) == {t \in Targets : b.effects[t] # None}

\* What its effects are about.
zones_of(b) ==
    IF targets(b) = {} THEN {}
    ELSE {"mode"} \cup (UNION {covers(t) : t \in targets(b)})

TypeOK ==
    /\ hw \in [level : AllLevels, zones : [Zones -> Lights \cup {Paint}]]
    /\ device \in {"ok", "blocked", "dead"}
    /\ cfg \in Config /\ dcfg \in Config /\ snap \in Config
    /\ queue \in Batches /\ work \in Batches
    /\ \A b \in {queue, work} :
          /\ "all" \in targets(b) => targets(b) = {"all"}
          /\ b.restore => targets(b) = {}
    /\ at \in {"recv", "bright", "effects", "show"}
    /\ at = "recv" => work = NoBatch
    /\ at # "show" => snap = Defaults
    /\ owed \subseteq Owings
    /\ watch \in {"watch", "bright", "white", "restore", "kick", "verify", "again"}
    /\ kicked \in BOOLEAN /\ by_user \in BOOLEAN
    /\ watch = "watch" => ~by_user /\ ~kicked
    /\ cooldown \in 0 .. Cooldown
    /\ asked \in [Zones -> Lights] /\ mode_asked \in {"effects", "per-key"}
    /\ lost \subseteq Zones /\ waived \subseteq Zones \cup {"mode"}
    /\ stale \in BOOLEAN /\ bumped \in BOOLEAN
    /\ requests \in 0 .. Requests /\ faults \in 0 .. Faults

\* What apply_config sends for the zones.
shown(c) ==
    [z \in Zones |->
        IF z = "keyboard" /\ c.lighting_mode = "per-key" /\ c.painted
        THEN Paint ELSE c.zones[z]]

Init ==
    /\ cfg = Defaults /\ dcfg = Defaults
    /\ hw = [level |-> cfg.level, zones |-> shown(cfg)] /\ device = "ok"
    /\ queue = NoBatch
    /\ at = "recv" /\ work = NoBatch /\ snap = Defaults
    /\ owed = {}
    /\ watch = "watch" /\ by_user = FALSE /\ kicked = FALSE /\ cooldown = 0
    /\ asked = cfg.zones /\ mode_asked = "effects"
    /\ lost = {} /\ waived = {} /\ stale = FALSE /\ bumped = FALSE
    /\ requests = 0 /\ faults = 0
-----------------------------------------------------------------------------
(***************************************************************************)
(* The jobs. The worker takes all that is queued and adds it up; here a    *)
(* job is added up when it is sent.                                        *)
(***************************************************************************)
\* Mutant: a job is forgotten when the next comes.
absorb_effect_Latest(b, t, c) ==
    [b EXCEPT !.restore = FALSE,
              !.effects = [u \in Targets |-> IF u = t THEN c ELSE None]]

\* Mutant: the job for all zones stays when one for a part follows.
absorb_effect_KeepsAll(b, t, c) ==
    [b EXCEPT !.restore = FALSE,
              !.effects = [u \in Targets |-> IF u = t THEN c
                                             ELSE b.effects[u]]]

absorb_effect(b, t, c) ==
    LET dropped == IF t = "all" THEN Targets ELSE {"all"} IN
    [b EXCEPT !.restore = FALSE,
              !.effects = [u \in Targets |-> IF u = t THEN c
                                             ELSE IF u \in dropped THEN None
                                             ELSE b.effects[u]]]

absorb_restore(b) ==
    [b EXCEPT !.restore = TRUE, !.effects = NoBatch.effects]

\* What an effect for t makes the worker give up, or do in another order.
gives_up(b, t) ==
    IF t = "all" THEN {}
    ELSE (UNION {covers(u) : u \in targets(b) \cap {"all"}})
           \cup (IF t \in {"front", "rear"} /\ "chassis" \in targets(b)
                 THEN covers(t) ELSE {})

Asks == requests < Requests /\ requests' = requests + 1 /\ UNCHANGED faults

\* What the GUI thread does, it does one after the other.
Gui == Asks /\ \A o \in owed : o[1] # "now"

SetEffect ==
    /\ Gui
    /\ \E t \in Targets, c \in Colors :
         /\ queue' = absorb_effect(queue, t, c)
         /\ asked' = [z \in Zones |-> IF z \in covers(t) THEN c ELSE asked[z]]
         /\ lost' = (lost \ covers(t)) \cup gives_up(queue, t)
         /\ waived' = waived \ (covers(t) \cup {"mode"})
    /\ mode_asked' = "effects"
    /\ UNCHANGED <<deviceVars, cfg, workerVars, owed, daemonVars, stale, bumped>>

SetBrightness ==
    /\ Gui
    /\ \E l \in Levels : queue' = [queue EXCEPT !.level = l]
    /\ UNCHANGED <<deviceVars, cfg, workerVars, owed, daemonVars, history>>

Reapply ==
    /\ Gui
    /\ queue' = absorb_restore(queue)
    /\ waived' = waived \cup zones_of(queue)
    /\ UNCHANGED <<deviceVars, cfg, workerVars, owed, daemonVars, asked,
                   mode_asked, lost, stale, bumped>>

\* The settings are changed by the GUI thread; the job is sent later. Strokes
\* that follow each other within 90 ms share one, sent after the last of them.
Edits(c, zones, job) ==
    /\ Gui
    /\ cfg' = c
    /\ asked' = zones /\ mode_asked' = c.lighting_mode
    /\ owed' = owed \cup {job}
    /\ UNCHANGED <<deviceVars, queue, workerVars, daemonVars, stale, bumped>>

\* What is asked for and not yet carried out.
InHand == zones_of(queue) \cup (IF at = "recv" THEN {} ELSE zones_of(work))

\* One key painted, or all of them at once.
set_per_key_color ==
    /\ \E sender \in {"paint", "now"} :
          Edits([cfg EXCEPT !.painted = TRUE, !.lighting_mode = "per-key"],
                asked, <<sender, NoLevel, 0>>)
    /\ waived' = (waived \ {"mode"}) \cup (InHand \cap {"mode"})
    /\ UNCHANGED lost

clear_per_key ==
    /\ Edits([cfg EXCEPT !.painted = FALSE, !.lighting_mode = "effects"],
             asked, <<"now", NoLevel, 0>>)
    /\ waived' = waived \ {"mode"}
    /\ UNCHANGED lost

apply_profile ==
    /\ \E p \in Profiles : Edits(p, p.zones, <<"load", p.level, requests>>)
    /\ waived' = InHand
    /\ lost' = {}

\* The brightness of a profile, as it was when the profile was loaded.
OwedLevel ==
    /\ \E o \in owed :
         /\ o[2] # NoLevel
         /\ queue' = [queue EXCEPT !.level = o[2]]
         /\ owed'  = (owed \ {o}) \cup {<<o[1], NoLevel, o[3]>>}
    /\ UNCHANGED <<deviceVars, cfg, workerVars, daemonVars, history, bounds>>

\* restore_lighting_async
OwedRestore ==
    /\ \E o \in owed : o[2] = NoLevel /\ owed' = owed \ {o}
    /\ queue' = absorb_restore(queue)
    /\ waived' = waived \cup zones_of(queue)
    /\ UNCHANGED <<deviceVars, cfg, workerVars, daemonVars, asked, mode_asked,
                   lost, stale, bumped, bounds>>

Owed == OwedLevel \/ OwedRestore
-----------------------------------------------------------------------------
(***************************************************************************)
(* The worker.                                                             *)
(***************************************************************************)
Take ==
    /\ at = "recv" /\ queue # NoBatch
    /\ work' = queue /\ queue' = NoBatch
    /\ at' = "bright"
    /\ UNCHANGED <<deviceVars, cfg, snap, owed, daemonVars, history, bounds>>

\* A failed request ends the batch.
Fails ==
    /\ at \in {"bright", "show"} /\ device # "ok"
    /\ waived' = waived \cup zones_of(work)
    /\ stale' = TRUE /\ bumped' = (bumped \/ work.level # NoLevel)
    /\ at' = "recv" /\ work' = NoBatch /\ snap' = Defaults
    /\ UNCHANGED <<deviceVars, cfg, queue, owed, daemonVars, asked,
                   mode_asked, lost, bounds>>

\* Brightness 0 is left out in a batch with effects.
Bright ==
    /\ at = "bright" /\ device = "ok"
    /\ IF work.level = NoLevel \/ (work.level = 0 /\ targets(work) # {})
       THEN /\ bumped' = (bumped \/ work.level # NoLevel)
            /\ UNCHANGED <<hw, cfg>>
       ELSE /\ hw'  = [hw EXCEPT !.level = work.level]
            /\ cfg' = [cfg EXCEPT !.level = work.level]
            /\ bumped' = FALSE
    /\ at' = "effects"
    /\ UNCHANGED <<device, queue, work, snap, owed, daemonVars, asked,
                   mode_asked, lost, waived, stale, bounds>>

rank(t) ==
    CASE t = "all"  -> 0 [] t = "keyboard" -> 1 [] t = "front" -> 2
      [] t = "rear" -> 3 [] t = "chassis"  -> 4 [] t = "logo"  -> 5

apply_zone_update(c, t, color) ==
    [c EXCEPT !.lighting_mode = "effects",
              !.zones = [z \in Zones |-> IF z \in covers(t) THEN color
                                         ELSE c.zones[z]]]

\* Mutant: what is shown is what was stored before the effect.
Effects_ShowsOld ==
    /\ at = "effects"
    /\ IF targets(work) = {}
       THEN work' = NoBatch /\ at' = "recv" /\ UNCHANGED <<cfg, snap>>
       ELSE /\ \E t \in targets(work) :
                 /\ cfg'  = apply_zone_update(cfg, t, work.effects[t])
                 /\ work' = [work EXCEPT !.effects[t] = None]
            /\ snap' = cfg /\ at' = "show"
    /\ UNCHANGED <<deviceVars, queue, owed, daemonVars, history, bounds>>

\* The effects one by one, each stored and then shown with all that is stored;
\* or the stored settings. Showing them is a step of its own.
Effects ==
    /\ at = "effects"
    /\ \/ /\ targets(work) # {}
          /\ LET t == CHOOSE u \in targets(work) :
                        \A v \in targets(work) : rank(u) <= rank(v) IN
             /\ cfg'  = apply_zone_update(cfg, t, work.effects[t])
             /\ work' = [work EXCEPT !.effects[t] = None]
          /\ snap' = cfg' /\ at' = "show"
       \/ /\ work.restore
          /\ work' = [work EXCEPT !.restore = FALSE]
          /\ snap' = cfg /\ at' = "show" /\ UNCHANGED cfg
       \/ /\ targets(work) = {} /\ ~work.restore
          /\ work' = NoBatch /\ at' = "recv" /\ UNCHANGED <<cfg, snap>>
    /\ UNCHANGED <<deviceVars, queue, owed, daemonVars, history, bounds>>

\* apply_config on the device: a dark one is lit first.
lit(h, c) ==
    [level |-> IF h.level = 0 THEN (IF c.level = 0 THEN 1 ELSE c.level)
                              ELSE h.level,
     zones |-> shown(c)]

Show ==
    /\ at = "show" /\ device = "ok"
    /\ hw' = lit(hw, snap)
    /\ stale' = FALSE
    /\ at' = "effects" /\ snap' = Defaults
    /\ UNCHANGED <<device, cfg, queue, work, owed, daemonVars, asked,
                   mode_asked, lost, waived, bumped, bounds>>
-----------------------------------------------------------------------------
(***************************************************************************)
(* The watchdog of the daemon, which runs as root.                         *)
(***************************************************************************)
expect_on(c) ==
    c.level > 0 /\ (c.painted \/ \E z \in Zones : c.zones[z] # "off")

\* What diagnose() says, in the daemon.
health ==
    IF device = "blocked" THEN "SoftIssue"
    ELSE IF device = "dead" THEN "HardwareBroken"
    ELSE IF hw.level = 0 /\ expect_on(dcfg) THEN "SoftIssue"
    ELSE "Ok"

Daemon(next) ==
    /\ watch' = next
    /\ UNCHANGED <<cfg, queue, workerVars, owed, asked, mode_asked, lost,
                   waived, bounds>>

\* Mutant: a dark device is not looked for, only one that does not answer.
Watch_Dead ==
    /\ watch = "watch"
    /\ IF cooldown > 0
       THEN cooldown' = cooldown - 1 /\ Daemon("watch") /\ UNCHANGED device
       ELSE /\ device # "ok"
            /\ device' = IF device = "blocked" THEN "ok" ELSE device
            /\ Daemon("bright") /\ UNCHANGED cooldown
    /\ UNCHANGED <<hw, dcfg, by_user, kicked, stale, bumped>>

\* Every 15 s. Permissions are repaired first.
Watch ==
    /\ watch = "watch"
    /\ IF cooldown > 0
       THEN cooldown' = cooldown - 1 /\ Daemon("watch") /\ UNCHANGED device
       ELSE /\ health # "Ok"
            /\ device' = IF device = "blocked" THEN "ok" ELSE device
            /\ Daemon("bright") /\ UNCHANGED cooldown
    /\ UNCHANGED <<hw, dcfg, by_user, kicked, stale, bumped>>

\* troubleshoot_lighting: brightness 9, per-key colours cleared and everything
\* static white, stored and shown; and what is stored shown again.
DaemonBright ==
    /\ watch = "bright" /\ device # "dead"
    /\ hw'   = [hw EXCEPT !.level = 9]
    /\ dcfg' = [dcfg EXCEPT !.level = 9]
    /\ bumped' = TRUE
    /\ Daemon("white")
    /\ UNCHANGED <<device, by_user, kicked, cooldown, stale>>

\* The worker may find the device dead before it stores the white, or after.
DaemonWhite ==
    /\ watch = "white"
    /\ \E zones \in {[z \in Zones |-> White]}
                       \cup (IF device = "dead" THEN {dcfg.zones} ELSE {}) :
          dcfg' = [level |-> dcfg.level, zones |-> zones,
                   painted |-> FALSE, lighting_mode |-> "effects"]
    /\ IF device = "dead"
       THEN /\ Daemon(IF kicked THEN "verify" ELSE "kick")
            /\ UNCHANGED <<hw, stale, bumped>>
       ELSE /\ hw' = lit(hw, dcfg')
            /\ stale' = TRUE /\ bumped' = TRUE
            /\ Daemon("restore")
    /\ UNCHANGED <<device, by_user, kicked, cooldown>>

DaemonRestore ==
    /\ watch = "restore" /\ device # "dead"
    /\ hw' = lit(hw, dcfg)
    /\ stale' = TRUE /\ bumped' = TRUE
    /\ Daemon("verify")
    /\ UNCHANGED <<device, dcfg, by_user, kicked, cooldown>>

DaemonFails ==
    /\ watch \in {"bright", "restore"} /\ device = "dead"
    /\ Daemon(IF kicked THEN "verify" ELSE "kick")
    /\ UNCHANGED <<deviceVars, dcfg, by_user, kicked, cooldown, stale, bumped>>

\* A USB reset, which may help, and troubleshoot_lighting once more.
Kick ==
    /\ watch \in {"kick", "again"}
    /\ \/ device' = "ok"
       \/ UNCHANGED device
    /\ kicked' = TRUE
    /\ Daemon("bright")
    /\ UNCHANGED <<hw, dcfg, by_user, cooldown, stale, bumped>>

Ends ==
    /\ Daemon("watch")
    /\ kicked' = FALSE /\ by_user' = FALSE
    /\ cooldown' = IF by_user THEN cooldown ELSE Cooldown

\* The reset itself fails; the second time that is the end.
KickFails ==
    /\ \/ watch = "kick" /\ Daemon("verify") /\ UNCHANGED <<by_user, kicked, cooldown>>
       \/ watch = "again" /\ Ends
    /\ UNCHANGED <<deviceVars, dcfg, stale, bumped>>

\* Still not healthy: a reset, unless one has been done.
Verify ==
    /\ watch = "verify"
    /\ IF health # "Ok" /\ ~kicked
       THEN Daemon("again") /\ UNCHANGED <<by_user, kicked, cooldown>>
       ELSE Ends
    /\ UNCHANGED <<deviceVars, dcfg, stale, bumped>>

\* "Fix" on the Fix page: the same repair, in the handler, whatever the
\* watchdog's cooldown; also on a healthy device when the kernel log has faults.
FixRgbPanic ==
    /\ Asks
    /\ watch = "watch" /\ watch' = "bright"
    /\ device' = IF device = "blocked" THEN "ok" ELSE device
    /\ by_user' = TRUE
    /\ UNCHANGED <<hw, cfg, queue, workerVars, owed, dcfg, kicked, cooldown,
                   history>>

\* The brightness menu of the tray: set and stored by the daemon.
TrayBrightness ==
    /\ Asks
    /\ device # "dead"
    /\ \E l \in Levels : /\ hw'   = [hw EXCEPT !.level = l]
                         /\ dcfg' = [dcfg EXCEPT !.level = l]
    /\ bumped' = TRUE
    /\ UNCHANGED <<device, cfg, queue, workerVars, owed, watch, by_user, kicked,
                   cooldown, asked, mode_asked, lost, waived, stale>>
-----------------------------------------------------------------------------
(***************************************************************************)
(* The device: it goes dark, stops answering, loses its permissions, or    *)
(* answers again after a replug.                                           *)
(***************************************************************************)
Fault ==
    /\ faults < Faults /\ faults' = faults + 1
    /\ \/ hw' = [hw EXCEPT !.level = 0] /\ bumped' = TRUE /\ UNCHANGED device
       \/ device' \in {"ok", "blocked", "dead"} \ {device}
          /\ UNCHANGED <<hw, bumped>>
    /\ UNCHANGED <<cfg, queue, workerVars, owed, daemonVars, asked, mode_asked,
                   lost, waived, stale, requests>>

Client ==
    \/ SetEffect \/ SetBrightness \/ Reapply
    \/ set_per_key_color \/ clear_per_key \/ apply_profile \/ Owed
    \/ FixRgbPanic \/ TrayBrightness

Worker == Take \/ Fails \/ Bright \/ Effects \/ Show

Watchdog ==
    \/ Watch \/ DaemonBright \/ DaemonWhite \/ DaemonRestore \/ DaemonFails
    \/ Kick \/ KickFails \/ Verify

Next == Client \/ Worker \/ Watchdog \/ Fault

Spec == Init /\ [][Next]_vars
FairSpec == Spec /\ WF_vars(Watchdog)
-----------------------------------------------------------------------------
(***************************************************************************)
(* Properties.                                                             *)
(***************************************************************************)
Settled == at = "recv" /\ queue = NoBatch /\ owed = {}

\* "rapid Front+Keyboard tweaks must not drop one zone": however fast jobs come
\* and wherever they are cut into batches, once the worker is done every zone
\* has the effect last asked for it, and the mode is the one last asked for.
\* Excepted are the requests the coalescing gives up: one for all zones when
\* one for a part follows, one for the chassis when one for its front or rear
\* follows, any when the stored settings are to be shown; those of a batch the
\* device refused; and an effect still in hand when keys are painted or a
\* profile is loaded, which is stored over those.
LastRequestWins ==
    Settled =>
        /\ \A z \in Zones \ (lost \cup waived) : cfg.zones[z] = asked[z]
        /\ "mode" \notin waived => cfg.lighting_mode = mode_asked

\* "Zones stay independent": once the worker is done the device shows what is
\* stored, unless the last batch failed or the daemon wrote after it; and its
\* brightness is the one stored, or 1 where 0 is stored and something shown.
SettledShows ==
    Settled =>
        /\ ~stale => hw.zones = shown(cfg)
        /\ ~bumped => hw.level = cfg.level \/ (hw.level = 1 /\ cfg.level = 0)

\* "Soft/USB auto-fix when dark": a device that answers does not stay dark when
\* the daemon's settings want light, whatever the application does at the same
\* time; the tray's brightness 0 is a wish those settings have heard of.
DarkPanicEnds ==
    <>[](device # "dead") =>
        (hw.level = 0 /\ expect_on(dcfg) ~> hw.level > 0 \/ ~expect_on(dcfg))
=============================================================================
