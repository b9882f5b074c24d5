--------------------------- MODULE DispatchAlerts ---------------------------
(***************************************************************************)
(* The hourly alert tick of lib/dispatch-alerts.ts: conditions seen in a   *)
(* snapshot, the durable state in event_log, and what the operator hears   *)
(* of it, through Google Chat or through GitHub's failure mail.            *)
(*                                                                         *)
(* The workflow's concurrency group runs one tick at a time.  A            *)
(* fingerprint is the set of the kinds it lists.                           *)
(***************************************************************************)
EXTENDS Naturals, FiniteSets

CONSTANT Worlds   \* the states of the Hub a tick may find

Kinds == {"worker_stale", "tables_missing", "agy_error_streak",
          "allotment_collapse", "deploy_failed"}

\* configured: dispatch enabled and a worker secret present; fresh: some worker
\* is; failing: the newest STREAK_N runs failed; turns: what served chat in the
\* last 24 hours; deploy: how the newest decisive deploy ended.
World == [configured : BOOLEAN, tables : BOOLEAN, fresh : BOOLEAN,
          failing : BOOLEAN, turns : {"allotment", "metered", "few"},
          deploy : {"success", "failure"}]

ASSUME WorldsAssumption == Worlds \subseteq World /\ Worlds # {}

VARIABLES
  world,      \* what a snapshot would see now
  last,       \* the newest dispatch.alert row
  recent,     \* fingerprints delivered within REALERT_MS, by their rows
  tick,       \* the running tick
  told,       \* history: the kinds of the operator's latest news
  open,       \* history: the latest known deploy failure, if no success is known
  cleared     \* history: the value of open when a recovery was last posted

vars == <<world, last, recent, tick, told, open, cleared>>

Fingerprint == SUBSET Kinds
Row == [fingerprint : Fingerprint, channel : {"chat", "github", "suppressed", "none"}]
NoTick == [pc |-> "idle", row |-> [fingerprint |-> {}, channel |-> "none"]]

AlertTypeOK ==
  /\ world \in Worlds
  /\ last \in Row
  /\ recent \subseteq Fingerprint \ {{}}
  /\ tick \in [pc : {"idle", "alert", "recovery", "record"}, row : Row]
  /\ told \in Fingerprint
  /\ open \in {"no", "recorded", "unrecorded"}
  /\ cleared \in {"never", "no", "recorded", "unrecorded"}
  /\ last.channel = "suppressed" => last.fingerprint # {}
  /\ tick.pc = "alert" => tick.row.fingerprint # {}

Init ==
  /\ world \in Worlds
  /\ last = [fingerprint |-> {}, channel |-> "none"]   \* no row reads the same
  /\ recent = {}
  /\ tick = NoTick
  /\ told = {} /\ open = "no" /\ cleared = "never"

-----------------------------------------------------------------------------
(***************************************************************************)
(* Deciding                                                                *)
(***************************************************************************)

\* decideAlerts.  report is the deploy conclusion of this tick, or "absent".
DecideAlerts(w, report) ==
  (IF w.configured /\ ~w.tables THEN {"tables_missing"} ELSE {})
  \cup (IF w.configured /\ w.tables /\ ~w.fresh THEN {"worker_stale"} ELSE {})
  \cup (IF w.failing THEN {"agy_error_streak"} ELSE {})
  \cup (IF report = "failure" THEN {"deploy_failed"} ELSE {})
  \cup (IF w.turns = "metered" THEN {"allotment_collapse"} ELSE {})

\* Mutant: a failure that is not reported again is over.
CarryNothing(alerts, report, fp) == alerts

\* applyDeployCarryForward: only a success ends a recorded deploy failure.
CarryForward(alerts, report, fp) ==
  alerts \cup (IF report = "success" THEN {} ELSE fp \cap {"deploy_failed"})

\* Mutants: an empty set is posted too; a standing condition is not posted again.
PostingAll(fp) == IF fp \notin recent THEN "alert" ELSE "none"
PostingOnChange(fp) ==
  CASE fp # {} /\ last.fingerprint = fp  -> "none"
    [] fp # {} /\ last.fingerprint # fp  -> IF fp \in recent THEN "alert_suppressed" ELSE "alert"
    [] fp = {} /\ last.fingerprint # {}  ->
         IF last.channel = "suppressed" THEN "recovery_silent" ELSE "recovery"
    [] OTHER -> "none"

\* decidePosting.
Posting(fp) ==
  CASE fp # {} /\ fp \notin recent -> "alert"
    [] fp # {} /\ fp \in recent ->
         IF last.fingerprint = fp THEN "none" ELSE "alert_suppressed"
    [] fp = {} /\ last.fingerprint # {} ->
         IF last.channel = "suppressed" THEN "recovery_silent" ELSE "recovery"
    [] OTHER -> "none"

-----------------------------------------------------------------------------
(***************************************************************************)
(* The tick: runDispatchAlertTick                                          *)
(***************************************************************************)

\* The snapshot, the last row and the decision; space is what resolveSpace
\* finds.  The Actions lookup may come back without a conclusion.
Evaluate ==
  /\ tick.pc = "idle"
  /\ \E report \in {world.deploy, "absent"}, space \in BOOLEAN :
       LET fp     == CarryForward(DecideAlerts(world, report), report, last.fingerprint)
           act    == Posting(fp)
           silent == "allotment_collapse" \in last.fingerprint
                       /\ world.turns # "allotment"
           To(pc, channel) == [pc |-> pc, row |-> [fingerprint |-> fp, channel |-> channel]]
       IN  /\ tick' =
                CASE act = "none"             -> NoTick
                  [] act = "alert_suppressed" -> To("record", "suppressed")
                  [] act = "recovery_silent"  -> To("record", "none")
                  [] act = "recovery" ->
                       IF silent \/ ~space THEN To("record", "none") ELSE To("recovery", "none")
                  [] act = "alert" ->
                       IF space THEN To("alert", "chat") ELSE To("record", "github")
           /\ open' = CASE report = "success" -> "no"
                        [] report = "failure" /\ open = "no" -> "unrecorded"
                        [] OTHER -> open
  /\ UNCHANGED <<world, last, recent, told, cleared>>

\* postToChat.  A post that fails, or is reported to have failed, ends the
\* tick unrecorded and fails the workflow run, whose mail reaches the operator.
PostAlert ==
  /\ tick.pc = "alert"
  /\ told' = tick.row.fingerprint
  /\ tick' = [tick EXCEPT !.pc = "record"] \/ tick' = NoTick
  /\ UNCHANGED <<world, last, recent, open, cleared>>

\* The recovery is recorded whether or not it was sent; sent tells what the
\* operator got, known what the tick believes.
PostRecovery ==
  /\ tick.pc = "recovery"
  /\ \E sent, known \in BOOLEAN :
       /\ known => sent
       /\ told' = IF sent THEN {} ELSE told
       /\ cleared' = IF sent THEN open ELSE cleared
       /\ tick' = [tick EXCEPT !.pc = "record",
                               !.row.channel = IF known THEN "chat" ELSE "none"]
  /\ UNCHANGED <<world, last, recent, open>>

\* recordState; the response then fails the workflow run if there is no space.
Record ==
  /\ tick.pc = "record"
  /\ last' = tick.row
  /\ recent' = IF tick.row.fingerprint # {} /\ tick.row.channel \in {"chat", "github"}
               THEN recent \cup {tick.row.fingerprint} ELSE recent
  /\ open' = IF "deploy_failed" \in tick.row.fingerprint THEN "recorded" ELSE open
  /\ told' = IF tick.row.channel = "github" THEN tick.row.fingerprint ELSE told
  /\ tick' = NoTick
  /\ UNCHANGED <<world, cleared>>

\* The state write is best-effort.
RecordFails ==
  /\ tick.pc = "record"
  /\ told' = IF tick.row.channel = "github" THEN tick.row.fingerprint ELSE told
  /\ tick' = NoTick
  /\ UNCHANGED <<world, last, recent, open, cleared>>

\* The instance dies or the tick runs into its 300 seconds.
TickDies ==
  /\ tick.pc # "idle"
  /\ tick' = NoTick
  /\ UNCHANGED <<world, last, recent, told, open, cleared>>

WorldChanges ==
  /\ world' \in Worlds \ {world}
  /\ UNCHANGED <<last, recent, tick, told, open, cleared>>

WindowPasses(fp) ==
  /\ fp \in recent
  /\ recent' = recent \ {fp}
  /\ UNCHANGED <<world, last, tick, told, open, cleared>>

Next ==
  \/ Evaluate \/ PostAlert \/ PostRecovery \/ Record \/ RecordFails \/ TickDies
  \/ WorldChanges
  \/ \E fp \in recent : WindowPasses(fp)

Spec == Init /\ [][Next]_vars

\* The cron calls a tick every hour, time passes, and a tick does not die at the
\* same step for ever.
Fairness ==
  /\ WF_vars(Evaluate) /\ WF_vars(PostRecovery)
  /\ SF_vars(PostAlert) /\ SF_vars(Record \/ RecordFails)
  /\ \A fp \in {DecideAlerts(w, r) \cup d : w \in Worlds, r \in {"failure", "absent"},
                                            d \in {{}, {"deploy_failed"}}} :
       WF_vars(WindowPasses(fp))

FairSpec == Spec /\ Fairness

-----------------------------------------------------------------------------
(***************************************************************************)
(* Properties                                                              *)
(***************************************************************************)

\* A recorded deploy failure leaves the durable state only when a success was
\* reported, whatever other conditions come and go, whatever posts and writes
\* fail and however often the lookup comes back empty (applyDeployCarryForward).
DeployFailureStands ==
  [][open = "recorded" /\ open' # "no" => "deploy_failed" \in last'.fingerprint]_vars

\* No recovery is announced while a recorded deploy failure is unresolved.
AllClearIsEarned == cleared # "recorded"

\* A condition that stays is brought to the operator, although it may have
\* flapped and been suppressed before, and although posts fail.
AlertReaches ==
  \A k \in Kinds \ {"deploy_failed"} :
    <>[](k \in DecideAlerts(world, "absent")) => <>[](k \in told)
=============================================================================
