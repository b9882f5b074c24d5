------------------------ MODULE DispatchAlertsProofs ------------------------
(***************************************************************************)
(* Safety of DispatchAlerts for every set of worlds a tick may find.       *)
(*                                                                         *)
(* The two properties are not inductive: what the row says now was decided *)
(* one step or more before, by a tick that read the row before it.  RowKept *)
(* and TickKept say that neither the row nor a tick under way loses a      *)
(* deploy failure that a row has recorded.                                 *)
(***************************************************************************)
EXTENDS DispatchAlerts, TLAPS

\* A recorded, unresolved deploy failure is in the newest row.
RowKept == open = "recorded" => "deploy_failed" \in last.fingerprint

\* It is also in the row that the running tick is going to write.
TickKept ==
  tick.pc # "idle" /\ open = "recorded" => "deploy_failed" \in tick.row.fingerprint

\* A recovery is about nothing, a suppressed row about something.
TickShape ==
  /\ tick.pc = "recovery" => tick.row.fingerprint = {}
  /\ tick.row.channel = "suppressed" => tick.row.fingerprint # {}

AInv == AlertTypeOK /\ RowKept /\ TickKept /\ TickShape /\ AllClearIsEarned

-----------------------------------------------------------------------------
(***************************************************************************)
(* The decision                                                            *)
(***************************************************************************)

\* What a tick decides upon: only kinds of alerts, and a deploy failure of the
\* row is among them unless the tick heard of a success.
LEMMA DecisionType ==
  ASSUME NEW w, NEW report, NEW fp \in Fingerprint
  PROVE  CarryForward(DecideAlerts(w, report), report, fp) \in Fingerprint
BY DEF CarryForward, DecideAlerts, Fingerprint, Kinds

LEMMA FailureIsCarried ==
  ASSUME NEW w, NEW report, NEW fp, report # "success", "deploy_failed" \in fp
  PROVE  "deploy_failed" \in CarryForward(DecideAlerts(w, report), report, fp)
BY DEF CarryForward

\* The channel that decidePosting implies is one a row may have, for the set it
\* is about.
LEMMA PostingKinds ==
  ASSUME NEW fp
  PROVE  /\ Posting(fp) \in {"alert", "none", "alert_suppressed", "recovery_silent", "recovery"}
         /\ Posting(fp) \in {"alert", "alert_suppressed"} => fp # {}
         /\ Posting(fp) \in {"recovery", "recovery_silent"} => fp = {}
BY DEF Posting

\* Evaluate leaves the tick where its decision takes it.
LEMMA TickAfterEvaluate ==
  ASSUME AlertTypeOK, Evaluate
  PROVE  \E report \in {world.deploy, "absent"} :
           LET fp == CarryForward(DecideAlerts(world, report), report, last.fingerprint)
           IN  /\ open' = CASE report = "success" -> "no"
                            [] report = "failure" /\ open = "no" -> "unrecorded"
                            [] OTHER -> open
               /\ \/ tick' = NoTick
                  \/ /\ tick' \in [pc : {"alert", "recovery", "record"}, row : Row]
                     /\ tick'.row.fingerprint = fp
                     /\ tick'.pc = "alert" => fp # {}
                     /\ tick'.pc = "recovery" => fp = {}
                     /\ tick'.row.channel = "suppressed" => fp # {}
<1>1. PICK report \in {world.deploy, "absent"}, space \in BOOLEAN :
        LET fp     == CarryForward(DecideAlerts(world, report), report, last.fingerprint)
            act    == Posting(fp)
            silent == "allotment_collapse" \in last.fingerprint
                        /\ world.turns # "allotment"
            To(pc, channel) == [pc |-> pc, row |-> [fingerprint |-> fp, channel |-> channel]]
        IN  /\ tick' =
                 CASE act = "none"             -> NoTick
                   [] act = "alert_suppressed" -> To("record", "suppressed")
                   [] act = "recovery_silent"  -> To("record", "none")
                   [] act = "recovery" ->
                        IF silent \/ ~space THEN To("record", "none") ELSE To("recovery", "none")
                   [] act = "alert" ->
                        IF space THEN To("alert", "chat") ELSE To("record", "github")
            /\ open' = CASE report = "success" -> "no"
                         [] report = "failure" /\ open = "no" -> "unrecorded"
                         [] OTHER -> open
  BY DEF Evaluate
<1> DEFINE fp == CarryForward(DecideAlerts(world, report), report, last.fingerprint)
<1>2. fp \in Fingerprint
  BY DecisionType DEF AlertTypeOK, Row
<1>3. /\ Posting(fp) \in {"alert", "none", "alert_suppressed", "recovery_silent", "recovery"}
      /\ Posting(fp) \in {"alert", "alert_suppressed"} => fp # {}
      /\ Posting(fp) \in {"recovery", "recovery_silent"} => fp = {}
  BY PostingKinds
<1> HIDE DEF fp
<1>4. \/ tick' = NoTick
      \/ /\ tick' \in [pc : {"alert", "recovery", "record"}, row : Row]
         /\ tick'.row.fingerprint = fp
         /\ tick'.pc = "alert" => fp # {}
         /\ tick'.pc = "recovery" => fp = {}
         /\ tick'.row.channel = "suppressed" => fp # {}
  BY <1>1, <1>2, <1>3 DEF Row, fp
<1> QED BY <1>1, <1>4 DEF fp

-----------------------------------------------------------------------------
(***************************************************************************)
(* The invariant                                                           *)
(***************************************************************************)

LEMMA AlertsInit == Init => AInv
BY DEF Init, AInv, AlertTypeOK, RowKept, TickKept, TickShape, AllClearIsEarned, Row,
       Fingerprint, NoTick

LEMMA AlertsStep == AInv /\ [Next]_vars => AInv'
<1> SUFFICES ASSUME AInv, [Next]_vars PROVE AInv'
  OBVIOUS
<1> USE DEF AInv, RowKept, TickKept, TickShape, AllClearIsEarned
<1>t. NoTick \in [pc : {"idle", "alert", "recovery", "record"}, row : Row]
  BY DEF NoTick, Row, Fingerprint
<1>1. CASE Evaluate
  <2>1. PICK report \in {world.deploy, "absent"} :
          LET fp == CarryForward(DecideAlerts(world, report), report, last.fingerprint)
          IN  /\ open' = CASE report = "success" -> "no"
                           [] report = "failure" /\ open = "no" -> "unrecorded"
                           [] OTHER -> open
              /\ \/ tick' = NoTick
                 \/ /\ tick' \in [pc : {"alert", "recovery", "record"}, row : Row]
                    /\ tick'.row.fingerprint = fp
                    /\ tick'.pc = "alert" => fp # {}
                    /\ tick'.pc = "recovery" => fp = {}
                    /\ tick'.row.channel = "suppressed" => fp # {}
    BY <1>1, TickAfterEvaluate
  <2>2. AlertTypeOK'
    BY <1>1, <2>1, <1>t DEF Evaluate, AlertTypeOK, NoTick
  <2>3. open' = "recorded" => open = "recorded" /\ report # "success"
    BY <2>1
  <2>4. TickKept'
    BY <2>1, <2>3, FailureIsCarried DEF NoTick
  <2>5. RowKept' /\ AllClearIsEarned'
    BY <1>1, <2>3 DEF Evaluate
  <2>6. TickShape'
    BY <2>1 DEF NoTick
  <2> QED BY <2>2, <2>4, <2>5, <2>6
<1>2. CASE PostAlert
  BY <1>2, <1>t DEF PostAlert, AlertTypeOK, NoTick, Row
<1>3. CASE PostRecovery
  <2>1. PICK sent, known \in BOOLEAN :
          /\ cleared' = IF sent THEN open ELSE cleared
          /\ told' = IF sent THEN {} ELSE told
          /\ tick' = [tick EXCEPT !.pc = "record",
                                  !.row.channel = IF known THEN "chat" ELSE "none"]
    BY <1>3 DEF PostRecovery
  <2>2. /\ tick' \in [pc : {"record"}, row : Row]
        /\ tick'.row.fingerprint = {}
        /\ tick'.row.channel # "suppressed"
    BY <1>3, <2>1 DEF PostRecovery, AlertTypeOK, Row
  <2>3. open # "recorded"
    BY <1>3 DEF PostRecovery
  <2> QED BY <1>3, <2>1, <2>2, <2>3 DEF PostRecovery, AlertTypeOK, Fingerprint
<1>4. CASE Record
  BY <1>4, <1>t DEF Record, AlertTypeOK, NoTick, Row
<1>5. CASE RecordFails
  BY <1>5, <1>t DEF RecordFails, AlertTypeOK, NoTick, Row
<1>6. CASE TickDies
  BY <1>6, <1>t DEF TickDies, AlertTypeOK, NoTick
<1>7. CASE WorldChanges
  BY <1>7 DEF WorldChanges, AlertTypeOK
<1>8. ASSUME NEW fp \in recent, WindowPasses(fp) PROVE AInv'
  BY <1>8 DEF WindowPasses, AlertTypeOK
<1>9. CASE UNCHANGED vars
  BY <1>9 DEF vars, AlertTypeOK
<1> QED BY <1>1, <1>2, <1>3, <1>4, <1>5, <1>6, <1>7, <1>8, <1>9 DEF Next

THEOREM AlertsInvariant == Spec => []AInv
BY AlertsInit, AlertsStep, PTL DEF Spec

\* Every variable of the tick keeps its type; in particular a suppressed row is
\* about something, which is what makes the recovery after it silent.
THEOREM AlertsTypeCorrect == Spec => []AlertTypeOK
<1>1. AInv => AlertTypeOK
  BY DEF AInv
<1> QED BY <1>1, AlertsInvariant, PTL

\* No recovery is announced while a recorded deploy failure is unresolved.
THEOREM AllClearsAreEarned == Spec => []AllClearIsEarned
<1>1. AInv => AllClearIsEarned
  BY DEF AInv
<1> QED BY <1>1, AlertsInvariant, PTL

\* A recorded deploy failure stays in the durable state until a success.
THEOREM DeployFailuresStand == Spec => DeployFailureStands
<1> DEFINE Stands == open = "recorded" /\ open' # "no" => "deploy_failed" \in last'.fingerprint
<1>1. AInv /\ AInv' /\ [Next]_vars => [Stands]_vars
  <2> SUFFICES ASSUME AInv, AInv', Next PROVE Stands
    OBVIOUS
  <2>1. open = "recorded" /\ open' # "no" => open' = "recorded"
    BY DEF Next, Evaluate, PostAlert, PostRecovery, Record, RecordFails, TickDies,
           WorldChanges, WindowPasses
  <2> QED BY <2>1 DEF AInv, RowKept
<1>2. DeployFailureStands <=> [][Stands]_vars
  BY DEF DeployFailureStands
<1> HIDE DEF Stands
<1> QED BY <1>1, <1>2, AlertsInvariant, PTL DEF Spec
=============================================================================
