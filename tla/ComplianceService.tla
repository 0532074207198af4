------------------------- MODULE ComplianceService --------------------------
(***************************************************************************)
(* The compliance service (compliance-service/src) and the record it keeps *)
(* in the compliance registry, for one subject.  Deposits are counted by   *)
(* the poll loop and by the REST route, both async; a suspicious pattern   *)
(* asks for a review on chain.  Operators screen the subject with          *)
(* POST /screen, and the rescreen loop does so when the clearance is due.  *)
(* All submissions are signed with the one screener key.                   *)
(***************************************************************************)
EXTENDS Naturals, FiniteSets, FiniteSetsExt

CONSTANTS
    StructuringMaxCount,   \* sub-threshold deposits in a window that raise an alert
    RescreenInterval,      \* get_rescreening_interval
    ClearanceTime,         \* 180 days, the expiry submitOnChain asks for
    ReviewCooldown,        \* REVIEW_REQUEST_COOLDOWN_SECS
    MaxClock,              \* bound: time
    MaxFlags,              \* bound: alerts in flight
    MaxUnalerted           \* bound: deposits counted by the history variable

ASSUME ComplianceAssumption ==
    /\ StructuringMaxCount \in Nat \ {0}
    /\ RescreenInterval \in Nat /\ ClearanceTime \in Nat /\ ReviewCooldown \in Nat
    /\ MaxClock \in Nat /\ MaxFlags \in Nat /\ MaxUnalerted \in Nat

VARIABLES
    clock,
    record,       \* the registry's record of the subject: [status, expires, at]
    screenedAt,   \* LastScreenedAt of the service's key, 0 for never
    reviewedAt,   \* ReviewRequestedAt, 0 for never
    tickList,     \* sub-threshold deposits in the subject's list of ticks
    flagging,     \* flag() calls whose request_review is in flight: a bag by kind
    pollBusy,     \* the poll loop awaits a flag it raised
    tracked,      \* subject is in trackedSubjects
    rescreen,     \* what the rescreen loop is doing: [at, verdict]
    screen,       \* the POST /screen being handled: [at, verdict]
    listed,       \* the subject is on the sanctions list
    unalerted,    \* history: sub-threshold deposits of the window since an alert
    discarded     \* history: the late reset of an alert threw newer deposits away

complianceVars == <<clock, record, screenedAt, reviewedAt, tickList, flagging, pollBusy, tracked,
                    rescreen, screen, listed, unalerted, discarded>>
registryVars == <<record, screenedAt, reviewedAt>>
watchVars == <<tickList, flagging, pollBusy, unalerted, discarded>>
screeningVars == <<tracked, rescreen, screen>>

Decisions == {"Unscreened", "Cleared", "Flagged", "Blocked", "PendingReview"}
NotScreening == [at |-> "idle", verdict |-> "none"]

ComplianceInit ==
    /\ clock = 1
    /\ record = [status |-> "none", expires |-> 0, at |-> 0]
    /\ screenedAt = 0 /\ reviewedAt = 0
    /\ tickList = 0 /\ flagging = [structuring |-> 0, rapid |-> 0] /\ pollBusy = "no"
    /\ tracked = FALSE /\ rescreen = NotScreening /\ screen = NotScreening
    /\ listed \in BOOLEAN /\ unalerted = 0 /\ discarded = FALSE

TimePasses ==
    /\ clock < MaxClock
    /\ clock' = clock + 1
    /\ UNCHANGED <<registryVars, watchVars, screeningVars, listed>>

-----------------------------------------------------------------------------
(* The registry *)

\* submit_screening_result by the service's key, which is no admin's.
Accepts(status) ==
    /\ status # "Unscreened"
    /\ screenedAt = 0 \/ clock >= screenedAt + RescreenInterval
SubmitScreeningResult(status) ==
    IF Accepts(status)
    THEN /\ record' = [status |-> status, expires |-> clock + ClearanceTime, at |-> clock]
         /\ screenedAt' = clock
         /\ UNCHANGED reviewedAt
    ELSE UNCHANGED registryVars

\* request_review replaces any record, within the limits of its cooldown.
RequestReview ==
    IF reviewedAt = 0 \/ clock >= reviewedAt + ReviewCooldown
    THEN /\ record' = [status |-> "PendingReview", expires |-> 0, at |-> clock]
         /\ reviewedAt' = clock
         /\ UNCHANGED screenedAt
    ELSE UNCHANGED registryVars

-----------------------------------------------------------------------------
(* Deposits and withdrawals *)

InFlight(kind) == flagging[kind]
Raise(kind) == [flagging EXCEPT ![kind] = @ + 1]

\* Mutant: one deposit too many.
MoreThanMax(n) == n > StructuringMaxCount
Suspicious(n) == n >= StructuringMaxCount

\* recordDeposit up to its await: the deposit is in the list, and when the list is
\* long enough an alert goes out.  The poll loop waits for it, the route's caller does.
RecordDeposit(from) ==
    LET n == Min({tickList + 1, StructuringMaxCount})     \* beyond it nothing differs
    IN  /\ from = "poll" => pollBusy = "no"
        /\ unalerted < MaxUnalerted
        /\ tickList' = n
        /\ IF Suspicious(n)
           THEN /\ InFlight("structuring") < MaxFlags
                /\ flagging' = Raise("structuring")
                /\ pollBusy' = IF from = "poll" THEN "structuring" ELSE pollBusy
                /\ unalerted' = 0
           ELSE /\ unalerted' = unalerted + 1
                /\ UNCHANGED <<flagging, pollBusy>>
        /\ UNCHANGED <<clock, registryVars, discarded, screeningVars, listed>>

\* recordWithdraw: a deposit less than a minute old makes a rapid cycle.
RecordWithdraw ==
    /\ pollBusy = "no" /\ tickList > 0 /\ InFlight("rapid") < MaxFlags
    /\ flagging' = Raise("rapid") /\ pollBusy' = "rapid"
    /\ UNCHANGED <<clock, registryVars, tickList, unalerted, discarded, screeningVars, listed>>

\* requestReviewOnChain is sent, or fails and is logged; then a structuring alert's
\* caller empties the list, with whatever has come into it meanwhile.
FlagDone(kind, sent) ==
    /\ InFlight(kind) > 0
    /\ flagging' = [flagging EXCEPT ![kind] = @ - 1]
    /\ tickList' = IF kind = "structuring" THEN 0 ELSE tickList
    /\ pollBusy' \in IF pollBusy = kind /\ InFlight(kind) > 1 THEN {"no", kind}
                     ELSE {IF pollBusy = kind THEN "no" ELSE pollBusy}
    /\ discarded' = (discarded \/ (kind = "structuring" /\ unalerted > 0))
    /\ IF sent THEN RequestReview ELSE UNCHANGED registryVars
    /\ UNCHANGED <<clock, unalerted, screeningVars, listed>>

\* The window (an hour) has passed: the old ticks no longer count.
WindowPasses ==
    /\ tickList > 0 \/ unalerted > 0
    /\ tickList' = 0 /\ unalerted' = 0
    /\ UNCHANGED <<clock, registryVars, flagging, pollBusy, discarded, screeningVars, listed>>

-----------------------------------------------------------------------------
(* Screening *)

\* MockScreener.screen: a listed subject is blocked; otherwise the context decides.
Verdicts(context) ==
    IF listed THEN {"Blocked"} ELSE IF context THEN {"Cleared", "Flagged"} ELSE {"Cleared"}

\* POST /screen: the screener's verdict or the operator's own, if it is a decision.
PostScreen(override) ==
    /\ screen.at = "idle"
    /\ \E verdict \in IF override = "none" THEN Verdicts(TRUE) ELSE {override} :
         screen' = [at |-> "screened", verdict |-> verdict]
    /\ UNCHANGED <<clock, registryVars, watchVars, tracked, rescreen, listed>>

\* submitOnChain is simulated; a contract error here is the route's 500.
ScreenSimulated ==
    /\ screen.at = "screened"
    /\ screen' = IF Accepts(screen.verdict) THEN [screen EXCEPT !.at = "sent"] ELSE NotScreening
    /\ UNCHANGED <<clock, registryVars, watchVars, tracked, rescreen, listed>>
\* The transaction runs after the answer: nobody looks whether it succeeded.
ScreenApplied ==
    /\ screen.at = "sent"
    /\ SubmitScreeningResult(screen.verdict)
    /\ tracked' = TRUE /\ screen' = NotScreening
    /\ UNCHANGED <<clock, watchVars, rescreen, listed>>

\* rescreenOnce reads the record and finds it due.
RescreenDue ==
    LET dueAt == IF record.expires # 0 THEN record.expires ELSE record.at + RescreenInterval
    IN  /\ rescreen.at = "idle" /\ tracked /\ record.status # "none" /\ clock >= dueAt
        /\ rescreen' = [at |-> "due", verdict |-> "none"]
        /\ UNCHANGED <<clock, registryVars, watchVars, tracked, screen, listed>>
RescreenScreens ==
    /\ rescreen.at = "due"
    /\ \E verdict \in Verdicts(FALSE) : rescreen' = [at |-> "screened", verdict |-> verdict]
    /\ UNCHANGED <<clock, registryVars, watchVars, tracked, screen, listed>>
RescreenSimulated ==
    /\ rescreen.at = "screened"
    /\ rescreen' = IF Accepts(rescreen.verdict) THEN [rescreen EXCEPT !.at = "sent"] ELSE NotScreening
    /\ UNCHANGED <<clock, registryVars, watchVars, tracked, screen, listed>>
RescreenApplied ==
    /\ rescreen.at = "sent"
    /\ SubmitScreeningResult(rescreen.verdict)
    /\ rescreen' = NotScreening
    /\ UNCHANGED <<clock, watchVars, tracked, screen, listed>>

\* The provider times out, the RPC fails, or the service is restarted.
ScreeningFails ==
    /\ screen # NotScreening \/ rescreen # NotScreening
    /\ \/ screen' = NotScreening /\ UNCHANGED <<tracked, rescreen>>
       \/ rescreen' = NotScreening /\ UNCHANGED <<tracked, screen>>
    /\ UNCHANGED <<clock, registryVars, watchVars, listed>>
ServiceRestarts ==
    /\ tickList' = 0 /\ flagging' = [structuring |-> 0, rapid |-> 0] /\ pollBusy' = "no"
    /\ tracked' = FALSE /\ rescreen' = NotScreening /\ screen' = NotScreening
    /\ unalerted' = 0
    /\ UNCHANGED <<clock, registryVars, discarded, listed>>

ComplianceNext ==
    \/ TimePasses \/ WindowPasses \/ RecordWithdraw \/ ServiceRestarts \/ ScreeningFails
    \/ \E from \in {"poll", "route"} : RecordDeposit(from)
    \/ \E kind \in {"structuring", "rapid"}, sent \in BOOLEAN : FlagDone(kind, sent)
    \/ \E override \in Decisions \cup {"none"} : PostScreen(override)
    \/ ScreenSimulated \/ ScreenApplied
    \/ RescreenDue \/ RescreenScreens \/ RescreenSimulated \/ RescreenApplied

ComplianceSpec == ComplianceInit /\ [][ComplianceNext]_complianceVars

-----------------------------------------------------------------------------
(* Properties *)

\* Enough sub-threshold deposits in a window raise an alert, unless the reset that
\* follows an alert's answer threw away deposits which came after the alert.
StructuringIsFlagged == ~discarded => unalerted < StructuringMaxCount

=============================================================================
