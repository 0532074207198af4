---------------------------- MODULE PageActions -----------------------------
(***************************************************************************)
(* What happens behind the buttons of a page: a click builds a transaction *)
(* on the account's current sequence number, has the wallet sign it, sends *)
(* it, waits for it, says how it went and loads the page again.  A handler *)
(* is a chain of awaits, so other clicks, the page's own loads and the     *)
(* ledger come between its steps.  One behaviour is about one page.        *)
(***************************************************************************)
EXTENDS Naturals, FiniteSets, PageHandlers

CONSTANTS
    MaxClicks,    \* bound: clicks of one behaviour
    MaxReloads,   \* bound: loads started by a timer, an input or Refresh
    MaxBatches,   \* bound: clicks that start a batch
    BatchSize     \* bound: invoices of a batch

ASSUME PageAssumption ==
    MaxClicks \in Nat /\ MaxReloads \in Nat /\ MaxBatches \in Nat /\ BatchSize \in Nat \ {0}

VARIABLES
    shown,       \* the page
    pageLoading, \* its loading state
    busy,        \* its busy flags that are set
    jobs,        \* the handler each click started
    loads,       \* the loads, by who started them: 0 the mount, then the jobs,
                 \* then the timers, inputs and refreshes
    sequence,    \* the account's sequence number
    version,     \* version of the data on chain
    view,        \* version on the screen, 0 before the first answer
    owed,        \* the newest own change the page has already shown
    crossed,     \* history: another load was under way when it was shown
    sent         \* the transactions sent: their number, fate and end of wait

pageVars == <<shown, pageLoading, busy, jobs, loads, sequence, version, view, owed, crossed, sent>>

JobIds == 1 .. MaxClicks
ReloadIds == MaxClicks + 1 .. MaxClicks + MaxReloads
LoadIds == {0} \cup JobIds \cup ReloadIds

KindOf(h) == [flag |-> h.flag, gate |-> h.gate, sends |-> h.sends, reload |-> h.reload]
Kinds == {KindOf(h) : h \in shown.handlers}
Flags(page) == {h.flag : h \in page.handlers}

NoLoad == [at |-> "none", version |-> 0]
Done == [at |-> "done", version |-> 0]
Asked == [at |-> "asked", version |-> 0]
NoJob == [at |-> "none", kind |-> KindOf(Handler("", "none", "open", "nothing", "none")),
          item |-> 0, number |-> 0, made |-> 0, told |-> "none"]

PageInit ==
    /\ shown \in Pages
    /\ pageLoading = ("mount" \in shown.loads)
    /\ busy = {}
    /\ jobs = [j \in JobIds |-> NoJob]
    /\ loads = [l \in LoadIds |-> IF l = 0 /\ pageLoading THEN Asked ELSE NoLoad]
    /\ sequence = 0 /\ version = 1 /\ view = 0 /\ owed = 0 /\ crossed = FALSE
    /\ sent = {}

Clicked == {j \in JobIds : jobs[j].at # "none"}
Batches == {j \in Clicked : jobs[j].kind.sends = "batch"}
Running(j) == jobs[j].at \notin {"none", "over"}
InFlight(l) == loads[l].at \in {"asked", "read"}

-----------------------------------------------------------------------------
(* Clicks *)

AnyFlag(kind) == TRUE      \* mutant: the button forgets its busy flag
Enabled(kind) == kind.flag \notin busy

NoGate(kind) == TRUE       \* mutant: the button is there while the page loads
Offered(kind) ==
    CASE kind.gate = "loaded" -> ~pageLoading
      [] kind.gate = "rows" -> view > 0
      [] OTHER -> TRUE

\* The handler sets its flag and starts to build, or skips to its announcement.
Click(kind) ==
    /\ Cardinality(Clicked) < MaxClicks
    /\ kind.sends = "batch" => Cardinality(Batches) < MaxBatches
    /\ Enabled(kind) /\ Offered(kind)
    /\ busy' = busy \cup ({kind.flag} \ {"none"})
    /\ jobs' = [jobs EXCEPT ![Cardinality(Clicked) + 1] =
                  [NoJob EXCEPT !.at = IF kind.sends = "nothing" THEN "announce" ELSE "build",
                                !.kind = kind, !.item = 1]]
    /\ UNCHANGED <<shown, pageLoading, loads, sequence, version, view, owed, crossed, sent>>

\* `finally': the flag is cleared, whoever set it.  A batch does so before it reloads
\* the page, the others after.
IsBatch(j) == jobs[j].kind.sends = "batch"
Finally(j) == busy' = busy \ {jobs[j].kind.flag}
FinallyAfterReload(j) == IF IsBatch(j) THEN UNCHANGED busy ELSE Finally(j)

\* An exception: told, and the next of a batch, or the end.
LastItem(j) == ~IsBatch(j) \/ jobs[j].item = BatchSize
Throw(j) ==
    IF LastItem(j)
    THEN /\ jobs' = [jobs EXCEPT ![j].told = "failed",
                       ![j].at = IF IsBatch(j) THEN "reload" ELSE "over"]
         /\ Finally(j)
    ELSE /\ jobs' = [jobs EXCEPT ![j].told = "failed", ![j].item = @ + 1, ![j].at = "build"]
         /\ UNCHANGED busy

\* build...Tx: the account is read and the call simulated.
Build(j) ==
    /\ jobs[j].at = "build"
    /\ jobs' = [jobs EXCEPT ![j].at = "sign", ![j].number = sequence + 1]
    /\ UNCHANGED <<shown, pageLoading, busy, loads, sequence, version, view, owed, crossed, sent>>

\* The wallet signs, and the transaction is sent; on the market pages the hook
\* throws between the two.
SignAndSend(j) ==
    /\ jobs[j].at = "sign" /\ jobs[j].kind.sends # "hook"
    /\ jobs' = [jobs EXCEPT ![j].at = "wait", ![j].number = 0]
    /\ sent' = sent \cup {[job |-> j, item |-> jobs[j].item, number |-> jobs[j].number,
                           fate |-> "queued", left |-> FALSE]}
    /\ UNCHANGED <<shown, pageLoading, busy, loads, sequence, version, view, owed, crossed>>

\* The build fails, the wallet refuses, or the hook throws.
NotSent(j) ==
    /\ jobs[j].at \in {"build", "sign"}
    /\ Throw(j)
    /\ UNCHANGED <<shown, pageLoading, loads, sequence, version, view, owed, crossed, sent>>

MyTx(j) == CHOOSE t \in sent : t.job = j /\ t.item = jobs[j].item
With(t, changed) == (sent \ {t}) \cup {changed}

\* The ledger takes a queued transaction: one whose number is not the next is bad;
\* the others use the number up, whether the call succeeds or not.
LedgerTakes(t, succeeds) ==
    /\ t.fate = "queued"
    /\ LET next == t.number = sequence + 1 IN
       /\ sequence' = IF next THEN sequence + 1 ELSE sequence
       /\ version' = IF next /\ succeeds THEN version + 1 ELSE version
       /\ sent' = With(t, [t EXCEPT !.number = 0,
                                    !.fate = IF ~next THEN "bad"
                                             ELSE IF succeeds THEN "applied" ELSE "failed"])
       /\ jobs' = IF next /\ succeeds THEN [jobs EXCEPT ![t.job].made = version'] ELSE jobs
    /\ UNCHANGED <<shown, pageLoading, busy, loads, view, owed, crossed>>

\* submitTx resolves.
AtOnce(j) ==    \* mutant: submitTx is not awaited
    /\ jobs[j].at = "wait"
    /\ jobs' = [jobs EXCEPT ![j].at = "announce"]
    /\ UNCHANGED <<shown, pageLoading, busy, loads, sequence, version, view, owed, crossed, sent>>
Confirmed(j) ==
    /\ jobs[j].at = "wait" /\ MyTx(j).fate = "applied"
    /\ jobs' = [jobs EXCEPT ![j].at = "announce"]
    /\ UNCHANGED <<shown, pageLoading, busy, loads, sequence, version, view, owed, crossed, sent>>

\* submitTx throws: the transaction is bad or failed, or the wait for it ends
\* unanswered (module Transaction).
SubmitThrows(j) ==
    /\ jobs[j].at = "wait"
    /\ sent' = IF MyTx(j).fate \in {"bad", "failed"} THEN sent
               ELSE With(MyTx(j), [MyTx(j) EXCEPT !.left = TRUE])
    /\ Throw(j)
    /\ UNCHANGED <<shown, pageLoading, loads, sequence, version, view, owed, crossed>>

\* toast.success, and the next of a batch or the reload.
Announce(j) ==
    /\ jobs[j].at = "announce"
    /\ jobs' = IF LastItem(j)
               THEN [jobs EXCEPT ![j].told = "success", ![j].at = "reload"]
               ELSE [jobs EXCEPT ![j].told = "success", ![j].item = @ + 1, ![j].at = "build"]
    /\ IF IsBatch(j) /\ LastItem(j) THEN Finally(j) ELSE UNCHANGED busy
    /\ UNCHANGED <<shown, pageLoading, loads, sequence, version, view, owed, crossed, sent>>

\* The page now shows change m of this user.
Shows(m, others) ==
    /\ owed' = IF m > owed THEN m ELSE owed
    /\ crossed' = IF m > owed THEN \E l \in others : InFlight(l) ELSE crossed

\* The handler asks for the page's data again, or has nothing to ask.
Reload(j) ==
    /\ jobs[j].at = "reload"
    /\ LET reload == jobs[j].kind.reload IN
       /\ jobs' = [jobs EXCEPT ![j].at = IF reload \in {"none", "local"} THEN "over" ELSE "await"]
       /\ IF reload \in {"none", "local"} THEN FinallyAfterReload(j) ELSE UNCHANGED busy
       /\ pageLoading' = (pageLoading \/ reload = "load")
       /\ view' = IF reload = "local" /\ jobs[j].made > view THEN jobs[j].made ELSE view
       /\ IF reload = "local" THEN Shows(jobs[j].made, LoadIds) ELSE UNCHANGED <<owed, crossed>>
       /\ loads' = CASE reload = "swr" ->
                            [l \in LoadIds |-> IF l = j THEN Asked
                                               ELSE IF loads[l] = NoLoad THEN NoLoad ELSE Done]
                     [] reload \in {"load", "read"} -> [loads EXCEPT ![j] = Asked]
                     [] OTHER -> loads
    /\ UNCHANGED <<shown, sequence, version, sent>>

-----------------------------------------------------------------------------
(* Loads *)

\* The interval of the page ends, an input of its load changes, or Refresh is clicked.
IsEffect == "effect" \in shown.loads
LoadAgain(l) ==
    /\ shown.loads \cap {"timer", "input", "effect"} # {} \/ ("refresh" \in shown.loads /\ ~pageLoading)
    /\ l \in ReloadIds /\ loads[l] = NoLoad
    /\ loads' = [m \in LoadIds |-> IF m = l THEN Asked
                                    ELSE IF IsEffect /\ m \in ReloadIds /\ InFlight(m) THEN Done
                                    ELSE loads[m]]
    /\ pageLoading' = (pageLoading \/ ~IsEffect)
    /\ UNCHANGED <<shown, busy, jobs, sequence, version, view, owed, crossed, sent>>

LoadReads(l) ==
    /\ loads[l] = Asked
    /\ loads' = [loads EXCEPT ![l] = [at |-> "read", version |-> version]]
    /\ UNCHANGED <<shown, pageLoading, busy, jobs, sequence, version, view, owed, crossed, sent>>

SetsLoading(l) ==
    IF l \in JobIds THEN jobs[l].kind.reload = "load" ELSE l = 0 \/ ~IsEffect
Settle(l, told) ==
    /\ loads' = [loads EXCEPT ![l] = Done]
    /\ pageLoading' = (pageLoading /\ ~SetsLoading(l))
    /\ IF l \in JobIds
       THEN jobs' = [jobs EXCEPT ![l].at = "over", ![l].told = told] /\ FinallyAfterReload(l)
       ELSE UNCHANGED <<jobs, busy>>

\* The answer replaces what the page shows, in the order the answers come.
LoadAnswers(l) ==
    /\ loads[l].at = "read"
    /\ view' = loads[l].version
    /\ IF l \in JobIds /\ jobs[l].made <= loads[l].version
       THEN Shows(jobs[l].made, LoadIds \ {l}) ELSE UNCHANGED <<owed, crossed>>
    /\ Settle(l, IF l \in JobIds THEN jobs[l].told ELSE "none")
    /\ UNCHANGED <<shown, sequence, version, sent>>

\* A load catches its error; reads in the handler's own try are announced as a
\* failure of the action.  What the load had read before makes no difference.
LoadFails(l) ==
    /\ loads[l] = Asked
    /\ Settle(l, IF l \notin JobIds THEN "none"
                 ELSE IF jobs[l].kind.reload = "read" THEN "failed" ELSE jobs[l].told)
    /\ UNCHANGED <<shown, sequence, version, view, owed, crossed, sent>>

\* A fetch SWR has dropped leaves its handler's await at once.
LoadDropped(j) ==
    /\ jobs[j].at = "await" /\ loads[j] = Done
    /\ jobs' = [jobs EXCEPT ![j].at = "over"] /\ FinallyAfterReload(j)
    /\ UNCHANGED <<shown, pageLoading, loads, sequence, version, view, owed, crossed, sent>>

PageNext ==
    \/ \E kind \in Kinds : Click(kind)
    \/ \E j \in JobIds : \/ Build(j) \/ SignAndSend(j) \/ NotSent(j) \/ Confirmed(j)
                         \/ SubmitThrows(j) \/ Announce(j) \/ Reload(j) \/ LoadDropped(j)
    \/ \E t \in sent, succeeds \in BOOLEAN : LedgerTakes(t, succeeds)
    \/ \E l \in LoadIds : LoadAgain(l) \/ LoadReads(l) \/ LoadAnswers(l) \/ LoadFails(l)

PageSpec == PageInit /\ [][PageNext]_pageVars

-----------------------------------------------------------------------------
(* Properties *)

SeparateFlags == Cardinality(Flags(shown)) > 1 \/ "none" \in Flags(shown)

\* A busy flag keeps two transactions of one page from being built on the same
\* sequence number: one is refused as `bad' only where the page has independent
\* flags (or none), or where the wait for an earlier one ended unanswered.
SequenceClashNeedsTwoFlags ==
    (\E t \in sent : t.fate = "bad") =>
        SeparateFlags \/ \E t \in sent : t.left

\* Where loads of the page may answer out of order: it loads on its own, a button
\* is there during the first load, or two handlers may be at work.
LoadsMayCross ==
    \/ shown.loads \cap {"timer", "input", "refresh", "effect"} # {}
    \/ SeparateFlags
    \/ "mount" \in shown.loads /\
       \E h \in shown.handlers : h.gate = "open" /\ h.reload # "swr"

\* Once a page has shown the result of this user's action it goes on showing it, or
\* something newer, unless another load was under way when it first did; and that
\* happens only on the pages whose loads may cross.
PageKeepsOwnAction ==
    /\ view < owed => crossed
    /\ crossed => LoadsMayCross

\* What the last announcement of a handler says is so: success means the ledger
\* applied the transaction (except where none is sent), failure that it did not,
\* unless the wait ended unanswered or a read after the success failed.
AnnouncementIsTrue ==
    \A j \in JobIds :
        LET mine == {t \in sent : t.job = j /\ t.item = jobs[j].item} IN
        ~Running(j) =>
            /\ jobs[j].told = "success" =>
                  jobs[j].kind.sends = "nothing" \/ \E t \in mine : t.fate = "applied"
            /\ jobs[j].told = "failed" =>
                  \A t \in mine : t.fate = "applied" => t.left \/ jobs[j].kind.reload = "read"
=============================================================================
