-------------------------- MODULE SettlementSchedule --------------------------
(***************************************************************************)
(* When automatic settlements run (latestScheduledRun and                  *)
(* runScheduledSettlements in                                              *)
(* packages/payments/src/gateway/settlement.service.ts): once for each     *)
(* slot of the configured schedule, whichever worker's tick comes first.   *)
(* Time is in hours since a Monday, 00:00 UTC.  What a run then asks for,  *)
(* tenant by tenant, is requestSettlement in Settlement.                   *)
(***************************************************************************)
EXTENDS Integers, Sequences

CONSTANTS
    Workers,
    Hours,          \* settlementHourEat values an admin may set
    Weekdays,       \* settlementWeekday values, 1 = Monday
    Gaps,           \* how far the clock may jump at once
    Horizon         \* bound: the clock stops here

ASSUME ScheduleAssumption ==
    /\ Hours \subseteq 0..23 /\ Hours # {}
    /\ Weekdays \subseteq 1..7 /\ Weekdays # {}
    /\ Gaps \subseteq Nat /\ Horizon \in Nat

VARIABLES
    now,
    settings,   \* platform_settlement_settings: frequency, hour, weekday
    last,       \* lastScheduledRunAt
    tick,       \* what each worker's tick has read
    runs        \* history: the slots that were run, in order

vars == <<now, settings, last, tick, runs>>

EatOffset == 3
Never == -1000      \* lastScheduledRunAt before the first run

-------------------------------------------------------------------------------

\* Mutant of BackWhenAhead: a slot later today counts as today's.
AsIs(slot, local, step) == slot

BackWhenAhead(slot, local, step) == IF slot > local THEN slot - step ELSE slot

dailySlot(t, hourEat) ==
    LET local == t + EatOffset
    IN  BackWhenAhead((local \div 24) * 24 + hourEat, local, 24) - EatOffset

weeklySlot(t, hourEat, weekday) ==
    LET local == t + EatOffset
        isoToday == ((local \div 24) % 7) + 1
        slot == (local \div 24) * 24 + hourEat - 24 * ((isoToday - weekday + 7) % 7)
    IN  BackWhenAhead(slot, local, 168) - EatOffset

latestScheduledRun(t, s) ==
    CASE s.frequency = "INSTANT" -> t
      [] s.frequency = "DAILY"   -> dailySlot(t, s.hour)
      [] s.frequency = "WEEKLY"  -> weeklySlot(t, s.hour, s.weekday)

-------------------------------------------------------------------------------

Quiet == [pc |-> "idle", now |-> 0, due |-> 0, seen |-> 0, slotted |-> FALSE]

\* A tick reads the time and the settings, and has nothing to do when the schedule is
\* MANUAL or its latest slot has been run.
runScheduledSettlements(w) ==
    LET due == latestScheduledRun(now, settings) IN
    /\ tick[w].pc = "idle"
    /\ settings.frequency # "MANUAL"
    /\ settings.frequency # "INSTANT" => last < due
    /\ tick' = [tick EXCEPT ![w] = [pc |-> "claim", now |-> now, due |-> due, seen |-> last,
                                    slotted |-> settings.frequency # "INSTANT"]]
    /\ UNCHANGED <<now, settings, last, runs>>

\* Mutant of claimSlot: the claiming update has no condition.
ClaimAnyway(w) ==
    /\ tick[w].pc = "claim"
    /\ last' = tick[w].now
    /\ runs' = IF tick[w].slotted THEN Append(runs, tick[w].due) ELSE runs
    /\ tick' = [tick EXCEPT ![w] = Quiet]
    /\ UNCHANGED <<now, settings>>

\* Mutant of claimSlot: the claim is conditional on the slot instead of the run read.
ClaimOnSlot(w) ==
    /\ tick[w].pc = "claim"
    /\ IF last = tick[w].due
       THEN /\ last' = tick[w].now
            /\ runs' = IF tick[w].slotted THEN Append(runs, tick[w].due) ELSE runs
       ELSE UNCHANGED <<last, runs>>
    /\ tick' = [tick EXCEPT ![w] = Quiet]
    /\ UNCHANGED <<now, settings>>

\* The claiming update, conditional on lastScheduledRunAt being what the tick read: of
\* two ticks that read the same, one runs the slot.
claimSlot(w) ==
    /\ tick[w].pc = "claim"
    /\ IF last = tick[w].seen
       THEN /\ last' = tick[w].now
            /\ runs' = IF tick[w].slotted THEN Append(runs, tick[w].due) ELSE runs
       ELSE UNCHANGED <<last, runs>>
    /\ tick' = [tick EXCEPT ![w] = Quiet]
    /\ UNCHANGED <<now, settings>>

Settings == [frequency : {"INSTANT", "DAILY", "WEEKLY", "MANUAL"}, hour : Hours, weekday : Weekdays]

updateSettings ==
    /\ settings' \in Settings
    /\ UNCHANGED <<now, last, tick, runs>>

timePasses ==
    /\ \E d \in Gaps : now + d <= Horizon /\ now' = now + d
    /\ UNCHANGED <<settings, last, tick, runs>>

Init ==
    /\ now = 0
    /\ settings \in Settings
    /\ last = Never
    /\ tick = [w \in Workers |-> Quiet]
    /\ runs = <<>>

Next ==
    \/ \E w \in Workers : runScheduledSettlements(w) \/ claimSlot(w)
    \/ updateSettings
    \/ timePasses

Spec == Init /\ [][Next]_vars

\* The settlement job repeats every five minutes, and what a tick began it finishes.
ScheduleFairness == WF_vars(\E w \in Workers : runScheduledSettlements(w) \/ claimSlot(w))

FairSpec == Spec /\ ScheduleFairness

-------------------------------------------------------------------------------
(* Properties. *)

\* The values of the schedule's variables: no run is recorded in the future.
TypeOK ==
    /\ now \in Nat
    /\ settings \in Settings
    /\ last \in Int /\ last <= now
    /\ tick \in [Workers -> [pc : {"idle", "claim"}, now : Nat, due : Int, seen : Int,
                             slotted : BOOLEAN]]
    /\ runs \in Seq(Int)

\* A daily or weekly slot, by its definition: that hour, on that weekday, in Nairobi.
IsDaily(t, h) == (t + EatOffset) % 24 = h
IsWeekly(t, h, d) == IsDaily(t, h) /\ (((t + EatOffset) \div 24) % 7) + 1 = d

\* latestScheduledRun finds the latest slot, in Nairobi time: it is one, it is not
\* after now, and the next one is.
LatestIsLatest ==
    \A h \in Hours, d \in Weekdays :
        LET daily == dailySlot(now, h)
            weekly == weeklySlot(now, h, d)
        IN  /\ daily <= now /\ IsDaily(daily, h)
            /\ weekly <= now /\ IsWeekly(weekly, h, d)
            /\ \A t \in daily + 1 .. now : ~IsDaily(t, h)
            /\ \A t \in weekly + 1 .. now : ~IsWeekly(t, h, d)

\* "so a restart or an extra tick can't run a daily settlement twice" and "so two workers
\* can't both run it": slots are run at most once, in order, whatever the administrator
\* changes meanwhile.
NoSlotTwice == \A i, j \in DOMAIN runs : i < j => runs[i] < runs[j]

\* What NoSlotTwice rests on: a tick that may still claim saw the run before it, and
\* the last run is no earlier than any slot it or another ran.
ScheduleInv ==
    /\ TypeOK
    /\ NoSlotTwice
    /\ \A i \in DOMAIN runs : runs[i] <= last
    /\ \A w \in Workers : tick[w].pc = "claim" =>
          /\ tick[w].seen <= tick[w].now /\ tick[w].now <= now
          /\ tick[w].due <= tick[w].now
          /\ tick[w].slotted => tick[w].seen < tick[w].due

\* A slot that has come is run, by some tick, unless the schedule is changed first.
Due == settings.frequency \in {"DAILY", "WEEKLY"} /\ last < latestScheduledRun(now, settings)
DueIsRun == Due ~> ~Due

===============================================================================
