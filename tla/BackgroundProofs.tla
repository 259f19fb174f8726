--------------------------- MODULE BackgroundProofs ---------------------------
(***************************************************************************)
(* Proofs about the jobs the worker repeats, for every set of workers,     *)
(* purchases and recipients and any way the clock advances.  The routers'  *)
(* jobs are in NetworkProofs.                                              *)
(***************************************************************************)
EXTENDS MCBackground, NetworkProofs, SumTheorems

-------------------------------------------------------------------------------
(* SettlementSchedule: no slot is run twice, and a slot found is never in the future, *)
(* for every hour and weekday an administrator may set.                               *)

\* A tick in progress, against the last run.
TickOK(me) ==
    me.pc = "claim" =>
        /\ me.seen <= me.now /\ me.now <= now
        /\ me.due <= me.now
        /\ me.slotted => me.seen < me.due

RunsBeforeLast == \A i \in DOMAIN runs : runs[i] <= last

LEMMA ScheduleInParts ==
  /\ ScheduleInv <=> TypeOK /\ NoSlotTwice /\ RunsBeforeLast /\ \A w \in Workers : TickOK(tick[w])
  /\ ScheduleInv' <=> TypeOK' /\ NoSlotTwice' /\ RunsBeforeLast' /\ (\A w \in Workers : TickOK(tick[w]))'
  BY DEF ScheduleInv, RunsBeforeLast, TickOK

\* The daily slot is less than a day before the time asked for, and never after it.
LEMMA DailySlotIsPast ==
  ASSUME NEW t \in Nat, NEW h \in 0..23
  PROVE  dailySlot(t, h) \in Int /\ dailySlot(t, h) <= t /\ t - 24 < dailySlot(t, h)
<1> DEFINE local == t + EatOffset
<1> DEFINE day == local \div 24
<1>1. local \in Nat /\ day \in Int /\ day * 24 <= local /\ local < day * 24 + 24
  BY DEF EatOffset
<1> QED  BY <1>1 DEF dailySlot, BackWhenAhead, EatOffset

\* The weekly slot is less than a week before the time asked for, and never after it.
LEMMA WeeklySlotIsPast ==
  ASSUME NEW t \in Nat, NEW h \in 0..23, NEW d \in 1..7
  PROVE  weeklySlot(t, h, d) \in Int /\ weeklySlot(t, h, d) <= t /\ t - 168 < weeklySlot(t, h, d)
<1> DEFINE local == t + EatOffset
<1> DEFINE day == local \div 24
<1> DEFINE back == (((day % 7) + 1) - d + 7) % 7
<1>1. local \in Nat /\ day \in Int /\ day * 24 <= local /\ local < day * 24 + 24
  BY DEF EatOffset
<1>2. back \in 0..6
  BY <1>1
<1>3. weeklySlot(t, h, d) = BackWhenAhead(day * 24 + h - 24 * back, local, 168) - EatOffset
  BY DEF weeklySlot
<1> HIDE DEF day, back
<1>4. local = t + 3
  BY DEF EatOffset
<1> QED  BY <1>1, <1>2, <1>3, <1>4 DEF BackWhenAhead, EatOffset

LEMMA SlotIsPast ==
  ASSUME NEW t \in Nat, NEW s \in Settings, s.frequency # "MANUAL"
  PROVE  latestScheduledRun(t, s) \in Int /\ latestScheduledRun(t, s) <= t
<1>1. s.hour \in 0..23 /\ s.weekday \in 1..7
  BY ScheduleAssumption DEF Settings
<1>2. s.frequency \in {"INSTANT", "DAILY", "WEEKLY"}
  BY DEF Settings
<1> QED  BY <1>1, <1>2, DailySlotIsPast, WeeklySlotIsPast DEF latestScheduledRun

LEMMA InitSchedule == Init => ScheduleInv
  BY ScheduleAssumption DEF Init, ScheduleInv, TypeOK, NoSlotTwice, Never, Quiet

\* A tick remembers a time that has come and a slot no later.
LEMMA TickInv ==
  ASSUME ScheduleInv, NEW w \in Workers, runScheduledSettlements(w)
  PROVE  ScheduleInv'
<1> DEFINE due == latestScheduledRun(now, settings)
<1>1. TypeOK /\ NoSlotTwice /\ RunsBeforeLast /\ \A v \in Workers : TickOK(tick[v])
  BY ScheduleInParts
<1>2. due \in Int /\ due <= now
  <2>1. now \in Nat /\ settings \in Settings /\ settings.frequency # "MANUAL"
    BY <1>1 DEF TypeOK, runScheduledSettlements
  <2> QED  BY <2>1, SlotIsPast
<1> HIDE DEF due
<1> DEFINE new == [pc |-> "claim", now |-> now, due |-> due, seen |-> last,
                   slotted |-> settings.frequency # "INSTANT"]
<1>3. /\ tick' = [tick EXCEPT ![w] = new]
      /\ settings.frequency # "INSTANT" => last < due
      /\ UNCHANGED <<now, settings, last, runs>>
  BY DEF runScheduledSettlements, due
<1>4. TypeOK'
  <2>1. now \in Nat /\ last \in Int /\ (settings.frequency # "INSTANT") \in BOOLEAN
    BY <1>1 DEF TypeOK
  <2>2. new \in [pc : {"idle", "claim"}, now : Nat, due : Int, seen : Int, slotted : BOOLEAN]
    BY <2>1, <1>2
  <2> HIDE DEF new
  <2> QED  BY <1>1, <1>3, <2>2 DEF TypeOK
<1>5. TickOK(new)
  <2>1. /\ new.seen = last /\ new.now = now /\ new.due = due
        /\ new.slotted <=> settings.frequency # "INSTANT"
    OBVIOUS
  <2>2. last <= now
    BY <1>1 DEF TypeOK
  <2> HIDE DEF new
  <2> QED  BY <2>1, <2>2, <1>1, <1>2, <1>3 DEF TickOK, TypeOK
<1>6. (\A v \in Workers : TickOK(tick[v]))'
  BY <1>1, <1>3, <1>5 DEF TickOK, TypeOK
<1>7. NoSlotTwice' /\ RunsBeforeLast'
  BY <1>1, <1>3 DEF NoSlotTwice, RunsBeforeLast
<1> QED  BY <1>4, <1>6, <1>7, ScheduleInParts

\* The claim: the slot it runs is after the run it read, and so after every slot run.
LEMMA ClaimSlot ==
  ASSUME ScheduleInv, NEW w \in Workers, claimSlot(w)
  PROVE  ScheduleInv'
<1> DEFINE me == tick[w]
<1>1. TypeOK /\ NoSlotTwice /\ RunsBeforeLast /\ \A v \in Workers : TickOK(tick[v])
  BY ScheduleInParts
<1>2. /\ me.pc = "claim" /\ me.seen <= me.now /\ me.now <= now /\ me.due <= me.now
      /\ me.slotted => me.seen < me.due
      /\ me.now \in Nat /\ me.due \in Int
  BY <1>1 DEF claimSlot, TickOK, TypeOK
<1>3. tick' = [tick EXCEPT ![w] = Quiet] /\ UNCHANGED <<now, settings>>
  BY DEF claimSlot
<1>4. (\A v \in Workers : TickOK(tick[v]))'
  BY <1>1, <1>3 DEF TickOK, TypeOK, Quiet
<1>5. CASE UNCHANGED <<last, runs>>
  <2>1. TypeOK' /\ NoSlotTwice' /\ RunsBeforeLast'
    BY <1>1, <1>3, <1>5 DEF TypeOK, NoSlotTwice, RunsBeforeLast, Quiet
  <2> QED  BY <2>1, <1>4, ScheduleInParts
<1>6. CASE last = me.seen /\ last' = me.now /\ runs' = IF me.slotted THEN Append(runs, me.due) ELSE runs
  <2>1. TypeOK'
    BY <1>1, <1>2, <1>3, <1>6 DEF TypeOK, Quiet
  <2>2. runs \in Seq(Int) /\ \A i \in DOMAIN runs : runs[i] \in Int
    BY <1>1 DEF TypeOK
  <2>3. last \in Int /\ last <= me.now /\ last' = me.now
    BY <1>1, <1>2, <1>6 DEF TypeOK
  <2>4. CASE me.slotted
    <3>1. runs' = Append(runs, me.due) /\ last < me.due
      BY <1>2, <1>6, <2>4
    <3>2. /\ DOMAIN runs' = 1 .. Len(runs) + 1
          /\ runs'[Len(runs) + 1] = me.due
          /\ \A i \in DOMAIN runs : runs'[i] = runs[i]
      BY <2>2, <3>1, <1>2
    <3>3. DOMAIN runs = 1 .. Len(runs) /\ Len(runs) \in Nat
      BY <2>2
    <3>4. \A i \in DOMAIN runs : runs[i] < me.due
      BY <1>1, <1>2, <2>2, <2>3, <3>1 DEF RunsBeforeLast
    <3>5. NoSlotTwice'
      BY <1>1, <3>2, <3>3, <3>4 DEF NoSlotTwice
    <3>6. RunsBeforeLast'
      BY <1>1, <1>2, <2>2, <2>3, <3>2, <3>3 DEF RunsBeforeLast
    <3> QED  BY <2>1, <3>5, <3>6, <1>4, ScheduleInParts
  <2>5. CASE ~me.slotted
    <3>1. runs' = runs
      BY <1>6, <2>5
    <3>2. NoSlotTwice' /\ RunsBeforeLast'
      BY <1>1, <1>2, <2>2, <2>3, <3>1 DEF NoSlotTwice, RunsBeforeLast
    <3> QED  BY <2>1, <3>2, <1>4, ScheduleInParts
  <2> QED  BY <2>4, <2>5
<1> QED  BY <1>5, <1>6 DEF claimSlot

\* Changed settings and a later clock leave every recorded slot where it was.
LEMMA OtherInv ==
  ASSUME ScheduleInv, updateSettings \/ timePasses \/ UNCHANGED vars
  PROVE  ScheduleInv'
<1>1. TypeOK /\ NoSlotTwice /\ RunsBeforeLast /\ \A v \in Workers : TickOK(tick[v])
  BY ScheduleInParts
<1>2. now' \in Nat /\ now <= now' /\ settings' \in Settings /\ UNCHANGED <<last, tick, runs>>
  BY <1>1, ScheduleAssumption DEF updateSettings, timePasses, vars, TypeOK
<1>3. TypeOK'
  BY <1>1, <1>2 DEF TypeOK
<1>4. NoSlotTwice' /\ RunsBeforeLast' /\ (\A v \in Workers : TickOK(tick[v]))'
  BY <1>1, <1>2 DEF NoSlotTwice, RunsBeforeLast, TickOK, TypeOK
<1> QED  BY <1>3, <1>4, ScheduleInParts

\* ScheduleInv is an invariant: what a tick read stays older than the slot it would run.
THEOREM ScheduleCorrect == Spec => []ScheduleInv
<1>1. Init => ScheduleInv
  BY InitSchedule
<1>2. ScheduleInv /\ [Next]_vars => ScheduleInv'
  BY TickInv, ClaimSlot, OtherInv DEF Next
<1> QED  BY <1>1, <1>2, PTL DEF Spec

\* Slots are run at most once and in order (runScheduledSettlements: "so two workers
\* can't both run it").
THEOREM SlotsRunOnce == Spec => []NoSlotTwice
<1>1. ScheduleInv => NoSlotTwice
  BY DEF ScheduleInv
<1> QED  BY <1>1, ScheduleCorrect, PTL

-------------------------------------------------------------------------------
(* The slot found is the latest one. *)

LEMMA HoursInDays ==
  ASSUME NEW x \in Int
  PROVE  x = 24 * (x \div 24) + (x % 24) /\ x % 24 \in 0..23 /\ x \div 24 \in Int
  OBVIOUS

LEMMA DaysInWeeks ==
  ASSUME NEW x \in Int
  PROVE  x = 7 * (x \div 7) + (x % 7) /\ x % 7 \in 0..6 /\ x \div 7 \in Int
  OBVIOUS

\* An hour of a day, and a day of a week, have one quotient and one remainder.
LEMMA HourOfDay ==
  ASSUME NEW q \in Int, NEW r \in 0..23
  PROVE  (24 * q + r) \div 24 = q /\ (24 * q + r) % 24 = r
  OBVIOUS

LEMMA DayOfWeek ==
  ASSUME NEW q \in Int, NEW r \in 0..6
  PROVE  (7 * q + r) \div 7 = q /\ (7 * q + r) % 7 = r
  OBVIOUS

\* Two daily slots are a day apart, two weekly slots a week.
LEMMA DailyApart ==
  ASSUME NEW s \in Int, NEW t \in Int, NEW h \in 0..23, IsDaily(s, h), IsDaily(t, h), s < t
  PROVE  s + 24 <= t
<1>1. s + 3 = 24 * ((s + 3) \div 24) + h /\ (s + 3) \div 24 \in Int
  BY HoursInDays DEF IsDaily, EatOffset
<1>2. t + 3 = 24 * ((t + 3) \div 24) + h /\ (t + 3) \div 24 \in Int
  BY HoursInDays DEF IsDaily, EatOffset
<1> DEFINE p == (s + 3) \div 24
           q == (t + 3) \div 24
<1> HIDE DEF p, q
<1>3. p \in Int /\ q \in Int /\ s + 3 = 24 * p + h /\ t + 3 = 24 * q + h
  BY <1>1, <1>2 DEF p, q
<1> QED  BY <1>3

LEMMA WeeklyApart ==
  ASSUME NEW s \in Int, NEW t \in Int, NEW h \in 0..23, NEW d \in 1..7,
         IsWeekly(s, h, d), IsWeekly(t, h, d), s < t
  PROVE  s + 168 <= t
<1> DEFINE p == (s + 3) \div 24
           q == (t + 3) \div 24
<1>1. s + 3 = 24 * p + h /\ p \in Int /\ p % 7 = d - 1
  BY HoursInDays DEF IsWeekly, IsDaily, EatOffset
<1>2. t + 3 = 24 * q + h /\ q \in Int /\ q % 7 = d - 1
  BY HoursInDays DEF IsWeekly, IsDaily, EatOffset
<1> HIDE DEF p, q
<1> DEFINE m == p \div 7
           n == q \div 7
<1>3. p = 7 * m + (d - 1) /\ m \in Int /\ q = 7 * n + (d - 1) /\ n \in Int
  BY <1>1, <1>2, DaysInWeeks
<1> HIDE DEF m, n
<1> QED  BY <1>1, <1>2, <1>3

LEMMA DailySlotIsDaily ==
  ASSUME NEW t \in Nat, NEW h \in 0..23
  PROVE  IsDaily(dailySlot(t, h), h)
<1> DEFINE day == (t + 3) \div 24
<1>1. day \in Int
  OBVIOUS
<1>2. \E q \in Int : dailySlot(t, h) + 3 = 24 * q + h
  <2>1. dailySlot(t, h) + 3 = 24 * day + h \/ dailySlot(t, h) + 3 = 24 * (day - 1) + h
    BY <1>1 DEF dailySlot, BackWhenAhead, EatOffset
  <2>2. day \in Int /\ day - 1 \in Int
    BY <1>1
  <2> HIDE DEF day
  <2> QED  BY <2>1, <2>2
<1> QED  BY <1>2, HourOfDay DEF IsDaily, EatOffset

LEMMA WeeklySlotIsWeekly ==
  ASSUME NEW t \in Nat, NEW h \in 0..23, NEW d \in 1..7
  PROVE  IsWeekly(weeklySlot(t, h, d), h, d)
<1> DEFINE day == (t + 3) \div 24
           today == day % 7
           back == ((today + 1) - d + 7) % 7
<1>1. day \in Int /\ day = 7 * (day \div 7) + today /\ today \in 0..6 /\ day \div 7 \in Int
  BY DaysInWeeks
<1>2. weeklySlot(t, h, d) = BackWhenAhead(day * 24 + h - 24 * back, t + 3, 168) - 3
  BY DEF weeklySlot, EatOffset
<1> HIDE DEF day
<1>3. \/ back = today + 1 - d
      \/ back = today + 1 - d + 7
  BY <1>1
<1> DEFINE week == day \div 7
<1>4. \E n \in Int : day - back = 7 * n + (d - 1)
  <2> HIDE DEF today, back, week
  <2>1. day - back = 7 * week + (d - 1) \/ day - back = 7 * (week - 1) + (d - 1)
    BY <1>1, <1>3 DEF week
  <2>2. week \in Int /\ week - 1 \in Int
    BY <1>1 DEF week
  <2> QED  BY <2>1, <2>2
<1>5. back \in Int
  BY <1>1
<1> HIDE DEF today, back, week
<1>6. \E n \in Int : weeklySlot(t, h, d) + 3 = 24 * (7 * n + (d - 1)) + h
  <2>1. PICK n \in Int : day - back = 7 * n + (d - 1)
    BY <1>4
  <2>2. \/ weeklySlot(t, h, d) + 3 = 24 * (7 * n + (d - 1)) + h
        \/ weeklySlot(t, h, d) + 3 = 24 * (7 * (n - 1) + (d - 1)) + h
    BY <1>1, <1>2, <1>5, <2>1 DEF BackWhenAhead
  <2>3. n - 1 \in Int
    OBVIOUS
  <2> QED  BY <2>2, <2>3
<1>7. PICK n \in Int : weeklySlot(t, h, d) + 3 = 24 * (7 * n + (d - 1)) + h
  BY <1>6
<1> DEFINE q == 7 * n + (d - 1)
<1>8. q \in Int /\ q % 7 = d - 1
  BY DayOfWeek
<1> HIDE DEF q
<1>9. (24 * q + h) % 24 = h /\ (24 * q + h) \div 24 = q
  BY <1>8, HourOfDay
<1> QED  BY <1>7, <1>8, <1>9 DEF IsWeekly, IsDaily, EatOffset, q

\* latestScheduledRun's arithmetic agrees with the definition of a slot at every time,
\* for every hour and weekday.
THEOREM LatestCorrect == Spec => []LatestIsLatest
<1>1. TypeOK => LatestIsLatest
  <2> SUFFICES ASSUME now \in Nat, NEW h \in 0..23, NEW d \in 1..7
               PROVE  LET daily == dailySlot(now, h)
                          weekly == weeklySlot(now, h, d)
                      IN  /\ daily <= now /\ IsDaily(daily, h)
                          /\ weekly <= now /\ IsWeekly(weekly, h, d)
                          /\ \A t \in daily + 1 .. now : ~IsDaily(t, h)
                          /\ \A t \in weekly + 1 .. now : ~IsWeekly(t, h, d)
    BY ScheduleAssumption DEF TypeOK, LatestIsLatest
  <2> DEFINE daily == dailySlot(now, h)
             weekly == weeklySlot(now, h, d)
  <2>1. daily \in Int /\ daily <= now /\ now - 24 < daily /\ IsDaily(daily, h)
    BY DailySlotIsPast, DailySlotIsDaily
  <2>2. weekly \in Int /\ weekly <= now /\ now - 168 < weekly /\ IsWeekly(weekly, h, d)
    BY WeeklySlotIsPast, WeeklySlotIsWeekly
  <2> HIDE DEF daily, weekly
  <2>3. ASSUME NEW t \in daily + 1 .. now, IsDaily(t, h) PROVE FALSE
    <3>1. t \in Int /\ daily < t /\ t <= now
      BY <2>1
    <3>2. daily + 24 <= t
      BY <2>1, <2>3, <3>1, DailyApart
    <3> QED  BY <2>1, <3>1, <3>2
  <2>4. ASSUME NEW t \in weekly + 1 .. now, IsWeekly(t, h, d) PROVE FALSE
    <3>1. t \in Int /\ weekly < t /\ t <= now
      BY <2>2
    <3>2. weekly + 168 <= t
      BY <2>2, <2>4, <3>1, WeeklyApart
    <3> QED  BY <2>2, <3>1, <3>2
  <2> QED  BY <2>1, <2>2, <2>3, <2>4 DEF daily, weekly
<1>2. ScheduleInv => TypeOK
  BY DEF ScheduleInv
<1> QED  BY <1>1, <1>2, ScheduleCorrect, PTL

-------------------------------------------------------------------------------
(* AddOns: a boost starts once, not unpaid, and runs for the hours bought. *)

SweepRows == [pc : {"idle", "claim", "prolong", "expire", "cancel", "rate", "write"},
              of : Purchases \cup {NoPurchase}, at : Nat, endsAt : Nat,
              running : SUBSET Purchases, boost : BOOLEAN]

PurchaseRows == [status : {"NONE", "AWAITING_PAYMENT", "ACTIVE", "EXPIRED", "CANCELLED"},
                 createdAt : Nat, startsAt : Nat, endsAt : Nat]

BillStatuses == Payable \cup {"NONE", "PAID", "CANCELLED"}

\* A purchase that was started has its hours, and keeps them.
PurchaseInv(p) ==
    /\ starts[p] \in {0, 1}
    /\ purchase[p].status \in {"NONE", "AWAITING_PAYMENT"} => starts[p] = 0
    /\ purchase[p].status \in {"ACTIVE", "EXPIRED"} => starts[p] = 1
    /\ purchase[p].status = "EXPIRED" => hour >= purchase[p].startsAt + DurationHours
    /\ purchase[p].status = "NONE" => bill[p] = "NONE"
    /\ starts[p] = 1 => /\ purchase[p].endsAt >= purchase[p].startsAt + DurationHours
                        /\ bill[p] # "NONE" => p \in partPaid
    /\ bill[p] = "PAID" => p \in partPaid

\* What a worker read that still holds when it writes, however late.
SweepInv(w) ==
    LET me == sweep[w] IN
    /\ me.pc \in {"claim", "prolong"} =>
         /\ me.of \in Purchases /\ me.endsAt >= me.at + DurationHours
         /\ \A q \in me.running : starts[q] = 1 /\ me.endsAt >= purchase[q].startsAt + DurationHours
    /\ me.pc = "claim" =>
         purchase[me.of].status # "NONE" /\ (bill[me.of] = "NONE" \/ me.of \in partPaid)
    /\ me.pc = "expire" =>
         me.of \in Purchases /\ starts[me.of] = 1 /\ hour >= purchase[me.of].startsAt + DurationHours
    /\ me.pc = "cancel" => me.of \in Purchases /\ purchase[me.of].status # "NONE"

AddOnInv ==
    /\ AddOnTypeOK
    /\ \A p \in Purchases : PurchaseInv(p)
    /\ \A w \in AddOnWorkers : SweepInv(w)

LEMMA AddOnTypes ==
  ASSUME AddOnTypeOK
  PROVE  /\ hour \in Nat /\ DurationHours \in Nat
         /\ purchase \in [Purchases -> PurchaseRows] /\ bill \in [Purchases -> BillStatuses]
         /\ sweep \in [AddOnWorkers -> SweepRows] /\ starts \in [Purchases -> Nat]
         /\ partPaid \subseteq Purchases /\ boosted \in BOOLEAN
  BY AddOnAssumption DEF AddOnTypeOK, PurchaseRows, BillStatuses, SweepRows

LEMMA InitAddOn == AddOnInit => AddOnInv
<1> SUFFICES ASSUME AddOnInit PROVE AddOnInv
  OBVIOUS
<1>1. AddOnTypeOK
  <2>1. NotBought \in PurchaseRows /\ SweepIdle \in SweepRows
    BY DEF NotBought, PurchaseRows, SweepIdle, SweepRows
  <2>2. hour \in 0..LastHour /\ starts \in [Purchases -> Nat]
    BY AddOnAssumption DEF AddOnInit
  <2>4. boosted \in BOOLEAN /\ partPaid \subseteq Purchases
        /\ bill \in [Purchases -> Payable \cup {"NONE", "PAID", "CANCELLED"}]
    BY Zenon DEF AddOnInit
  <2>3. purchase \in [Purchases -> PurchaseRows] /\ sweep \in [AddOnWorkers -> SweepRows]
    BY <2>1 DEF AddOnInit
  <2> QED  BY <2>2, <2>3, <2>4 DEF AddOnTypeOK, PurchaseRows, SweepRows
<1>2. \A p \in Purchases : PurchaseInv(p)
  BY DEF AddOnInit, PurchaseInv, NotBought
<1>3. \A w \in AddOnWorkers : SweepInv(w)
  BY DEF AddOnInit, SweepInv, SweepIdle
<1> QED  BY <1>1, <1>2, <1>3 DEF AddOnInv

\* A purchase's row that is written keeps its other columns, and the other rows stay.
LEMMA Ordered ==
  ASSUME AddOnInv, NEW p \in Purchases,
         purchase' = [purchase EXCEPT ![p].status = "AWAITING_PAYMENT", ![p].createdAt = hour]
  PROVE  /\ purchase' \in [Purchases -> PurchaseRows] /\ purchase'[p].status = "AWAITING_PAYMENT"
         /\ \A q \in Purchases \ {p} : purchase'[q] = purchase[q]
<1>1. purchase \in [Purchases -> PurchaseRows] /\ hour \in Nat
  BY AddOnTypes DEF AddOnInv
<1> QED  BY <1>1 DEF PurchaseRows

\* What no step undoes.
AddOnsGrow ==
    /\ hour' >= hour /\ partPaid \subseteq partPaid'
    /\ \A p \in Purchases :
         /\ starts[p] = 1 => starts'[p] = 1 /\ purchase'[p].startsAt = purchase[p].startsAt
         /\ purchase[p].status # "NONE" => purchase'[p].status # "NONE"
         /\ purchase[p].status # "NONE" /\ bill[p] = "NONE" => bill'[p] = "NONE"

LEMMA SweepStays ==
  ASSUME AddOnInv, AddOnTypeOK', AddOnsGrow, NEW w \in AddOnWorkers, sweep'[w] = sweep[w]
  PROVE  SweepInv(w)'
<1>1. SweepInv(w) /\ sweep[w] \in SweepRows
  BY AddOnTypes DEF AddOnInv
<1>2. /\ hour \in Nat /\ hour' \in Nat /\ DurationHours \in Nat
      /\ \A p \in Purchases : purchase[p] \in PurchaseRows
  BY AddOnTypes, AddOnAssumption DEF AddOnInv, AddOnTypeOK
<1> QED  BY <1>1, <1>2 DEF SweepInv, AddOnsGrow, SweepRows, PurchaseRows

\* A worker whose entry changes to one that reads nothing of a purchase.
LEMMA OthersStay ==
  ASSUME AddOnInv, AddOnTypeOK', AddOnsGrow, NEW w \in AddOnWorkers, NEW entry \in SweepRows,
         entry.pc \in {"idle", "rate", "write"}, Reads(w, entry)
  PROVE  \A v \in AddOnWorkers : SweepInv(v)'
<1>1. \A v \in AddOnWorkers : sweep'[v] = IF v = w THEN entry ELSE sweep[v]
  BY AddOnTypes DEF AddOnInv, Reads
<1>2. ASSUME NEW v \in AddOnWorkers PROVE SweepInv(v)'
  <2>1. CASE v = w
    BY <1>1, <2>1 DEF SweepInv
  <2>2. CASE v # w
    BY <1>1, <2>2, SweepStays
  <2> QED  BY <2>1, <2>2
<1> QED  BY <1>2

LEMMA IdleRow == SweepIdle \in SweepRows /\ SweepIdle.pc = "idle"
  BY DEF SweepIdle, SweepRows

\* Steps of the clock, the customer and the invoice.
LEMMA HourInv == ASSUME AddOnInv, anHourPasses PROVE AddOnInv'
<1>1. AddOnTypeOK' /\ hour' = hour + 1
  BY AddOnAssumption DEF AddOnInv, AddOnTypeOK, anHourPasses
<1>2. AddOnsGrow
  BY <1>1, AddOnTypes DEF AddOnInv, anHourPasses, AddOnsGrow
<1>3. \A p \in Purchases : PurchaseInv(p)'
  <2> SUFFICES ASSUME NEW p \in Purchases PROVE PurchaseInv(p)'
    OBVIOUS
  <2>1. PurchaseInv(p) /\ purchase[p] \in PurchaseRows /\ hour \in Nat /\ DurationHours \in Nat
    BY AddOnTypes DEF AddOnInv
  <2> QED  BY <1>1, <2>1 DEF PurchaseInv, anHourPasses, PurchaseRows
<1>4. \A w \in AddOnWorkers : SweepInv(w)'
  BY <1>1, <1>2, SweepStays DEF anHourPasses
<1> QED  BY <1>1, <1>3, <1>4 DEF AddOnInv

LEMMA BuyInv == ASSUME AddOnInv, NEW p \in Purchases, buyAddOn(p) PROVE AddOnInv'
<1>0. /\ purchase' \in [Purchases -> PurchaseRows] /\ purchase'[p].status = "AWAITING_PAYMENT"
      /\ \A q \in Purchases \ {p} : purchase'[q] = purchase[q]
  BY Ordered DEF buyAddOn
<1>1. AddOnTypeOK'
  BY <1>0 DEF AddOnInv, AddOnTypeOK, PurchaseRows, buyAddOn, Payable
<1>2. \A q \in Purchases \ {p} : purchase'[q] = purchase[q] /\ bill'[q] = bill[q]
  BY <1>0, AddOnTypes DEF AddOnInv, buyAddOn
<1>3. purchase'[p].status = "AWAITING_PAYMENT" /\ bill'[p] = "PENDING"
  BY <1>0, AddOnTypes DEF AddOnInv, buyAddOn
<1>4. starts[p] = 0 /\ purchase[p].status = "NONE"
  BY DEF AddOnInv, PurchaseInv, buyAddOn
<1>5. AddOnsGrow
  BY <1>2, <1>4, AddOnTypes DEF AddOnInv, buyAddOn, AddOnsGrow
<1>6. \A q \in Purchases : PurchaseInv(q)'
  <2> SUFFICES ASSUME NEW q \in Purchases PROVE PurchaseInv(q)'
    OBVIOUS
  <2>1. PurchaseInv(q) /\ UNCHANGED <<hour, partPaid, starts>>
    BY DEF AddOnInv, buyAddOn
  <2>2. CASE q = p
    BY <1>3, <1>4, <2>1, <2>2 DEF PurchaseInv
  <2>3. CASE q # p
    BY <1>2, <2>1, <2>3 DEF PurchaseInv
  <2> QED  BY <2>2, <2>3
<1>7. \A w \in AddOnWorkers : SweepInv(w)'
  BY <1>1, <1>5, SweepStays DEF buyAddOn
<1> QED  BY <1>1, <1>6, <1>7 DEF AddOnInv

LEMMA InvoiceInv == ASSUME AddOnInv, NEW p \in Purchases, invoiceChanges(p) PROVE AddOnInv'
<1>1. AddOnTypeOK'
  BY DEF AddOnInv, AddOnTypeOK, invoiceChanges, Payable
<1>2. /\ \A q \in Purchases \ {p} : bill'[q] = bill[q]
      /\ bill[p] \in Payable /\ bill'[p] \in {"OVERDUE", "PARTIALLY_PAID", "PAID"}
      /\ bill'[p] = "PAID" => p \in partPaid'
      /\ partPaid \subseteq partPaid'
  BY AddOnTypes DEF AddOnInv, invoiceChanges
<1>3. AddOnsGrow
  BY <1>2, AddOnTypes DEF AddOnInv, invoiceChanges, AddOnsGrow, Payable
<1>4. \A q \in Purchases : PurchaseInv(q)'
  BY <1>2 DEF AddOnInv, PurchaseInv, invoiceChanges, Payable
<1>5. \A w \in AddOnWorkers : SweepInv(w)'
  BY <1>1, <1>3, SweepStays DEF invoiceChanges
<1> QED  BY <1>1, <1>4, <1>5 DEF AddOnInv

LEMMA ClaimEntry ==
  ASSUME NEW w \in AddOnWorkers, NEW p \in Purchases, NEW running \in SUBSET Purchases,
         NEW time \in Nat, NEW ends \in Nat, ends >= time + DurationHours,
         \A q \in running : starts[q] = 1 /\ ends >= purchase[q].startsAt + DurationHours,
         Reads(w, [SweepIdle EXCEPT !.pc = "claim", !.of = p, !.running = running,
                                    !.at = time, !.endsAt = ends])
  PROVE  \E e \in SweepRows :
           /\ Reads(w, e)
           /\ e.pc = "claim" /\ e.of = p /\ e.endsAt >= e.at + DurationHours
           /\ \A q \in e.running : starts[q] = 1 /\ e.endsAt >= purchase[q].startsAt + DurationHours
<1> DEFINE e == [SweepIdle EXCEPT !.pc = "claim", !.of = p, !.running = running, !.at = time, !.endsAt = ends]
<1>1. e \in SweepRows /\ e.pc = "claim" /\ e.of = p /\ e.running = running /\ e.at = time /\ e.endsAt = ends
  BY DEF SweepIdle, SweepRows
<1>2. Reads(w, e)
  OBVIOUS
<1> HIDE DEF e
<1> QED  BY <1>1, <1>2

LEMMA MaxOfOne == ASSUME NEW n \in Nat PROVE Max({n}) = n
  BY DEF Max

\* What a worker reads to start a purchase: the end of what runs, if something does.
LEMMA StartRead ==
  ASSUME AddOnInv, NEW w \in AddOnWorkers, NEW p \in Purchases, ReadsForStart(w, p)
  PROVE  \E e \in SweepRows :
           /\ Reads(w, e)
           /\ e.pc = "claim" /\ e.of = p /\ e.endsAt >= e.at + DurationHours
           /\ \A q \in e.running : starts[q] = 1 /\ e.endsAt >= purchase[q].startsAt + DurationHours
<1>1. PICK running \in IF LastToEnd = {} THEN {{}} ELSE {{q} : q \in LastToEnd} :
        Reads(w, [SweepIdle EXCEPT !.pc = "claim", !.of = p, !.running = running,
                                   !.at = hour, !.endsAt = addOnEndsAt(running)])
  BY DEF ReadsForStart
<1> DEFINE ends == addOnEndsAt(running)
<1>2. hour \in Nat /\ DurationHours \in Nat
  BY AddOnTypes DEF AddOnInv
<1>3. Reads(w, [SweepIdle EXCEPT !.pc = "claim", !.of = p, !.running = running, !.at = hour, !.endsAt = ends])
  BY <1>1
<1>4. CASE running = {}
  <2>1. ends = hour + DurationHours
    BY <1>4 DEF addOnEndsAt
  <2> HIDE DEF ends
  <2>2. ends \in Nat /\ ends >= hour + DurationHours
    BY <1>2, <2>1
  <2> QED  BY <1>2, <1>3, <1>4, <2>2, ClaimEntry
<1>5. CASE running # {}
  <2>1. PICK q \in LastToEnd : running = {q}
    BY <1>5
  <2>2. q \in Purchases /\ purchase[q].status = "ACTIVE" /\ purchase[q].endsAt > hour
    BY DEF LastToEnd, Running
  <2>3. purchase[q].endsAt \in Nat /\ purchase[q].startsAt \in Nat
    BY <2>2, AddOnTypes DEF AddOnInv, PurchaseRows
  <2>4. ends = purchase[q].endsAt + DurationHours
    <3>1. {purchase[r].endsAt : r \in running} = {purchase[q].endsAt} /\ running # {}
      BY <2>1
    <3>2. Max({purchase[q].endsAt}) = purchase[q].endsAt
      BY <2>3, MaxOfOne
    <3> QED  BY <3>1, <3>2 DEF addOnEndsAt
  <2>5. starts[q] = 1 /\ purchase[q].endsAt >= purchase[q].startsAt + DurationHours
    BY <2>2 DEF AddOnInv, PurchaseInv
  <2> HIDE DEF ends
  <2>6. running \in SUBSET Purchases /\ ends \in Nat /\ ends >= hour + DurationHours
    BY <1>2, <2>1, <2>2, <2>3, <2>4
  <2>7. \A r \in running : starts[r] = 1 /\ ends >= purchase[r].startsAt + DurationHours
    BY <1>2, <2>1, <2>3, <2>4, <2>5
  <2> QED  BY <1>2, <1>3, <2>6, <2>7, ClaimEntry
<1> QED  BY <1>4, <1>5

\* A worker reads and no table changes: what the entry says has to be right.
LEMMA ReadInv ==
  ASSUME AddOnInv, NEW w \in AddOnWorkers, NEW entry \in SweepRows, Reads(w, entry),
         UNCHANGED <<hour, purchase, bill, partPaid, starts>>, boosted' \in BOOLEAN,
         SweepInv(w)'
  PROVE  AddOnInv'
<1>1. /\ sweep' \in [AddOnWorkers -> SweepRows]
      /\ \A v \in AddOnWorkers \ {w} : sweep'[v] = sweep[v]
  BY AddOnTypes DEF AddOnInv, Reads
<1>2. AddOnTypeOK'
  BY <1>1 DEF AddOnInv, AddOnTypeOK, SweepRows
<1>3. AddOnsGrow
  BY AddOnTypes DEF AddOnInv, AddOnsGrow
<1>4. \A p \in Purchases : PurchaseInv(p)'
  BY DEF AddOnInv, PurchaseInv
<1>5. \A v \in AddOnWorkers : SweepInv(v)'
  BY <1>1, <1>2, <1>3, SweepStays
<1> QED  BY <1>2, <1>4, <1>5 DEF AddOnInv

LEMMA EntryRead ==
  ASSUME AddOnInv, NEW w \in AddOnWorkers, NEW entry, Reads(w, entry)
  PROVE  sweep'[w] = entry /\ \A v \in AddOnWorkers \ {w} : sweep'[v] = sweep[v]
  BY AddOnTypes DEF AddOnInv, Reads

LEMMA StartPaidInv ==
  ASSUME AddOnInv, NEW w \in AddOnWorkers, NEW p \in Purchases, activatePaidAddOns(w, p)
  PROVE  AddOnInv'
<1>1. PICK e \in SweepRows :
        /\ Reads(w, e)
        /\ e.pc = "claim" /\ e.of = p /\ e.endsAt >= e.at + DurationHours
        /\ \A q \in e.running : starts[q] = 1 /\ e.endsAt >= purchase[q].startsAt + DurationHours
  BY StartRead DEF activatePaidAddOns
<1>2. p \in partPaid /\ purchase[p].status # "NONE"
  BY DEF activatePaidAddOns, AddOnInv, PurchaseInv
<1>3. UNCHANGED <<hour, purchase, bill, partPaid, starts, boosted>>
  BY DEF activatePaidAddOns
<1>4. SweepInv(w)'
  BY <1>1, <1>2, <1>3, EntryRead DEF SweepInv
<1>5. boosted' \in BOOLEAN
  BY <1>3, AddOnTypes DEF AddOnInv
<1> QED  BY <1>1, <1>3, <1>4, <1>5, ReadInv

LEMMA GrantInv ==
  ASSUME AddOnInv, NEW w \in AddOnWorkers, NEW p \in Purchases, grantAddOn(w, p)
  PROVE  AddOnInv'
<1>1. PICK e \in SweepRows :
        /\ Reads(w, e)
        /\ e.pc = "claim" /\ e.of = p /\ e.endsAt >= e.at + DurationHours
        /\ \A q \in e.running : starts[q] = 1 /\ e.endsAt >= purchase[q].startsAt + DurationHours
  BY StartRead DEF grantAddOn
<1>2. /\ purchase' \in [Purchases -> PurchaseRows] /\ purchase'[p].status = "AWAITING_PAYMENT"
      /\ \A q \in Purchases \ {p} : purchase'[q] = purchase[q]
  BY Ordered DEF grantAddOn
<1>3. UNCHANGED <<hour, bill, partPaid, starts, boosted>> /\ starts[p] = 0 /\ bill[p] = "NONE"
  BY DEF grantAddOn, AddOnInv, PurchaseInv
<1>4. /\ sweep' \in [AddOnWorkers -> SweepRows] /\ sweep'[w] = e
      /\ \A v \in AddOnWorkers \ {w} : sweep'[v] = sweep[v]
  BY <1>1, AddOnTypes DEF AddOnInv, Reads
<1>5. AddOnTypeOK'
  BY <1>2, <1>3, <1>4 DEF AddOnInv, AddOnTypeOK, PurchaseRows, SweepRows
<1>6. AddOnsGrow
  BY <1>2, <1>3, AddOnTypes DEF AddOnInv, AddOnsGrow
<1>7. ASSUME NEW q \in Purchases PROVE PurchaseInv(q)'
  <2>1. PurchaseInv(q)
    BY DEF AddOnInv
  <2>2. CASE q = p
    BY <1>2, <1>3, <2>1, <2>2 DEF PurchaseInv
  <2>3. CASE q # p
    BY <1>2, <1>3, <2>1, <2>3 DEF PurchaseInv
  <2> QED  BY <2>2, <2>3
<1>8. ASSUME NEW v \in AddOnWorkers PROVE SweepInv(v)'
  <2>1. CASE v = w
    <3>1. \A q \in e.running : starts'[q] = 1 /\ e.endsAt >= purchase'[q].startsAt + DurationHours
      <4>1. e.running \subseteq Purchases /\ p \notin e.running
        BY <1>1, <1>3 DEF SweepRows
      <4> QED  BY <1>1, <1>2, <1>3, <4>1
    <3> QED  BY <1>1, <1>2, <1>3, <1>4, <2>1, <3>1 DEF SweepInv
  <2>2. CASE v # w
    BY <1>4, <1>5, <1>6, <2>2, SweepStays
  <2> QED  BY <2>1, <2>2
<1> QED  BY <1>5, <1>7, <1>8 DEF AddOnInv

LEMMA ActivateInv ==
  ASSUME AddOnInv, NEW w \in AddOnWorkers, activate(w)
  PROVE  AddOnInv'
<1> DEFINE me == sweep[w]
           p == me.of
<1>1. /\ SweepInv(w) /\ me \in SweepRows /\ me.pc = "claim" /\ p \in Purchases
      /\ UNCHANGED <<hour, bill, partPaid, boosted>>
  BY AddOnTypes DEF AddOnInv, SweepInv, activate
<1>2. CASE ~Claimed(p)
  <2>1. Reads(w, SweepIdle) /\ UNCHANGED <<purchase, starts>>
    BY <1>2 DEF activate
  <2>2. SweepInv(w)'
    BY <2>1, IdleRow, EntryRead DEF SweepInv
  <2>3. boosted' \in BOOLEAN
    BY <1>1, AddOnTypes DEF AddOnInv
  <2> QED  BY <1>1, <2>1, <2>2, <2>3, IdleRow, ReadInv
<1>3. CASE Claimed(p)
  <2> DEFINE entry == [me EXCEPT !.pc = "prolong"]
  <2>1. /\ purchase' = [purchase EXCEPT ![p].status = "ACTIVE", ![p].startsAt = me.at, ![p].endsAt = me.endsAt]
        /\ starts' = [starts EXCEPT ![p] = @ + 1]
        /\ Reads(w, entry)
    BY <1>3 DEF activate
  <2>2. /\ entry \in SweepRows /\ entry.pc = "prolong" /\ entry.of = p /\ entry.at = me.at
        /\ entry.endsAt = me.endsAt /\ entry.running = me.running
    BY <1>1 DEF SweepRows
  <2>3. me.at \in Nat /\ me.endsAt \in Nat /\ me.running \subseteq Purchases
    BY <1>1 DEF SweepRows
  <2>4. /\ purchase' \in [Purchases -> PurchaseRows] /\ purchase'[p].status = "ACTIVE"
        /\ purchase'[p].startsAt = me.at /\ purchase'[p].endsAt = me.endsAt
        /\ \A q \in Purchases \ {p} : purchase'[q] = purchase[q]
    <3>1. purchase \in [Purchases -> PurchaseRows]
      BY AddOnTypes DEF AddOnInv
    <3> QED  BY <1>1, <2>1, <2>3, <3>1 DEF PurchaseRows
  <2>5. starts[p] = 0 /\ purchase[p].status = "AWAITING_PAYMENT"
    BY <1>1, <1>3 DEF Claimed, AddOnInv, PurchaseInv
  <2>6. /\ starts' \in [Purchases -> Nat] /\ starts'[p] = 1
        /\ \A q \in Purchases \ {p} : starts'[q] = starts[q]
    BY <1>1, <2>1, <2>5, AddOnTypes DEF AddOnInv
  <2>7. /\ sweep' \in [AddOnWorkers -> SweepRows] /\ sweep'[w] = entry
        /\ \A v \in AddOnWorkers \ {w} : sweep'[v] = sweep[v]
    BY <2>1, <2>2, AddOnTypes DEF AddOnInv, Reads
  <2>8. AddOnTypeOK'
    BY <1>1, <2>4, <2>6, <2>7 DEF AddOnInv, AddOnTypeOK, PurchaseRows, SweepRows
  <2>9. AddOnsGrow
    BY <1>1, <2>4, <2>5, <2>6, AddOnTypes DEF AddOnInv, AddOnsGrow
  <2>10. ASSUME NEW q \in Purchases PROVE PurchaseInv(q)'
    <3>1. PurchaseInv(q)
      BY DEF AddOnInv
    <3>2. CASE q = p
      <4>1. bill[p] # "NONE" => p \in partPaid
        BY <1>1 DEF SweepInv
      <4>2. me.endsAt >= me.at + DurationHours
        BY <1>1 DEF SweepInv
      <4> QED  BY <1>1, <2>4, <2>6, <3>1, <3>2, <4>1, <4>2 DEF PurchaseInv
    <3>3. CASE q # p
      BY <1>1, <2>4, <2>6, <3>1, <3>3 DEF PurchaseInv
    <3> QED  BY <3>2, <3>3
  <2>11. ASSUME NEW v \in AddOnWorkers PROVE SweepInv(v)'
    <3>1. CASE v = w
      <4>1. \A q \in me.running : starts[q] = 1 /\ me.endsAt >= purchase[q].startsAt + DurationHours
        BY <1>1 DEF SweepInv
      <4>2. \A q \in me.running : starts'[q] = 1 /\ me.endsAt >= purchase'[q].startsAt + DurationHours
        BY <2>3, <2>4, <2>5, <2>6, <4>1
      <4>3. me.endsAt >= me.at + DurationHours
        BY <1>1 DEF SweepInv
      <4> QED  BY <1>1, <2>2, <2>7, <3>1, <4>2, <4>3 DEF SweepInv
    <3>2. CASE v # w
      BY <2>7, <2>8, <2>9, <3>2, SweepStays
    <3> QED  BY <3>1, <3>2
  <2> QED  BY <2>8, <2>10, <2>11 DEF AddOnInv
<1> QED  BY <1>2, <1>3

\* The end of a purchase that runs is moved to a later hour.
LEMMA ProlongInv ==
  ASSUME AddOnInv, NEW w \in AddOnWorkers, prolongRunning(w)
  PROVE  AddOnInv'
<1> DEFINE me == sweep[w]
           entry == [SweepIdle EXCEPT !.pc = "rate"]
<1>1. /\ SweepInv(w) /\ me.pc = "prolong" /\ me.endsAt \in Nat
      /\ UNCHANGED <<hour, bill, partPaid, starts, boosted>>
      /\ Reads(w, entry)
      /\ purchase' = [q \in Purchases |->
                         IF q \in me.running THEN [purchase[q] EXCEPT !.endsAt = me.endsAt] ELSE purchase[q]]
  BY AddOnTypes DEF AddOnInv, prolongRunning, SweepRows
<1>2. entry \in SweepRows /\ entry.pc = "rate"
  BY DEF SweepIdle, SweepRows
<1>3. ASSUME NEW q \in Purchases
      PROVE  /\ purchase'[q] \in PurchaseRows
             /\ purchase'[q].status = purchase[q].status /\ purchase'[q].startsAt = purchase[q].startsAt
             /\ purchase'[q].endsAt = IF q \in me.running THEN me.endsAt ELSE purchase[q].endsAt
  <2>1. purchase[q] \in PurchaseRows
    BY AddOnTypes DEF AddOnInv
  <2>2. purchase'[q] = IF q \in me.running THEN [purchase[q] EXCEPT !.endsAt = me.endsAt] ELSE purchase[q]
    BY <1>1
  <2> QED  BY <1>1, <2>1, <2>2 DEF PurchaseRows
<1>4. purchase' \in [Purchases -> PurchaseRows]
  BY <1>1, <1>3
<1>5. sweep' \in [AddOnWorkers -> SweepRows]
  BY <1>1, <1>2, AddOnTypes DEF AddOnInv, Reads
<1>6. AddOnTypeOK'
  BY <1>1, <1>4, <1>5 DEF AddOnInv, AddOnTypeOK, PurchaseRows, SweepRows
<1>7. AddOnsGrow
  BY <1>1, <1>3, AddOnTypes DEF AddOnInv, AddOnsGrow
<1>8. ASSUME NEW q \in Purchases PROVE PurchaseInv(q)'
  <2>1. PurchaseInv(q)
    BY DEF AddOnInv
  <2>2. q \in me.running => me.endsAt >= purchase[q].startsAt + DurationHours
    BY <1>1 DEF SweepInv
  <2> QED  BY <1>1, <1>3, <2>1, <2>2 DEF PurchaseInv
<1>9. \A v \in AddOnWorkers : SweepInv(v)'
  BY <1>1, <1>2, <1>6, <1>7, OthersStay
<1> QED  BY <1>6, <1>8, <1>9 DEF AddOnInv

\* A sweep lists what it will end or cancel.
LEMMA ListSweep ==
  ASSUME AddOnInv, NEW w \in AddOnWorkers, NEW p \in Purchases, expireAddOns(w, p) \/ findUnpaid(w, p)
  PROVE  AddOnInv'
<1>1. UNCHANGED <<hour, purchase, bill, partPaid, starts, boosted>> /\ boosted' \in BOOLEAN
  BY AddOnTypes DEF AddOnInv, expireAddOns, findUnpaid
<1>2. CASE expireAddOns(w, p)
  <2> DEFINE entry == [SweepIdle EXCEPT !.pc = "expire", !.of = p]
  <2>1. entry \in SweepRows /\ entry.pc = "expire" /\ entry.of = p
    BY DEF SweepIdle, SweepRows
  <2>2. starts[p] = 1 /\ hour >= purchase[p].startsAt + DurationHours
    <3>1. purchase[p] \in PurchaseRows /\ hour \in Nat /\ DurationHours \in Nat
      BY AddOnTypes DEF AddOnInv
    <3>2. purchase[p].status = "ACTIVE" /\ purchase[p].endsAt <= hour
      BY <1>2 DEF expireAddOns, TimeIsUp
    <3> QED  BY <3>1, <3>2 DEF AddOnInv, PurchaseInv, PurchaseRows
  <2>3. Reads(w, entry)
    BY <1>2 DEF expireAddOns
  <2>4. SweepInv(w)'
    BY <1>1, <2>1, <2>2, <2>3, EntryRead DEF SweepInv
  <2> HIDE DEF entry
  <2> QED  BY <1>1, <2>1, <2>3, <2>4, ReadInv
<1>3. CASE findUnpaid(w, p)
  <2> DEFINE entry == [SweepIdle EXCEPT !.pc = "cancel", !.of = p]
  <2>1. entry \in SweepRows /\ entry.pc = "cancel" /\ entry.of = p
    BY DEF SweepIdle, SweepRows
  <2>2. purchase[p].status # "NONE" /\ Reads(w, entry)
    BY <1>3 DEF findUnpaid
  <2>3. SweepInv(w)'
    BY <1>1, <2>1, <2>2, EntryRead DEF SweepInv
  <2> HIDE DEF entry
  <2> QED  BY <1>1, <2>1, <2>2, <2>3, ReadInv
<1> QED  BY <1>2, <1>3

\* A status is written over whatever the row has become.
LEMMA EndedInv ==
  ASSUME AddOnInv, NEW w \in AddOnWorkers, NEW entry \in SweepRows, entry.pc \in {"idle", "rate"},
         Reads(w, entry), NEW p \in Purchases, NEW status \in {"EXPIRED", "CANCELLED"},
         purchase' = [purchase EXCEPT ![p].status = status],
         status = "EXPIRED" => starts[p] = 1 /\ hour >= purchase[p].startsAt + DurationHours,
         purchase[p].status # "NONE",
         bill' = bill \/ bill' = [bill EXCEPT ![p] = IF @ = "NONE" THEN @ ELSE "CANCELLED"],
         UNCHANGED <<hour, partPaid, starts, boosted>>
  PROVE  AddOnInv'
<1>1. /\ purchase' \in [Purchases -> PurchaseRows] /\ purchase'[p].status = status
      /\ purchase'[p].startsAt = purchase[p].startsAt /\ purchase'[p].endsAt = purchase[p].endsAt
      /\ \A q \in Purchases \ {p} : purchase'[q] = purchase[q]
  <2>1. purchase \in [Purchases -> PurchaseRows]
    BY AddOnTypes DEF AddOnInv
  <2> QED  BY <2>1 DEF PurchaseRows
<1>2. /\ bill' \in [Purchases -> BillStatuses]
      /\ bill'[p] \in {bill[p], "CANCELLED"} /\ (bill[p] = "NONE" => bill'[p] = "NONE")
      /\ bill'[p] = "NONE" => bill[p] = "NONE"
      /\ \A q \in Purchases \ {p} : bill'[q] = bill[q]
  <2>1. bill \in [Purchases -> BillStatuses]
    BY AddOnTypes DEF AddOnInv
  <2> QED  BY <2>1 DEF BillStatuses
<1>3. sweep' \in [AddOnWorkers -> SweepRows]
  BY AddOnTypes DEF AddOnInv, Reads
<1>4. AddOnTypeOK'
  BY <1>1, <1>2, <1>3 DEF AddOnInv, AddOnTypeOK, PurchaseRows, SweepRows, BillStatuses
<1>5. AddOnsGrow
  BY <1>1, <1>2, AddOnTypes DEF AddOnInv, AddOnsGrow
<1>6. ASSUME NEW q \in Purchases PROVE PurchaseInv(q)'
  <2>1. PurchaseInv(q)
    BY DEF AddOnInv
  <2>2. CASE q = p
    BY <1>1, <1>2, <2>1, <2>2 DEF PurchaseInv
  <2>3. CASE q # p
    BY <1>1, <1>2, <2>1, <2>3 DEF PurchaseInv
  <2> QED  BY <2>2, <2>3
<1>7. \A v \in AddOnWorkers : SweepInv(v)'
  BY <1>4, <1>5, OthersStay
<1> QED  BY <1>4, <1>6, <1>7 DEF AddOnInv

LEMMA WriteExpiredInv == ASSUME AddOnInv, NEW w \in AddOnWorkers, writeExpired(w) PROVE AddOnInv'
<1> DEFINE p == sweep[w].of
           entry == [SweepIdle EXCEPT !.pc = "rate"]
<1>1. entry \in SweepRows /\ entry.pc = "rate"
  BY DEF SweepIdle, SweepRows
<1>2. p \in Purchases /\ starts[p] = 1 /\ hour >= purchase[p].startsAt + DurationHours
  BY DEF AddOnInv, SweepInv, writeExpired
<1>3. purchase[p].status # "NONE"
  BY <1>2 DEF AddOnInv, PurchaseInv
<1>4. /\ purchase' = [purchase EXCEPT ![p].status = "EXPIRED"] /\ Reads(w, entry)
      /\ bill' = bill /\ UNCHANGED <<hour, partPaid, starts, boosted>>
  BY DEF writeExpired
<1> HIDE DEF entry, p
<1> QED  BY <1>1, <1>2, <1>3, <1>4, EndedInv

LEMMA CancelAddOnInv == ASSUME AddOnInv, NEW w \in AddOnWorkers, cancelAddOn(w) PROVE AddOnInv'
<1> DEFINE p == sweep[w].of
<1>1. p \in Purchases /\ purchase[p].status # "NONE"
  BY DEF AddOnInv, SweepInv, cancelAddOn
<1>2. /\ purchase' = [purchase EXCEPT ![p].status = "CANCELLED"] /\ Reads(w, SweepIdle)
      /\ bill' = [bill EXCEPT ![p] = IF @ = "NONE" THEN @ ELSE "CANCELLED"]
      /\ UNCHANGED <<hour, partPaid, starts, boosted>>
  BY DEF cancelAddOn
<1> HIDE DEF p
<1> QED  BY <1>1, <1>2, IdleRow, EndedInv

LEMMA RateInv ==
  ASSUME AddOnInv, NEW w \in AddOnWorkers, readRate(w) \/ writeRate(w) \/ sweepDies(w)
  PROVE  AddOnInv'
<1>1. PICK entry \in SweepRows : entry.pc \in {"idle", "write"} /\ Reads(w, entry)
  <2>1. [SweepIdle EXCEPT !.pc = "write", !.boost = Running # {}] \in SweepRows
        /\ [SweepIdle EXCEPT !.pc = "write", !.boost = Running # {}].pc = "write"
    BY DEF SweepIdle, SweepRows
  <2> QED  BY <2>1, IdleRow DEF readRate, writeRate, sweepDies
<1>2. UNCHANGED <<hour, purchase, bill, partPaid, starts>>
  BY DEF readRate, writeRate, sweepDies
<1>3. boosted' \in BOOLEAN
  <2>1. sweep[w].boost \in BOOLEAN /\ boosted \in BOOLEAN
    BY AddOnTypes DEF AddOnInv, SweepRows
  <2> QED  BY <2>1 DEF readRate, writeRate, sweepDies
<1>4. SweepInv(w)'
  BY <1>1, EntryRead DEF SweepInv
<1> QED  BY <1>1, <1>2, <1>3, <1>4, ReadInv

LEMMA AddOnInductive == AddOnSpec => []AddOnInv
<1>1. AddOnInv /\ [AddOnNext]_addOnVars => AddOnInv'
  <2> SUFFICES ASSUME AddOnInv, [AddOnNext]_addOnVars PROVE AddOnInv'
    OBVIOUS
  <2>1. CASE UNCHANGED addOnVars
    BY <2>1 DEF addOnVars, AddOnInv, AddOnTypeOK, PurchaseInv, SweepInv
  <2>2. CASE AddOnNext
    BY <2>2, HourInv, BuyInv, InvoiceInv, StartPaidInv, GrantInv, ActivateInv, ProlongInv, ListSweep,
       WriteExpiredInv, CancelAddOnInv, RateInv DEF AddOnNext
  <2> QED  BY <2>1, <2>2
<1> QED  BY <1>1, InitAddOn, PTL DEF AddOnSpec

\* Whatever sweeps, payment pages and staff requests overlap or die, a purchase starts once,
\* not before its invoice is paid, and runs for the hours bought (activate, expireAddOns).
THEOREM BoostRunsItsHours == AddOnSpec => []StartsOnceForItsHours
<1>1. AddOnInv => StartsOnceForItsHours
  <2> SUFFICES ASSUME AddOnInv, NEW p \in Purchases
               PROVE  /\ starts[p] <= 1
                      /\ starts[p] = 1 /\ bill[p] # "NONE" => p \in partPaid
                      /\ purchase[p].status \in {"ACTIVE", "EXPIRED"} =>
                            /\ starts[p] = 1 /\ purchase[p].endsAt >= purchase[p].startsAt + DurationHours
                            /\ purchase[p].status = "EXPIRED" => hour >= purchase[p].startsAt + DurationHours
    BY DEF StartsOnceForItsHours
  <2> QED  BY DEF AddOnInv, PurchaseInv
<1> QED  BY <1>1, AddOnInductive, PTL

-------------------------------------------------------------------------------
(* Campaigns: what deaths and expired locks can repeat. *)

MailRows ==
    [pc : {"idle", "claim", "snapshot", "list", "batch", "send", "record", "finish", "unlock"},
     batch : SUBSET Recipients, to : SUBSET Recipients, delivered : BOOLEAN]

\* A pass holds recipients only while it sends to them, and records one at a time.
MailerOK(me) ==
    /\ me.batch # {} => me.pc \in {"send", "record"}
    /\ me.to # {} => me.pc = "record"
    /\ me.pc = "record" => \E r \in me.batch : me.to = {r}

Passes == {w \in CampaignWorkers : mailing[w].pc # "idle"}

\* A lock that expires under a pass lets in one more, and so does the end of a pass whose
\* lock had expired.
PassesOK == Cardinality(Passes) + (IF campaignLock THEN 0 ELSE 1) <= 1 + overruns

Tried(r) == message[r] \in {"SENT", "FAILED"}

\* Who has still to send to r, and who has sent to r without recording it yet.
Yet(r) == {w \in CampaignWorkers : r \in mailing[w].batch \ mailing[w].to}
Unrecorded(r) == {w \in CampaignWorkers : r \in mailing[w].to}

\* Until a pass records r, each message is of a pass that is about to, or that died; after
\* that only those that had read r by then send one.
TextedOK(r) ==
    IF Tried(r) THEN texted[r] + Cardinality(Yet(r)) <= 1 + overruns + mailerDeaths
    ELSE texted[r] <= Cardinality(Unrecorded(r)) + mailerDeaths

Reached == {r \in Recipients : Tried(r) \/ \E w \in CampaignWorkers : r \in mailing[w].to}

\* A pass that is alone sends to nobody who was tried, so only deaths repeat a message.
AloneOK ==
    overruns = 0 =>
        /\ \A w \in CampaignWorkers : \A r \in mailing[w].batch : message[r] = "PENDING"
        /\ SumFunctionOnSet(texted, Recipients) <= Cardinality(Reached) + mailerDeaths

\* While nothing failed the recipients are listed before the first batch, and nobody is left
\* when a pass ends the campaign.
FaultlessOK ==
    mailerDeaths + overruns = 0 =>
        /\ campaign = "SENDING" => \/ \E w \in CampaignWorkers : mailing[w].pc = "snapshot"
                                   \/ \A r \in Recipients : message[r] # "NONE"
        /\ \A w \in CampaignWorkers :
             /\ mailing[w].pc \in {"batch", "send", "record", "finish"} =>
                   \A r \in Recipients : message[r] # "NONE"
             /\ mailing[w].pc = "finish" => Waiting = {}
        /\ campaign = "SENT" => \A r \in Recipients : Tried(r)

MailingInv == CampaignTypeOK /\ (\A w \in CampaignWorkers : MailerOK(mailing[w])) /\ PassesOK

CampaignInv ==
    /\ MailingInv
    /\ \A r \in Recipients : TextedOK(r)
    /\ AloneOK
    /\ FaultlessOK

CampaignStep(w) ==
    \/ takeCampaignLock(w) \/ claimCampaign(w) \/ snapshotRecipients(w) \/ listSending(w)
    \/ readBatch(w) \/ (\E r \in Recipients : sendOne(w, r)) \/ recordOne(w)
    \/ countWaiting(w) \/ finishCampaign(w) \/ unlockCampaigns(w) \/ mailerDies(w)

LEMMA MailingTypes ==
  ASSUME MailingInv
  PROVE  /\ mailing \in [CampaignWorkers -> MailRows]
         /\ texted \in [Recipients -> Nat] /\ mailerDeaths \in Nat /\ overruns \in Nat
         /\ message \in [Recipients -> {"NONE", "PENDING", "SENT", "FAILED"}]
  BY DEF MailingInv, CampaignTypeOK, MailRows

\* A step of one worker: the row it writes.
LEMMA OneMails ==
  ASSUME MailingInv, NEW w \in CampaignWorkers, NEW row \in MailRows,
         mailing' = [mailing EXCEPT ![w] = row]
  PROVE  /\ mailing' \in [CampaignWorkers -> MailRows]
         /\ mailing'[w] = row /\ \A v \in CampaignWorkers \ {w} : mailing'[v] = mailing[v]
  BY MailingTypes

\* What each step of a pass writes of its own row.
LEMMA RowOfStep ==
  ASSUME MailingInv, NEW w \in CampaignWorkers, CampaignStep(w)
  PROVE  \E row \in MailRows : mailing' = [mailing EXCEPT ![w] = row] /\ MailerOK(row)
<1> DEFINE me == mailing[w]
<1>0. me \in MailRows /\ MailerOK(me)
  BY MailingTypes DEF MailingInv
<1>1. ASSUME NEW step \in {"claim", "snapshot", "list", "batch", "finish", "unlock"}, GoesTo(w, step),
             me.pc \notin {"record"}, me.batch = {}
      PROVE  \E row \in MailRows : mailing' = [mailing EXCEPT ![w] = row] /\ MailerOK(row)
  <2> DEFINE row == [me EXCEPT !.pc = step]
  <2>1. row \in MailRows /\ row.pc = step /\ row.batch = me.batch /\ row.to = me.to
    BY <1>0 DEF MailRows
  <2>2. mailing' = [mailing EXCEPT ![w] = row]
    BY <1>1 DEF GoesTo
  <2>3. me.to = {}
    BY <1>0, <1>1 DEF MailerOK
  <2> HIDE DEF row
  <2>4. MailerOK(row)
    BY <1>1, <2>1, <2>3 DEF MailerOK
  <2> QED BY <2>1, <2>2, <2>4
<1>2. ASSUME mailing' = [mailing EXCEPT ![w] = NotMailing]
      PROVE  \E row \in MailRows : mailing' = [mailing EXCEPT ![w] = row] /\ MailerOK(row)
  <2>1. NotMailing \in MailRows /\ MailerOK(NotMailing)
    BY DEF NotMailing, MailRows, MailerOK
  <2> QED BY <1>2, <2>1
<1>3. CASE takeCampaignLock(w)
  BY <1>0, <1>1, <1>3 DEF takeCampaignLock, At, MailerOK
<1>4. CASE claimCampaign(w)
  BY <1>0, <1>1, <1>4 DEF claimCampaign, At, MailerOK
<1>5. CASE snapshotRecipients(w)
  BY <1>0, <1>1, <1>5 DEF snapshotRecipients, At, MailerOK
<1>6. CASE listSending(w)
  BY <1>0, <1>1, <1>6 DEF listSending, At, MailerOK
<1>7. CASE readBatch(w)
  <2>1. PICK batch \in SUBSET Waiting : mailing' = [mailing EXCEPT ![w].pc = "send", ![w].batch = batch]
    BY <1>7 DEF readBatch
  <2> DEFINE row == [me EXCEPT !.pc = "send", !.batch = batch]
  <2>2. batch \in SUBSET Recipients
    BY <2>1 DEF Waiting
  <2>3. row \in MailRows /\ row.pc = "send" /\ row.to = me.to
    BY <1>0, <2>2 DEF MailRows
  <2>4. mailing' = [mailing EXCEPT ![w] = row]
    BY <2>1, MailingTypes DEF MailRows
  <2>5. me.to = {}
    BY <1>0, <1>7 DEF MailerOK, readBatch, At
  <2> HIDE DEF row
  <2> QED BY <2>3, <2>4, <2>5 DEF MailerOK
<1>8. ASSUME NEW r \in Recipients, sendOne(w, r)
      PROVE  \E row \in MailRows : mailing' = [mailing EXCEPT ![w] = row] /\ MailerOK(row)
  <2>1. PICK delivered \in BOOLEAN :
          mailing' = [mailing EXCEPT ![w].pc = "record", ![w].to = {r}, ![w].delivered = delivered]
    BY <1>8 DEF sendOne
  <2> DEFINE row == [me EXCEPT !.pc = "record", !.to = {r}, !.delivered = delivered]
  <2>2. row \in MailRows /\ row.pc = "record" /\ row.to = {r} /\ row.batch = me.batch
    BY <1>0 DEF MailRows
  <2>3. mailing' = [mailing EXCEPT ![w] = row]
    BY <2>1, MailingTypes DEF MailRows
  <2>4. r \in me.batch
    BY <1>8 DEF sendOne
  <2> HIDE DEF row
  <2> QED BY <2>2, <2>3, <2>4 DEF MailerOK
<1>9. CASE recordOne(w)
  <2> DEFINE row == [NotMailing EXCEPT !.pc = "send", !.batch = me.batch \ me.to]
  <2>1. row \in MailRows /\ row.pc = "send" /\ row.to = {}
    BY <1>0 DEF MailRows, NotMailing
  <2>2. mailing' = [mailing EXCEPT ![w] = row]
    BY <1>9 DEF recordOne
  <2> HIDE DEF row
  <2> QED BY <2>1, <2>2 DEF MailerOK
<1>10. CASE countWaiting(w)
  BY <1>0, <1>1, <1>10 DEF countWaiting, At, MailerOK
<1>11. CASE finishCampaign(w)
  BY <1>0, <1>1, <1>11 DEF finishCampaign, At, MailerOK
<1>12. CASE unlockCampaigns(w)
  BY <1>2, <1>12 DEF unlockCampaigns
<1>13. CASE mailerDies(w)
  BY <1>2, <1>13 DEF mailerDies
<1> QED BY <1>3, <1>4, <1>5, <1>6, <1>7, <1>8, <1>9, <1>10, <1>11, <1>12, <1>13 DEF CampaignStep

LEMMA PassesFinite ==
  ASSUME MailingInv
  PROVE  IsFiniteSet(Passes) /\ Cardinality(Passes) \in Nat
<1>1. Passes \in SUBSET CampaignWorkers
  BY DEF Passes
<1> QED BY <1>1, CampaignAssumption, CountNoMore

\* A pass begins, goes on or ends.
LEMMA PassesStep ==
  ASSUME MailingInv, NEW w \in CampaignWorkers, CampaignStep(w)
  PROVE  PassesOK'
<1>1. PICK row \in MailRows : mailing' = [mailing EXCEPT ![w] = row]
  BY RowOfStep
<1>2. \A v \in CampaignWorkers \ {w} : mailing'[v] = mailing[v]
  BY <1>1, OneMails
<1>3. IsFiniteSet(Passes) /\ Cardinality(Passes) \in Nat /\ overruns \in Nat /\ PassesOK
      /\ mailing \in [CampaignWorkers -> MailRows]
  BY PassesFinite, MailingTypes DEF MailingInv
<1>4. CASE takeCampaignLock(w)
  <2>1. Passes' \in SUBSET (Passes \cup {w})
    BY <1>2 DEF Passes
  <2>2. Cardinality(Passes') \in Nat /\ Cardinality(Passes') <= Cardinality(Passes) + 1
    BY <1>3, <2>1, CountOneMore
  <2>3. ~campaignLock /\ campaignLock' /\ overruns' = overruns
    BY <1>4 DEF takeCampaignLock, LockIsFree
  <2> QED BY <1>3, <2>2, <2>3 DEF PassesOK
<1>5. ASSUME mailing' = [mailing EXCEPT ![w] = NotMailing], mailing[w].pc # "idle", overruns' = overruns,
             campaignLock' \in {FALSE, campaignLock}
      PROVE  PassesOK'
  <2>1. Passes' \in SUBSET (Passes \ {w}) /\ w \in Passes
    BY <1>2, <1>3, <1>5 DEF Passes, NotMailing
  <2>2. Cardinality(Passes') \in Nat /\ Cardinality(Passes') + 1 <= Cardinality(Passes)
    BY <1>3, <2>1, CountOneLess
  <2> QED BY <1>3, <1>5, <2>2 DEF PassesOK
<1>6. CASE unlockCampaigns(w)
  BY <1>5, <1>6 DEF unlockCampaigns, At
<1>7. CASE mailerDies(w)
  BY <1>5, <1>7 DEF mailerDies, At
<1>8. CASE /\ ~takeCampaignLock(w) /\ ~unlockCampaigns(w) /\ ~mailerDies(w)
  <2>1. mailing[w].pc # "idle" /\ UNCHANGED <<campaignLock, overruns>>
    BY <1>8
    DEF CampaignStep, claimCampaign, snapshotRecipients, listSending, readBatch, sendOne,
        recordOne, countWaiting, finishCampaign, At
  <2>2. Passes' \in SUBSET Passes
    BY <1>2, <2>1 DEF Passes
  <2>3. Cardinality(Passes') \in Nat /\ Cardinality(Passes') <= Cardinality(Passes)
    BY <1>3, <2>2, CountNoMore
  <2> QED BY <1>3, <2>1, <2>3 DEF PassesOK
<1> QED BY <1>4, <1>6, <1>7, <1>8

LEMMA MailingStep ==
  ASSUME MailingInv, NEW w \in CampaignWorkers, CampaignStep(w)
  PROVE  MailingInv'
<1>1. PICK row \in MailRows : mailing' = [mailing EXCEPT ![w] = row] /\ MailerOK(row)
  BY RowOfStep
<1>2. /\ mailing' \in [CampaignWorkers -> MailRows]
      /\ mailing'[w] = row /\ \A v \in CampaignWorkers \ {w} : mailing'[v] = mailing[v]
  BY <1>1, OneMails
<1>3. ASSUME NEW v \in CampaignWorkers PROVE MailerOK(mailing[v])'
  <2>1. CASE v = w
    BY <1>1, <1>2, <2>1 DEF MailerOK
  <2>2. CASE v # w
    BY <1>2, <2>2 DEF MailerOK, MailingInv
  <2> QED BY <2>1, <2>2
<1>4. /\ campaign' \in {"SCHEDULED", "SENDING", "SENT", "CANCELLED"} /\ campaignLock' \in BOOLEAN
      /\ overruns' \in Nat /\ mailerDeaths' \in Nat
  <2>0. campaignLock \in BOOLEAN
    BY Zenon DEF MailingInv, CampaignTypeOK
  <2>1. /\ campaign \in {"SCHEDULED", "SENDING", "SENT", "CANCELLED"}
        /\ overruns \in Nat /\ mailerDeaths \in Nat
    BY DEF MailingInv, CampaignTypeOK
  <2>2. campaign' \in {campaign, "SENDING", "SENT"}
    BY DEF CampaignStep, takeCampaignLock, claimCampaign, snapshotRecipients, listSending, readBatch,
        sendOne, recordOne, countWaiting, finishCampaign, unlockCampaigns, mailerDies
  <2>3. campaignLock' \in BOOLEAN
    BY <2>0, Zenon DEF CampaignStep, takeCampaignLock, claimCampaign, snapshotRecipients, listSending, readBatch,
        sendOne, recordOne, countWaiting, finishCampaign, unlockCampaigns, mailerDies
  <2>4. overruns' = overruns /\ mailerDeaths' \in {mailerDeaths, mailerDeaths + 1}
    BY DEF CampaignStep, takeCampaignLock, claimCampaign, snapshotRecipients, listSending, readBatch,
        sendOne, recordOne, countWaiting, finishCampaign, unlockCampaigns, mailerDies
  <2>5. campaign' \in {"SCHEDULED", "SENDING", "SENT", "CANCELLED"}
    BY <2>1, <2>2
  <2>6. overruns' \in Nat /\ mailerDeaths' \in Nat
    BY <2>1, <2>4
  <2> QED BY <2>3, <2>5, <2>6, Zenon
<1>5. message' \in [Recipients -> {"NONE", "PENDING", "SENT", "FAILED"}]
  BY MailingTypes
  DEF CampaignStep, takeCampaignLock, claimCampaign, snapshotRecipients, listSending, readBatch,
      sendOne, recordOne, countWaiting, finishCampaign, unlockCampaigns, mailerDies
<1>6. texted' \in [Recipients -> Nat]
  <2>1. ASSUME NEW r \in Recipients, sendOne(w, r) PROVE texted' \in [Recipients -> Nat]
    BY <2>1, MailingTypes DEF sendOne
  <2>2. CASE UNCHANGED texted
    BY <2>2, MailingTypes
  <2> QED BY <2>1, <2>2
      DEF CampaignStep, takeCampaignLock, claimCampaign, snapshotRecipients, listSending, readBatch,
          recordOne, countWaiting, finishCampaign, unlockCampaigns, mailerDies
<1>7. CampaignTypeOK'
  BY <1>2, <1>4, <1>5, <1>6 DEF CampaignTypeOK, MailRows
<1> QED BY <1>3, <1>7, PassesStep DEF MailingInv

LEMMA BesideStep ==
  ASSUME MailingInv, cancelCampaign \/ campaignLockExpires
  PROVE  MailingInv'
<1>1. UNCHANGED <<mailing, message, texted, mailerDeaths>>
  BY DEF cancelCampaign, campaignLockExpires
<1>2. CampaignTypeOK'
  <2>1. campaign' \in {campaign, "CANCELLED"} /\ overruns' \in {overruns, overruns + 1}
    BY DEF cancelCampaign, campaignLockExpires
  <2>2. campaign' \in {"SCHEDULED", "SENDING", "SENT", "CANCELLED"} /\ overruns' \in Nat
    BY <2>1 DEF MailingInv, CampaignTypeOK
  <2>3. campaignLock \in BOOLEAN
    BY Zenon DEF MailingInv, CampaignTypeOK
  <2>4. campaignLock' \in BOOLEAN
    BY <2>3, Zenon DEF cancelCampaign, campaignLockExpires
  <2>5. /\ mailing' \in [CampaignWorkers -> MailRows] /\ texted' \in [Recipients -> Nat]
        /\ message' \in [Recipients -> {"NONE", "PENDING", "SENT", "FAILED"}] /\ mailerDeaths' \in Nat
    BY <1>1, MailingTypes
  <2> QED BY <2>2, <2>4, <2>5, Zenon DEF CampaignTypeOK, MailRows
<1>3. \A w \in CampaignWorkers : MailerOK(mailing[w])'
  BY <1>1 DEF MailingInv, MailerOK
<1>4. Passes' = Passes
  BY <1>1 DEF Passes
<1>5. Cardinality(Passes) \in Nat /\ overruns \in Nat /\ PassesOK
  BY PassesFinite, MailingTypes DEF MailingInv
<1>6. CASE cancelCampaign
  <2>1. UNCHANGED <<campaignLock, overruns>>
    BY <1>6 DEF cancelCampaign
  <2>2. PassesOK'
    BY <1>4, <1>5, <2>1 DEF PassesOK
  <2> QED BY <1>2, <1>3, <2>2 DEF MailingInv
<1>7. CASE campaignLockExpires
  <2>1. CASE \A w \in CampaignWorkers : At(w, "idle")
    <3>1. Passes = {}
      BY <2>1 DEF Passes, At
    <3>2. Cardinality(Passes) = 0
      BY <3>1, FS_EmptySet
    <3>3. ~campaignLock' /\ overruns' = overruns
      BY <1>7, <2>1 DEF campaignLockExpires
    <3>4. PassesOK'
      BY <1>4, <1>5, <3>2, <3>3 DEF PassesOK
    <3> QED BY <1>2, <1>3, <3>4 DEF MailingInv
  <2>2. CASE ~ \A w \in CampaignWorkers : At(w, "idle")
    <3>1. campaignLock /\ ~campaignLock' /\ overruns' = overruns + 1
      BY <1>7, <2>2 DEF campaignLockExpires
    <3>2. PassesOK'
      BY <1>4, <1>5, <3>1 DEF PassesOK
    <3> QED BY <1>2, <1>3, <3>2 DEF MailingInv
  <2> QED BY <2>1, <2>2
<1> QED BY <1>6, <1>7

LEMMA HoldersFinite ==
  ASSUME NEW r
  PROVE  /\ IsFiniteSet(Yet(r)) /\ Cardinality(Yet(r)) \in Nat
         /\ IsFiniteSet(Unrecorded(r)) /\ Cardinality(Unrecorded(r)) \in Nat
<1>1. Yet(r) \in SUBSET CampaignWorkers /\ Unrecorded(r) \in SUBSET CampaignWorkers
  BY DEF Yet, Unrecorded
<1> QED BY <1>1, CampaignAssumption, CountNoMore

LEMMA HoldersFiniteNext ==
  ASSUME NEW r
  PROVE  /\ IsFiniteSet(Yet(r)') /\ Cardinality(Yet(r)') \in Nat
         /\ IsFiniteSet(Unrecorded(r)') /\ Cardinality(Unrecorded(r)') \in Nat
<1>1. Yet(r)' \in SUBSET CampaignWorkers /\ Unrecorded(r)' \in SUBSET CampaignWorkers
  BY DEF Yet, Unrecorded
<1> QED BY <1>1, CampaignAssumption, CountNoMore

LEMMA ReachedFinite ==
  /\ IsFiniteSet(Reached) /\ Cardinality(Reached) \in Nat /\ Cardinality(Reached) <= Cardinality(Recipients)
  /\ IsFiniteSet(Reached') /\ Cardinality(Reached') \in Nat
<1>1. Reached \in SUBSET Recipients /\ Reached' \in SUBSET Recipients
  BY DEF Reached
<1> QED BY <1>1, CampaignAssumption, CountNoMore

\* Without an expired lock there is one pass, and none while the lock is free.
LEMMA OnePass ==
  ASSUME MailingInv, overruns = 0
  PROVE  /\ \A v, w \in Passes : v = w
         /\ ~campaignLock => Passes = {}
<1>1. IsFiniteSet(Passes) /\ Cardinality(Passes) \in Nat /\ PassesOK
  BY PassesFinite DEF MailingInv
<1>2. Cardinality(Passes) <= 1
  BY <1>1 DEF PassesOK
<1>3. \A v, w \in Passes : v = w
  BY <1>1, <1>2, CountOne
<1>4. ASSUME ~campaignLock PROVE Passes = {}
  <2>1. Cardinality(Passes) = 0
    BY <1>1, <1>4 DEF PassesOK
  <2> QED BY <1>1, <2>1, FS_EmptySet
<1> QED BY <1>3, <1>4

LEMMA TextsAreNumbers ==
  ASSUME MailingInv
  PROVE  SumFunctionOnSet(texted, Recipients) \in Int
<1>1. \A r \in Recipients : texted[r] \in Int
  BY MailingTypes
<1> QED BY <1>1, CampaignAssumption, SumType

Counts == (\A r \in Recipients : TextedOK(r)) /\ AloneOK

\* A step that gives nobody a recipient, takes none and sends nothing.
LEMMA CountsKept ==
  ASSUME MailingInv, MailingInv', Counts, UNCHANGED <<texted, mailerDeaths>>,
         overruns' \in {overruns, overruns + 1},
         \A r \in Recipients : /\ Tried(r)' <=> Tried(r)
                               /\ message[r] = "PENDING" => message'[r] = "PENDING",
         \A w \in CampaignWorkers : /\ mailing'[w].batch = mailing[w].batch
                                    /\ mailing'[w].to = mailing[w].to
  PROVE  Counts'
<1>1. /\ mailing \in [CampaignWorkers -> MailRows] /\ mailing' \in [CampaignWorkers -> MailRows]
      /\ texted \in [Recipients -> Nat] /\ mailerDeaths \in Nat /\ overruns \in Nat
  BY MailingTypes DEF MailingInv, CampaignTypeOK, MailRows
<1>2. ASSUME NEW r \in Recipients PROVE TextedOK(r)'
  <2>1. Yet(r)' = Yet(r) /\ Unrecorded(r)' = Unrecorded(r)
    BY DEF Yet, Unrecorded
  <2>2. TextedOK(r)
    BY DEF Counts
  <2>3. Cardinality(Yet(r)) \in Nat /\ Cardinality(Unrecorded(r)) \in Nat
    BY HoldersFinite
  <2>4. CASE Tried(r)
    <3>1. texted[r] + Cardinality(Yet(r)) <= 1 + overruns + mailerDeaths
      BY <2>2, <2>4 DEF TextedOK
    <3>2. texted'[r] + Cardinality(Yet(r)') <= 1 + overruns' + mailerDeaths'
      BY <1>1, <2>1, <2>3, <3>1
    <3> QED BY <2>4, <3>2 DEF TextedOK
  <2>5. CASE ~Tried(r)
    <3>1. texted[r] <= Cardinality(Unrecorded(r)) + mailerDeaths
      BY <2>2, <2>5 DEF TextedOK
    <3>2. texted'[r] <= Cardinality(Unrecorded(r)') + mailerDeaths'
      BY <2>1, <3>1
    <3> QED BY <2>5, <3>2 DEF TextedOK
  <2> QED BY <2>4, <2>5
<1>3. AloneOK'
  <2> SUFFICES ASSUME overruns' = 0
               PROVE  /\ \A w \in CampaignWorkers : \A r \in mailing'[w].batch : message'[r] = "PENDING"
                      /\ SumFunctionOnSet(texted', Recipients) <= Cardinality(Reached') + mailerDeaths'
    BY DEF AloneOK
  <2>1. /\ \A w \in CampaignWorkers : \A r \in mailing[w].batch : message[r] = "PENDING"
        /\ SumFunctionOnSet(texted, Recipients) <= Cardinality(Reached) + mailerDeaths
    BY <1>1 DEF Counts, AloneOK
  <2>2. Reached' = Reached
    BY DEF Reached
  <2>3. \A w \in CampaignWorkers : \A r \in mailing'[w].batch : r \in Recipients /\ message[r] = "PENDING"
    BY <1>1, <2>1 DEF MailRows
  <2> QED BY <2>1, <2>2, <2>3
<1> QED BY <1>2, <1>3 DEF Counts

LEMMA ReadCounts ==
  ASSUME MailingInv, MailingInv', Counts, NEW w \in CampaignWorkers, readBatch(w)
  PROVE  Counts'
<1>1. PICK batch \in SUBSET Waiting : mailing' = [mailing EXCEPT ![w].pc = "send", ![w].batch = batch]
  BY DEF readBatch
<1>2. /\ mailing \in [CampaignWorkers -> MailRows]
      /\ mailing[w].batch = {} /\ mailing[w].to = {}
      /\ UNCHANGED <<message, texted, mailerDeaths, overruns>>
  BY MailingTypes DEF MailingInv, MailerOK, readBatch, At
<1>3. /\ mailing'[w].batch = batch /\ mailing'[w].to = {}
      /\ \A v \in CampaignWorkers \ {w} : mailing'[v] = mailing[v]
  BY <1>1, <1>2 DEF MailRows
<1>4. ASSUME NEW r \in Recipients PROVE TextedOK(r)'
  <2>1. Unrecorded(r)' = Unrecorded(r)
    BY <1>2, <1>3 DEF Unrecorded
  <2>2. TextedOK(r)
    BY DEF Counts
  <2>3. CASE Tried(r)
    <3>1. r \notin batch
      BY <1>1, <2>3 DEF Waiting, Tried
    <3>2. Yet(r)' = Yet(r)
      BY <1>2, <1>3, <3>1 DEF Yet
    <3> QED BY <1>2, <2>2, <2>3, <3>2 DEF TextedOK, Tried
  <2>4. CASE ~Tried(r)
    BY <1>2, <2>1, <2>2, <2>4 DEF TextedOK, Tried
  <2> QED BY <2>3, <2>4
<1>5. AloneOK'
  <2> SUFFICES ASSUME overruns' = 0
               PROVE  /\ \A v \in CampaignWorkers : \A r \in mailing'[v].batch : message'[r] = "PENDING"
                      /\ SumFunctionOnSet(texted', Recipients) <= Cardinality(Reached') + mailerDeaths'
    BY DEF AloneOK
  <2>1. /\ \A v \in CampaignWorkers : \A r \in mailing[v].batch : message[r] = "PENDING"
        /\ SumFunctionOnSet(texted, Recipients) <= Cardinality(Reached) + mailerDeaths
    BY <1>2 DEF Counts, AloneOK
  <2>2. Reached' = Reached
    BY <1>2, <1>3 DEF Reached, Tried
  <2>3. ASSUME NEW v \in CampaignWorkers, NEW r \in mailing'[v].batch PROVE message'[r] = "PENDING"
    <3>1. CASE v = w
      BY <1>1, <1>2, <1>3, <2>3, <3>1 DEF Waiting
    <3>2. CASE v # w
      BY <1>2, <1>3, <2>1, <2>3, <3>2
    <3> QED BY <3>1, <3>2
  <2> QED BY <1>2, <2>1, <2>2, <2>3
<1> QED BY <1>4, <1>5 DEF Counts

LEMMA SendCounts ==
  ASSUME MailingInv, MailingInv', Counts, NEW w \in CampaignWorkers, NEW to \in Recipients, sendOne(w, to)
  PROVE  Counts'
<1>1. PICK delivered \in BOOLEAN :
        /\ texted' = [texted EXCEPT ![to] = IF delivered THEN @ + 1 ELSE @]
        /\ mailing' = [mailing EXCEPT ![w].pc = "record", ![w].to = {to}, ![w].delivered = delivered]
  BY DEF sendOne
<1>2. /\ mailing \in [CampaignWorkers -> MailRows]
      /\ mailing[w].to = {} /\ to \in mailing[w].batch /\ mailing[w].pc = "send"
      /\ UNCHANGED <<message, mailerDeaths, overruns>>
      /\ texted \in [Recipients -> Nat] /\ mailerDeaths \in Nat /\ overruns \in Nat
  BY MailingTypes DEF MailingInv, MailerOK, sendOne, At
<1>3. /\ mailing'[w].batch = mailing[w].batch /\ mailing'[w].to = {to}
      /\ \A v \in CampaignWorkers \ {w} : mailing'[v] = mailing[v]
  BY <1>1, <1>2 DEF MailRows
<1>4. /\ texted'[to] \in {texted[to], texted[to] + 1}
      /\ \A r \in Recipients \ {to} : texted'[r] = texted[r]
      /\ texted' \in [Recipients -> Nat]
  BY <1>1, <1>2
<1>5. ASSUME NEW r \in Recipients, r # to PROVE TextedOK(r)'
  <2>1. Unrecorded(r)' = Unrecorded(r) /\ Yet(r)' = Yet(r)
    BY <1>2, <1>3, <1>5 DEF Unrecorded, Yet
  <2>2. TextedOK(r) /\ texted'[r] = texted[r]
    BY <1>4, <1>5 DEF Counts
  <2> QED BY <1>2, <2>1, <2>2 DEF TextedOK, Tried
<1>6. TextedOK(to)'
  <2>1. TextedOK(to)
    BY DEF Counts
  <2>2. CASE Tried(to)
    <3>1. w \in Yet(to) /\ Yet(to)' \in SUBSET (Yet(to) \ {w})
      BY <1>2, <1>3 DEF Yet
    <3>2. Cardinality(Yet(to)') \in Nat /\ Cardinality(Yet(to)') + 1 <= Cardinality(Yet(to))
      BY <3>1, HoldersFinite, CountOneLess
    <3>3. texted[to] + Cardinality(Yet(to)) <= 1 + overruns + mailerDeaths
      BY <2>1, <2>2 DEF TextedOK
    <3>4. texted[to] \in Nat /\ Cardinality(Yet(to)) \in Nat
      BY <1>2, HoldersFinite
    <3>5. texted'[to] + Cardinality(Yet(to)') <= 1 + overruns' + mailerDeaths'
      BY <1>2, <1>4, <3>2, <3>3, <3>4
    <3>6. Tried(to)'
      BY <1>2, <2>2 DEF Tried
    <3> QED BY <3>5, <3>6 DEF TextedOK
  <2>3. CASE ~Tried(to)
    <3>1. w \in Unrecorded(to)' /\ Unrecorded(to) \in SUBSET (Unrecorded(to)' \ {w})
      BY <1>2, <1>3 DEF Unrecorded
    <3>2. Cardinality(Unrecorded(to)) + 1 <= Cardinality(Unrecorded(to)')
      BY <3>1, HoldersFiniteNext, CountOneLess
    <3>3. texted[to] <= Cardinality(Unrecorded(to)) + mailerDeaths
      BY <2>1, <2>3 DEF TextedOK
    <3>4. /\ texted[to] \in Nat /\ Cardinality(Unrecorded(to)) \in Nat
          /\ Cardinality(Unrecorded(to)') \in Nat
      BY <1>2, HoldersFinite, HoldersFiniteNext
    <3>5. texted'[to] <= Cardinality(Unrecorded(to)') + mailerDeaths'
      BY <1>2, <1>4, <3>2, <3>3, <3>4
    <3>6. ~Tried(to)'
      BY <1>2, <2>3 DEF Tried
    <3> QED BY <3>5, <3>6 DEF TextedOK
  <2> QED BY <2>2, <2>3
<1>7. AloneOK'
  <2> SUFFICES ASSUME overruns' = 0
               PROVE  /\ \A v \in CampaignWorkers : \A r \in mailing'[v].batch : message'[r] = "PENDING"
                      /\ SumFunctionOnSet(texted', Recipients) <= Cardinality(Reached') + mailerDeaths'
    BY DEF AloneOK
  <2>1. /\ \A v \in CampaignWorkers : \A r \in mailing[v].batch : message[r] = "PENDING"
        /\ SumFunctionOnSet(texted, Recipients) <= Cardinality(Reached) + mailerDeaths
        /\ \A v, u \in Passes : v = u
    BY <1>2, OnePass DEF Counts, AloneOK
  <2>2. ASSUME NEW v \in CampaignWorkers, NEW r \in mailing'[v].batch PROVE message'[r] = "PENDING"
    <3>1. mailing'[v].batch = mailing[v].batch
      BY <1>3
    <3> QED BY <1>2, <2>1, <2>2, <3>1
  <2>3. to \notin Reached
    <3>1. ASSUME NEW v \in CampaignWorkers, to \in mailing[v].to PROVE FALSE
      <4>1. mailing[v].pc = "record"
        BY <3>1 DEF MailingInv, MailerOK
      <4>2. v \in Passes /\ w \in Passes
        BY <1>2, <4>1 DEF Passes
      <4> QED BY <1>2, <2>1, <4>1, <4>2
    <3>2. ~Tried(to)
      BY <1>2, <2>1 DEF Tried
    <3> QED BY <3>1, <3>2 DEF Reached
  <2>4. to \in Reached' /\ Reached \in SUBSET (Reached' \ {to})
    <3>1. to \in Reached'
      BY <1>3 DEF Reached
    <3>2. ASSUME NEW r \in Reached PROVE r \in Reached'
      BY <1>2, <1>3, <3>2 DEF Reached, Tried
    <3> QED BY <2>3, <3>1, <3>2
  <2>5. Cardinality(Reached) + 1 <= Cardinality(Reached')
    BY <2>4, ReachedFinite, CountOneLess
  <2>6. SumFunctionOnSet(texted', Recipients)
          = SumFunctionOnSet(texted, Recipients) - texted[to] + texted'[to]
    <3>1. /\ \A r \in Recipients : texted[r] \in Int
          /\ texted'[to] \in Int
      BY <1>2, <1>4
    <3> QED BY <1>4, <3>1, CampaignAssumption, SumUpdate
  <2>7. SumFunctionOnSet(texted, Recipients) \in Int /\ texted[to] \in Nat
    BY <1>2, TextsAreNumbers
  <2>8. Cardinality(Reached) \in Nat /\ Cardinality(Reached') \in Nat
    BY ReachedFinite
  <2>9. SumFunctionOnSet(texted', Recipients) <= Cardinality(Reached') + mailerDeaths'
    BY <1>2, <1>4, <2>1, <2>5, <2>6, <2>7, <2>8
  <2> QED BY <2>2, <2>9
<1> QED BY <1>5, <1>6, <1>7 DEF Counts

LEMMA RecordCounts ==
  ASSUME MailingInv, MailingInv', Counts, NEW w \in CampaignWorkers, recordOne(w)
  PROVE  Counts'
<1>1. PICK to \in mailing[w].batch : mailing[w].to = {to}
  BY DEF MailingInv, MailerOK, recordOne, At
<1>2. /\ mailing \in [CampaignWorkers -> MailRows] /\ to \in Recipients
      /\ UNCHANGED <<texted, mailerDeaths, overruns>> /\ w \in Passes
      /\ texted \in [Recipients -> Nat] /\ mailerDeaths \in Nat /\ overruns \in Nat
  BY <1>1, MailingTypes DEF MailRows, recordOne, At, Passes
<1>3. /\ mailing'[w].batch = mailing[w].batch \ {to} /\ mailing'[w].to = {}
      /\ \A v \in CampaignWorkers \ {w} : mailing'[v] = mailing[v]
  <2> DEFINE row == [NotMailing EXCEPT !.pc = "send", !.batch = mailing[w].batch \ mailing[w].to]
  <2>1. row.batch = mailing[w].batch \ {to} /\ row.to = {}
    BY <1>1 DEF NotMailing
  <2>2. mailing' = [mailing EXCEPT ![w] = row]
    BY DEF recordOne
  <2> HIDE DEF row
  <2> QED BY <1>2, <2>1, <2>2
<1>4. /\ message'[to] \in {"SENT", "FAILED"}
      /\ \A r \in Recipients \ {to} : message'[r] = message[r]
  BY <1>1, <1>2 DEF recordOne
<1>5. ASSUME NEW r \in Recipients PROVE Yet(r)' = Yet(r)
  <2>1. ASSUME NEW v \in CampaignWorkers
        PROVE  r \in mailing'[v].batch \ mailing'[v].to <=> r \in mailing[v].batch \ mailing[v].to
    BY <1>1, <1>3
  <2> QED BY <2>1 DEF Yet
<1>6. ASSUME NEW r \in Recipients, r # to PROVE TextedOK(r)'
  <2>1. Unrecorded(r)' = Unrecorded(r)
    BY <1>1, <1>3, <1>6 DEF Unrecorded
  <2>2. TextedOK(r) /\ (Tried(r)' <=> Tried(r))
    BY <1>4, <1>6 DEF Counts, Tried
  <2> QED BY <1>2, <1>5, <2>1, <2>2 DEF TextedOK
<1>7. TextedOK(to)'
  <2>1. TextedOK(to) /\ Tried(to)'
    BY <1>2, <1>4 DEF Counts, Tried
  <2>2. Yet(to)' = Yet(to)
    BY <1>2, <1>5
  <2>3. CASE Tried(to)
    BY <1>2, <2>1, <2>2, <2>3 DEF TextedOK
  <2>4. CASE ~Tried(to)
    <3>1. texted[to] <= Cardinality(Unrecorded(to)) + mailerDeaths
      BY <2>1, <2>4 DEF TextedOK
    <3>2. IsFiniteSet(Passes) /\ Cardinality(Passes) \in Nat /\ Cardinality(Passes) <= 1 + overruns
      BY <1>2, PassesFinite DEF MailingInv, PassesOK
    <3>3. Yet(to) \in SUBSET Passes /\ Unrecorded(to) \in SUBSET Passes /\ Yet(to) \cap Unrecorded(to) = {}
      BY DEF Yet, Unrecorded, Passes, MailingInv, MailerOK
    <3>4. Cardinality(Yet(to)) + Cardinality(Unrecorded(to)) <= Cardinality(Passes)
      BY <3>2, <3>3, CountApart
    <3>5. texted[to] \in Nat /\ Cardinality(Yet(to)) \in Nat /\ Cardinality(Unrecorded(to)) \in Nat
      BY <1>2, HoldersFinite
    <3>6. texted'[to] + Cardinality(Yet(to)') <= 1 + overruns' + mailerDeaths'
      BY <1>2, <2>2, <3>1, <3>2, <3>4, <3>5
    <3> QED BY <2>1, <3>6 DEF TextedOK
  <2> QED BY <2>3, <2>4
<1>8. AloneOK'
  <2> SUFFICES ASSUME overruns' = 0
               PROVE  /\ \A v \in CampaignWorkers : \A r \in mailing'[v].batch : message'[r] = "PENDING"
                      /\ SumFunctionOnSet(texted', Recipients) <= Cardinality(Reached') + mailerDeaths'
    BY DEF AloneOK
  <2>1. /\ \A v \in CampaignWorkers : \A r \in mailing[v].batch : message[r] = "PENDING"
        /\ SumFunctionOnSet(texted, Recipients) <= Cardinality(Reached) + mailerDeaths
        /\ \A v, u \in Passes : v = u
    BY <1>2, OnePass DEF Counts, AloneOK
  <2>2. ASSUME NEW v \in CampaignWorkers, NEW r \in mailing'[v].batch PROVE message'[r] = "PENDING"
    <3>1. CASE v = w
      BY <1>2, <1>3, <1>4, <2>1, <2>2, <3>1 DEF MailRows
    <3>2. CASE v # w
      <4>1. mailing[v].batch = {}
        BY <1>2, <2>1, <3>2 DEF Passes, MailingInv, MailerOK
      <4> QED BY <1>3, <2>2, <3>2, <4>1
    <3> QED BY <3>1, <3>2
  <2>3. ASSUME NEW r \in Recipients PROVE r \in Reached' <=> r \in Reached
    <3>1. CASE r = to
      BY <1>1, <1>2, <1>4, <3>1 DEF Reached, Tried
    <3>2. CASE r # to
      BY <1>1, <1>3, <1>4, <3>2 DEF Reached, Tried
    <3> QED BY <3>1, <3>2
  <2>4. Reached' = Reached
    BY <2>3 DEF Reached
  <2> QED BY <1>2, <2>1, <2>2, <2>4
<1> QED BY <1>6, <1>7, <1>8 DEF Counts

\* A pass that dies with a message nobody recorded costs one of the deaths.
LEMMA DieCounts ==
  ASSUME MailingInv, MailingInv', Counts, NEW w \in CampaignWorkers, mailerDies(w)
  PROVE  Counts'
<1>1. /\ mailing \in [CampaignWorkers -> MailRows] /\ w \in Passes
      /\ UNCHANGED <<message, texted, overruns>> /\ mailerDeaths' = mailerDeaths + 1
      /\ texted \in [Recipients -> Nat] /\ mailerDeaths \in Nat /\ overruns \in Nat
  BY MailingTypes DEF mailerDies, At, Passes
<1>2. /\ mailing'[w].batch = {} /\ mailing'[w].to = {}
      /\ \A v \in CampaignWorkers \ {w} : mailing'[v] = mailing[v]
  BY <1>1 DEF mailerDies, NotMailing
<1>3. ASSUME NEW r \in Recipients PROVE TextedOK(r)'
  <2>1. TextedOK(r) /\ (Tried(r)' <=> Tried(r)) /\ texted[r] \in Nat
    BY <1>1 DEF Counts, Tried
  <2>2. Yet(r)' \in SUBSET Yet(r) /\ Unrecorded(r) \in SUBSET (Unrecorded(r)' \cup {w})
    BY <1>2 DEF Yet, Unrecorded
  <2>3. Cardinality(Yet(r)') <= Cardinality(Yet(r))
    BY <2>2, HoldersFinite, CountNoMore
  <2>4. Cardinality(Unrecorded(r)) <= Cardinality(Unrecorded(r)') + 1
    BY <2>2, HoldersFiniteNext, CountOneMore
  <2>5. /\ Cardinality(Yet(r)) \in Nat /\ Cardinality(Yet(r)') \in Nat
        /\ Cardinality(Unrecorded(r)) \in Nat /\ Cardinality(Unrecorded(r)') \in Nat
    BY HoldersFinite, HoldersFiniteNext
  <2>6. CASE Tried(r)
    <3>1. texted[r] + Cardinality(Yet(r)) <= 1 + overruns + mailerDeaths
      BY <2>1, <2>6 DEF TextedOK
    <3>2. texted'[r] + Cardinality(Yet(r)') <= 1 + overruns' + mailerDeaths'
      BY <1>1, <2>1, <2>3, <2>5, <3>1
    <3> QED BY <2>1, <2>6, <3>2 DEF TextedOK
  <2>7. CASE ~Tried(r)
    <3>1. texted[r] <= Cardinality(Unrecorded(r)) + mailerDeaths
      BY <2>1, <2>7 DEF TextedOK
    <3>2. texted'[r] <= Cardinality(Unrecorded(r)') + mailerDeaths'
      BY <1>1, <2>1, <2>4, <2>5, <3>1
    <3> QED BY <2>1, <2>7, <3>2 DEF TextedOK
  <2> QED BY <2>6, <2>7
<1>4. AloneOK'
  <2> SUFFICES ASSUME overruns' = 0
               PROVE  /\ \A v \in CampaignWorkers : \A r \in mailing'[v].batch : message'[r] = "PENDING"
                      /\ SumFunctionOnSet(texted', Recipients) <= Cardinality(Reached') + mailerDeaths'
    BY DEF AloneOK
  <2>1. /\ \A v \in CampaignWorkers : \A r \in mailing[v].batch : message[r] = "PENDING"
        /\ SumFunctionOnSet(texted, Recipients) <= Cardinality(Reached) + mailerDeaths
    BY <1>1 DEF Counts, AloneOK
  <2>2. ASSUME NEW v \in CampaignWorkers, NEW r \in mailing'[v].batch PROVE message'[r] = "PENDING"
    BY <1>1, <1>2, <2>1, <2>2
  <2>3. \E to : mailing[w].to \in SUBSET {to}
    BY DEF MailingInv, MailerOK
  <2>4. PICK to : mailing[w].to \in SUBSET {to}
    BY <2>3
  <2>5. Reached \in SUBSET (Reached' \cup {to})
    <3>1. ASSUME NEW r \in Reached, r # to PROVE r \in Reached'
      BY <1>1, <1>2, <2>4, <3>1 DEF Reached, Tried
    <3> QED BY <3>1
  <2>6. Cardinality(Reached) <= Cardinality(Reached') + 1
    BY <2>5, ReachedFinite, CountOneMore
  <2>7. /\ Cardinality(Reached) \in Nat /\ Cardinality(Reached') \in Nat
        /\ SumFunctionOnSet(texted, Recipients) \in Int
    BY ReachedFinite, TextsAreNumbers
  <2>8. SumFunctionOnSet(texted', Recipients) <= Cardinality(Reached') + mailerDeaths'
    BY <1>1, <2>1, <2>6, <2>7
  <2> QED BY <2>2, <2>8
<1> QED BY <1>3, <1>4 DEF Counts

LEMMA CountsStep ==
  ASSUME CampaignInv, MailingInv', NEW w \in CampaignWorkers, CampaignStep(w)
  PROVE  Counts'
<1>0. MailingInv /\ Counts
  BY DEF CampaignInv, Counts
<1>1. mailing \in [CampaignWorkers -> MailRows]
  BY <1>0, MailingTypes
<1>2. ASSUME NEW step, GoesTo(w, step), UNCHANGED <<texted, mailerDeaths, overruns>>,
             \A r \in Recipients : /\ Tried(r)' <=> Tried(r)
                                   /\ message[r] = "PENDING" => message'[r] = "PENDING"
      PROVE  Counts'
  <2>1. \A v \in CampaignWorkers : /\ mailing'[v].batch = mailing[v].batch
                                   /\ mailing'[v].to = mailing[v].to
    BY <1>1, <1>2 DEF GoesTo, MailRows
  <2>2. overruns' \in {overruns, overruns + 1}
    BY <1>2
  <2> QED BY <1>0, <1>2, <2>1, <2>2, CountsKept
<1>3. ASSUME NEW step, GoesTo(w, step), UNCHANGED <<message, texted, mailerDeaths, overruns>>
      PROVE  Counts'
  BY <1>2, <1>3 DEF Tried
<1>4. CASE takeCampaignLock(w)
  BY <1>3, <1>4 DEF takeCampaignLock
<1>5. CASE claimCampaign(w)
  BY <1>3, <1>5 DEF claimCampaign
<1>6. CASE snapshotRecipients(w)
  <2>1. ASSUME NEW r \in Recipients
        PROVE  /\ Tried(r)' <=> Tried(r)
               /\ message[r] = "PENDING" => message'[r] = "PENDING"
    BY <1>6 DEF snapshotRecipients, Tried
  <2> QED BY <1>2, <1>6, <2>1 DEF snapshotRecipients
<1>7. CASE listSending(w)
  BY <1>3, <1>7 DEF listSending
<1>8. CASE countWaiting(w)
  BY <1>3, <1>8 DEF countWaiting
<1>9. CASE finishCampaign(w)
  BY <1>3, <1>9 DEF finishCampaign
<1>10. CASE unlockCampaigns(w)
  <2>1. mailing[w].batch = {} /\ mailing[w].to = {}
    BY <1>0, <1>10 DEF MailingInv, MailerOK, unlockCampaigns, At
  <2>2. \A v \in CampaignWorkers : /\ mailing'[v].batch = mailing[v].batch
                                   /\ mailing'[v].to = mailing[v].to
    BY <1>1, <1>10, <2>1 DEF unlockCampaigns, NotMailing
  <2>3. /\ overruns' \in {overruns, overruns + 1}
        /\ UNCHANGED <<texted, mailerDeaths>>
        /\ \A r \in Recipients : /\ Tried(r)' <=> Tried(r)
                                 /\ message[r] = "PENDING" => message'[r] = "PENDING"
    BY <1>10 DEF unlockCampaigns, Tried
  <2> QED BY <1>0, <2>2, <2>3, CountsKept
<1>11. CASE readBatch(w)
  BY <1>0, <1>11, ReadCounts
<1>12. ASSUME NEW r \in Recipients, sendOne(w, r) PROVE Counts'
  BY <1>0, <1>12, SendCounts
<1>13. CASE recordOne(w)
  BY <1>0, <1>13, RecordCounts
<1>14. CASE mailerDies(w)
  BY <1>0, <1>14, DieCounts
<1> QED BY <1>4, <1>5, <1>6, <1>7, <1>8, <1>9, <1>10, <1>11, <1>12, <1>13, <1>14 DEF CampaignStep

LEMMA CountsBeside ==
  ASSUME CampaignInv, MailingInv', cancelCampaign \/ campaignLockExpires
  PROVE  Counts'
<1>1. MailingInv /\ Counts
  BY DEF CampaignInv, Counts
<1>2. /\ UNCHANGED <<mailing, message, texted, mailerDeaths>>
      /\ overruns' \in {overruns, overruns + 1}
  BY DEF cancelCampaign, campaignLockExpires
<1>3. /\ \A v \in CampaignWorkers : /\ mailing'[v].batch = mailing[v].batch
                                    /\ mailing'[v].to = mailing[v].to
      /\ \A r \in Recipients : /\ Tried(r)' <=> Tried(r)
                               /\ message[r] = "PENDING" => message'[r] = "PENDING"
  BY <1>2 DEF Tried
<1> QED BY <1>1, <1>2, <1>3, CountsKept

\* While nothing failed a pass is alone: what the end of the campaign needs is what its pass
\* has done by then.
LEMMA FaultlessStep ==
  ASSUME CampaignInv, NEW w \in CampaignWorkers, CampaignStep(w)
  PROVE  FaultlessOK'
<1> SUFFICES ASSUME mailerDeaths' + overruns' = 0 PROVE FaultlessOK'
  BY DEF FaultlessOK
<1>1. MailingInv /\ mailing \in [CampaignWorkers -> MailRows] /\ mailerDeaths \in Nat /\ overruns \in Nat
      /\ message \in [Recipients -> {"NONE", "PENDING", "SENT", "FAILED"}]
  BY MailingTypes DEF CampaignInv
<1>2. overruns' = overruns /\ mailerDeaths' \in {mailerDeaths, mailerDeaths + 1}
  BY DEF CampaignStep, takeCampaignLock, claimCampaign, snapshotRecipients, listSending, readBatch,
      sendOne, recordOne, countWaiting, finishCampaign, unlockCampaigns, mailerDies
<1>3. overruns = 0 /\ mailerDeaths = 0 /\ ~mailerDies(w)
  <2>1. mailerDeaths' = mailerDeaths \/ mailerDeaths' = mailerDeaths + 1
    BY <1>2
  <2>2. ASSUME mailerDeaths' = mailerDeaths + 1 PROVE FALSE
    <3>1. (mailerDeaths + 1) + overruns = 0
      BY <1>2, <2>2
    <3> QED BY <1>1, <3>1
  <2>3. mailerDeaths + overruns = 0 /\ mailerDeaths' = mailerDeaths
    BY <1>2, <2>1, <2>2
  <2> QED BY <1>1, <2>3 DEF mailerDies
<1>4. /\ campaign = "SENDING" => \/ \E v \in CampaignWorkers : mailing[v].pc = "snapshot"
                                 \/ \A r \in Recipients : message[r] # "NONE"
      /\ \A v \in CampaignWorkers :
           /\ mailing[v].pc \in {"batch", "send", "record", "finish"} =>
                 \A r \in Recipients : message[r] # "NONE"
           /\ mailing[v].pc = "finish" => Waiting = {}
      /\ campaign = "SENT" => \A r \in Recipients : Tried(r)
  BY <1>3 DEF CampaignInv, FaultlessOK
<1>5. PICK row \in MailRows : mailing' = [mailing EXCEPT ![w] = row]
  BY <1>1, RowOfStep
<1>6. mailing'[w] = row /\ \A v \in CampaignWorkers \ {w} : mailing'[v] = mailing[v]
  BY <1>1, <1>5, OneMails
<1>7. \A v \in CampaignWorkers \ {w} : mailing[v].pc = "idle"
  <2> SUFFICES ASSUME NEW v \in CampaignWorkers \ {w}, mailing[v].pc # "idle" PROVE FALSE
    OBVIOUS
  <2>1. v \in Passes /\ \A u \in Passes : u = v
    BY <1>1, <1>3, OnePass DEF Passes
  <2>2. mailing[w].pc = "idle"
    BY <2>1 DEF Passes
  <2>3. takeCampaignLock(w)
    BY <2>2 DEF CampaignStep, claimCampaign, snapshotRecipients, listSending, readBatch,
      sendOne, recordOne, countWaiting, finishCampaign, unlockCampaigns, mailerDies, At
  <2> QED BY <1>1, <1>3, <2>1, <2>3, OnePass DEF takeCampaignLock, LockIsFree
<1>8. ASSUME campaign' = "SENDING" => \/ row.pc = "snapshot"
                                      \/ \A r \in Recipients : message'[r] # "NONE",
             row.pc \in {"batch", "send", "record", "finish"} => \A r \in Recipients : message'[r] # "NONE",
             row.pc = "finish" => \A r \in Recipients : message'[r] # "PENDING",
             campaign' = "SENT" => \A r \in Recipients : message'[r] \in {"SENT", "FAILED"}
      PROVE  FaultlessOK'
  <2>1. \A v \in CampaignWorkers :
           /\ mailing'[v].pc \in {"batch", "send", "record", "finish"} =>
                 \A r \in Recipients : message'[r] # "NONE"
           /\ mailing'[v].pc = "finish" => Waiting' = {}
    BY <1>6, <1>7, <1>8 DEF Waiting
  <2>2. campaign' = "SENDING" => \/ \E v \in CampaignWorkers : mailing'[v].pc = "snapshot"
                                 \/ \A r \in Recipients : message'[r] # "NONE"
    BY <1>6, <1>8
  <2>3. campaign' = "SENT" => \A r \in Recipients : Tried(r)'
    BY <1>8 DEF Tried
  <2> QED BY <2>1, <2>2, <2>3 DEF FaultlessOK
<1>9. mailing[w].pc # "snapshot" /\ campaign = "SENDING" => \A r \in Recipients : message[r] # "NONE"
  BY <1>4, <1>7
<1>10. \A r \in Recipients : Tried(r) => message[r] \notin {"NONE", "PENDING"}
  BY DEF Tried
<1>11. ASSUME NEW step, GoesTo(w, step) PROVE row.pc = step
  BY <1>1, <1>6, <1>11 DEF GoesTo, MailRows
<1>12. CASE takeCampaignLock(w)
  BY <1>4, <1>8, <1>9, <1>11, <1>12 DEF takeCampaignLock, Tried, At
<1>13. CASE claimCampaign(w)
  <2>1. CASE campaign = "SCHEDULED"
    BY <1>8, <1>11, <1>13, <2>1 DEF claimCampaign
  <2>2. CASE campaign # "SCHEDULED"
    BY <1>4, <1>8, <1>9, <1>11, <1>13, <2>2 DEF claimCampaign, Tried, At
  <2> QED BY <2>1, <2>2
<1>14. CASE snapshotRecipients(w)
  <2>1. /\ \A r \in Recipients : message'[r] # "NONE" /\ (Tried(r) => message'[r] = message[r])
        /\ row.pc = "list" /\ campaign' = campaign
    BY <1>11, <1>14 DEF snapshotRecipients, Tried
  <2> QED BY <1>4, <1>8, <2>1 DEF Tried
<1>15. CASE listSending(w)
  BY <1>4, <1>8, <1>9, <1>11, <1>15 DEF listSending, Tried, At
<1>16. CASE readBatch(w)
  <2>1. row.pc = "send"
    <3>1. PICK batch \in SUBSET Waiting : mailing' = [mailing EXCEPT ![w].pc = "send", ![w].batch = batch]
      BY <1>16 DEF readBatch
    <3> QED BY <1>1, <1>6, <3>1 DEF MailRows
  <2> QED BY <1>4, <1>8, <1>16, <2>1 DEF readBatch, Tried, At
<1>17. ASSUME NEW r \in Recipients, sendOne(w, r) PROVE FaultlessOK'
  <2>1. row.pc = "record"
    <3>1. PICK delivered \in BOOLEAN :
            mailing' = [mailing EXCEPT ![w].pc = "record", ![w].to = {r}, ![w].delivered = delivered]
      BY <1>17 DEF sendOne
    <3> QED BY <1>1, <1>6, <3>1 DEF MailRows
  <2> QED BY <1>4, <1>8, <1>17, <2>1 DEF sendOne, Tried, At
<1>18. CASE recordOne(w)
  <2>1. row.pc = "send"
    <3> DEFINE new == [NotMailing EXCEPT !.pc = "send", !.batch = mailing[w].batch \ mailing[w].to]
    <3>1. new.pc = "send"
      BY DEF NotMailing
    <3>2. mailing' = [mailing EXCEPT ![w] = new]
      BY <1>18 DEF recordOne
    <3> HIDE DEF new
    <3> QED BY <1>1, <1>6, <3>1, <3>2
  <2>2. \A r \in Recipients : message'[r] \in {message[r], "SENT", "FAILED"}
    BY <1>18 DEF recordOne
  <2>3. campaign' = campaign /\ mailing[w].pc = "record"
    BY <1>18 DEF recordOne, At
  <2> QED BY <1>4, <1>8, <2>1, <2>2, <2>3 DEF Tried
<1>19. CASE countWaiting(w)
  BY <1>4, <1>8, <1>11, <1>19 DEF countWaiting, Tried, At, Waiting
<1>20. CASE finishCampaign(w)
  <2>1. \A r \in Recipients : message[r] \in {"SENT", "FAILED"}
    BY <1>1, <1>4, <1>20 DEF finishCampaign, At, Waiting
  <2> QED BY <1>8, <1>11, <1>20, <2>1 DEF finishCampaign
<1>21. CASE unlockCampaigns(w)
  <2>1. row.pc = "idle"
    BY <1>1, <1>6, <1>21 DEF unlockCampaigns, NotMailing
  <2> QED BY <1>4, <1>8, <1>9, <1>21, <2>1 DEF unlockCampaigns, Tried, At
<1> QED BY <1>3, <1>12, <1>13, <1>14, <1>15, <1>16, <1>17, <1>18, <1>19, <1>20, <1>21 DEF CampaignStep

LEMMA FaultlessBeside ==
  ASSUME CampaignInv, cancelCampaign \/ campaignLockExpires
  PROVE  FaultlessOK'
<1> SUFFICES ASSUME mailerDeaths' + overruns' = 0 PROVE FaultlessOK'
  BY DEF FaultlessOK
<1>1. /\ UNCHANGED <<mailing, message, mailerDeaths>> /\ campaign' \in {campaign, "CANCELLED"}
      /\ overruns' \in {overruns, overruns + 1} /\ mailerDeaths \in Nat /\ overruns \in Nat
  BY MailingTypes DEF cancelCampaign, campaignLockExpires, CampaignInv
<1>2. mailerDeaths + overruns = 0
  <2>1. mailerDeaths' = mailerDeaths /\ (overruns' = overruns \/ overruns' = overruns + 1)
    BY <1>1
  <2>2. mailerDeaths \in Nat /\ overruns \in Nat
    BY <1>1
  <2>3. CASE overruns' = overruns
    BY <2>1, <2>3
  <2>4. CASE overruns' = overruns + 1
    <3>1. mailerDeaths + (overruns + 1) = 0
      BY <2>1, <2>4
    <3> QED BY <2>2, <3>1
  <2> QED BY <2>1, <2>3, <2>4
<1>3. Waiting' = Waiting /\ \A r \in Recipients : Tried(r)' <=> Tried(r)
  BY <1>1 DEF Waiting, Tried
<1> QED BY <1>1, <1>2, <1>3 DEF CampaignInv, FaultlessOK

LEMMA InitCampaign == CampaignInit => CampaignInv
<1> SUFFICES ASSUME CampaignInit PROVE CampaignInv
  OBVIOUS
<1>1. NotMailing \in MailRows /\ MailerOK(NotMailing) /\ NotMailing.pc = "idle"
      /\ NotMailing.batch = {} /\ NotMailing.to = {}
  BY DEF NotMailing, MailRows, MailerOK
<1>2. \A w \in CampaignWorkers : mailing[w] = NotMailing
  BY DEF CampaignInit
<1>3. CampaignTypeOK
  <2>1. mailing \in [CampaignWorkers -> MailRows]
    BY <1>1 DEF CampaignInit
  <2>2. campaignLock \in BOOLEAN
    BY Zenon DEF CampaignInit
  <2>3. /\ campaign \in {"SCHEDULED", "SENDING", "SENT", "CANCELLED"}
        /\ message \in [Recipients -> {"NONE", "PENDING", "SENT", "FAILED"}]
        /\ texted \in [Recipients -> Nat] /\ mailerDeaths \in Nat /\ overruns \in Nat
    BY DEF CampaignInit
  <2> QED BY <2>1, <2>2, <2>3, Zenon DEF CampaignTypeOK, MailRows
<1>4. PassesOK
  <2>1. Passes = {}
    BY <1>1, <1>2 DEF Passes
  <2>2. Cardinality(Passes) = 0
    BY <2>1, FS_EmptySet
  <2> QED BY <2>2 DEF PassesOK, CampaignInit
<1>5. MailingInv
  BY <1>1, <1>2, <1>3, <1>4 DEF MailingInv
<1>6. ASSUME NEW r \in Recipients PROVE TextedOK(r)
  <2>1. ~Tried(r) /\ texted[r] = 0 /\ mailerDeaths = 0
    BY DEF Tried, CampaignInit
  <2>2. Cardinality(Unrecorded(r)) \in Nat
    BY HoldersFinite
  <2> QED BY <2>1, <2>2 DEF TextedOK
<1>7. AloneOK
  <2>1. SumFunctionOnSet(texted, Recipients) = 0
    <3>1. texted = [r \in Recipients |-> 0]
      BY DEF CampaignInit
    <3>2. SumFunctionOnSet([r \in Recipients |-> 0], Recipients) = 0
      BY CampaignAssumption, SumZero
    <3> QED BY <3>1, <3>2, Zenon
  <2>2. Cardinality(Reached) \in Nat /\ mailerDeaths = 0
    BY ReachedFinite DEF CampaignInit
  <2> QED BY <1>1, <1>2, <2>1, <2>2 DEF AloneOK
<1>8. FaultlessOK
  BY <1>1, <1>2 DEF FaultlessOK, CampaignInit
<1> QED BY <1>5, <1>6, <1>7, <1>8 DEF CampaignInv

LEMMA MailingInductive == CampaignInv /\ [CampaignNext]_campaignVars => CampaignInv'
<1> SUFFICES ASSUME CampaignInv, [CampaignNext]_campaignVars PROVE CampaignInv'
  OBVIOUS
<1>1. ASSUME NEW w \in CampaignWorkers, CampaignStep(w) PROVE CampaignInv'
  <2>1. MailingInv'
    BY <1>1, MailingStep DEF CampaignInv
  <2> QED BY <1>1, <2>1, CountsStep, FaultlessStep DEF CampaignInv, Counts
<1>2. CASE cancelCampaign \/ campaignLockExpires
  <2>1. MailingInv'
    BY <1>2, BesideStep DEF CampaignInv
  <2> QED BY <1>2, <2>1, CountsBeside, FaultlessBeside DEF CampaignInv, Counts
<1>3. CASE UNCHANGED campaignVars
  BY <1>3 DEF campaignVars, CampaignInv, MailingInv, CampaignTypeOK, MailerOK, PassesOK, Passes, TextedOK,
     Tried, Yet, Unrecorded, AloneOK, Reached, FaultlessOK, Waiting
<1> QED BY <1>1, <1>2, <1>3 DEF CampaignNext, CampaignStep

LEMMA CampaignInductive == CampaignSpec => []CampaignInv
  BY InitCampaign, MailingInductive, PTL DEF CampaignSpec

\* A campaign repeats a message only where a pass died or its lock ran out, and within the
\* bounds those faults give (processCampaigns, campaigns.ts:17).
THEOREM RepeatsAreFaults == CampaignSpec => []MessagesRepeatOnlyByFaults
<1>1. CampaignInv => MessagesRepeatOnlyByFaults
  <2> SUFFICES ASSUME CampaignInv PROVE MessagesRepeatOnlyByFaults
    OBVIOUS
  <2>1. /\ MailingInv /\ texted \in [Recipients -> Nat] /\ mailerDeaths \in Nat /\ overruns \in Nat
    BY MailingTypes DEF CampaignInv
  <2>2. ASSUME NEW r \in Recipients PROVE texted[r] <= 1 + mailerDeaths + overruns
    <3>1. TextedOK(r) /\ texted[r] \in Nat
      BY <2>1 DEF CampaignInv
    <3>2. Cardinality(Yet(r)) \in Nat /\ Cardinality(Unrecorded(r)) \in Nat
      BY HoldersFinite
    <3>3. Unrecorded(r) \in SUBSET Passes
      BY <2>1 DEF Unrecorded, Passes, MailingInv, MailerOK
    <3>4. IsFiniteSet(Passes) /\ Cardinality(Passes) \in Nat /\ Cardinality(Passes) <= 1 + overruns
      BY <2>1, PassesFinite DEF MailingInv, PassesOK
    <3>5. Cardinality(Unrecorded(r)) <= Cardinality(Passes)
      BY <3>3, <3>4, CountNoMore
    <3>6. CASE Tried(r)
      <4>1. texted[r] + Cardinality(Yet(r)) <= 1 + overruns + mailerDeaths
        BY <3>1, <3>6 DEF TextedOK
      <4> QED BY <2>1, <3>1, <3>2, <4>1
    <3>7. CASE ~Tried(r)
      <4>1. texted[r] <= Cardinality(Unrecorded(r)) + mailerDeaths
        BY <3>1, <3>7 DEF TextedOK
      <4> QED BY <2>1, <3>1, <3>2, <3>4, <3>5, <4>1
    <3> QED BY <3>6, <3>7
  <2>3. ASSUME overruns = 0
        PROVE  SumFunctionOnSet(texted, Recipients) <= Cardinality(Recipients) + mailerDeaths
    <3>1. SumFunctionOnSet(texted, Recipients) <= Cardinality(Reached) + mailerDeaths
      BY <2>3 DEF CampaignInv, AloneOK
    <3>2. /\ Cardinality(Reached) \in Nat /\ Cardinality(Reached) <= Cardinality(Recipients)
          /\ Cardinality(Recipients) \in Nat /\ SumFunctionOnSet(texted, Recipients) \in Int
      BY <2>1, ReachedFinite, TextsAreNumbers, CampaignAssumption, CountIsNat
    <3> QED BY <2>1, <3>1, <3>2
  <2>4. ASSUME campaign = "SENT", mailerDeaths + overruns = 0
        PROVE  \A r \in Recipients : message[r] \in {"SENT", "FAILED"}
    BY <2>4 DEF CampaignInv, FaultlessOK, Tried
  <2> QED BY <2>2, <2>3, <2>4 DEF MessagesRepeatOnlyByFaults
<1> QED BY <1>1, CampaignInductive, PTL

-------------------------------------------------------------------------------
(* The jobs side by side: each behaves as it does alone. *)

LEMMA EachAlone == BackgroundSpec => JobSpec /\ RolloutSpec /\ AddOnSpec /\ CampaignSpec
<1> DEFINE allVars == <<focus, vars, jobVars, rolloutVars, addOnVars, campaignVars>>
<1>1. BackgroundInit => JobInit /\ RolloutInit /\ AddOnInit /\ CampaignInit
  BY DEF BackgroundInit
<1>2. [BackgroundNext]_allVars => [JobNext]_jobVars
  BY DEF BackgroundNext, ScheduleTurn, JobTurn, RolloutTurn, AddOnTurn, CampaignTurn
<1>3. [BackgroundNext]_allVars => [RolloutNext]_rolloutVars
  BY DEF BackgroundNext, ScheduleTurn, JobTurn, RolloutTurn, AddOnTurn, CampaignTurn
<1>4. [BackgroundNext]_allVars => [AddOnNext]_addOnVars
  BY DEF BackgroundNext, ScheduleTurn, JobTurn, RolloutTurn, AddOnTurn, CampaignTurn
<1>5. [BackgroundNext]_allVars => [CampaignNext]_campaignVars
  BY DEF BackgroundNext, ScheduleTurn, JobTurn, RolloutTurn, AddOnTurn, CampaignTurn
<1> QED  BY <1>1, <1>2, <1>3, <1>4, <1>5, PTL DEF BackgroundSpec, JobSpec, RolloutSpec, AddOnSpec, CampaignSpec

\* Whichever of the worker's jobs runs, the tables it writes keep the values of their columns.
THEOREM BackgroundTyped == BackgroundSpec => []BackgroundTypeOK
<1>1. AddOnInv => AddOnTypeOK
  BY DEF AddOnInv
<1>2. CampaignInv => CampaignTypeOK
  BY DEF CampaignInv, MailingInv
<1>3. JobTypeOK /\ RolloutTypeOK /\ AddOnTypeOK /\ CampaignTypeOK => BackgroundTypeOK
  BY DEF BackgroundTypeOK
<1> QED  BY <1>1, <1>2, <1>3, EachAlone, JobTyped, RolloutTyped, AddOnInductive, CampaignInductive, PTL

===============================================================================
