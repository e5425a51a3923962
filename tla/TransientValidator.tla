--------------------------- MODULE TransientValidator ---------------------------
(***************************************************************************)
(* The offline validator of transients: it reads the event truth, the      *)
(* observation truth and the serialized log of a run in one pass over the  *)
(* log and sums up outages, reacquisitions and fades.                      *)
(*                                                                         *)
(* Times are whole seconds on one axis (SimTime models the weeks).  An     *)
(* observation is a signal with its validity bits and lock time; its       *)
(* residuals are counted, not computed.  Matching goes by epoch and        *)
(* signal: a truth record is found or not.  The label is that of an REA    *)
(* run: with another one the outages and fades are left out.               *)
(***************************************************************************)
EXTENDS Integers, Sequences, FiniteSetsExt, SequencesExt

Never == 1000   (* numeric_limits max, as a time no run reaches              *)

Windows == {"early", "recovery", "settled"}

(* build_rea_cycles: an outage counts once its SIGNAL_ON was seen, and its *)
(* reacquisition lasts until the next SIGNAL_OFF.                          *)
EventStepMutant(s, event) ==
  CASE event.type = "SIGNAL_OFF" -> [s EXCEPT !.waiting = TRUE, !.off = event.time]
    [] event.type = "SIGNAL_ON" /\ s.waiting ->
         [s EXCEPT !.cycles = Append(@, [off |-> s.off, on |-> event.time, end |-> Never]), !.waiting = FALSE]
    [] OTHER -> s
EventStep(s, event) ==
  CASE event.type = "SIGNAL_OFF" ->
         LET last == Len(s.cycles) IN
         [cycles |-> [i \in DOMAIN s.cycles |->
                        IF i = last /\ s.cycles[i].end = Never THEN [s.cycles[i] EXCEPT !.end = event.time]
                        ELSE s.cycles[i]],
          waiting |-> TRUE, off |-> event.time]
    [] event.type = "SIGNAL_ON" /\ s.waiting ->
         [s EXCEPT !.cycles = Append(@, [off |-> s.off, on |-> event.time, end |-> Never]), !.waiting = FALSE]
    [] OTHER -> s
NoEvents == [cycles |-> << >>, waiting |-> FALSE, off |-> 0]
Cycles(events) == FoldLeft(EventStep, NoEvents, events).cycles

InSignalOff(time, cycles) == \E i \in DOMAIN cycles : cycles[i].off <= time /\ time < cycles[i].on

ActiveCycle(time, cycles) ==
  LET active == {i \in DOMAIN cycles : cycles[i].on <= time /\ time < cycles[i].end} IN
  IF active = {} THEN {} ELSE {Min(active)}

(* in_fade_window: the next SIGNAL_OFF is at most the duration away.       *)
InFade(time, events, fade) ==
  LET next == {i \in DOMAIN events : events[i].type = "SIGNAL_OFF" /\ events[i].time >= time} IN
  fade > 0 /\ next # {} /\ events[Min(next)].time - time <= fade

Window(elapsed) == CASE elapsed < 1 -> "early" [] elapsed \in {1, 2} -> "recovery" [] elapsed >= 3 -> "settled"

-----------------------------------------------------------------------------
(* The pass over the log.  "first" and "timing" are the first epochs with  *)
(* each kind of measurement, of the log and of each reacquisition.         *)
Kinds == {"psr", "doppler", "adr"}
NoFirst == [k \in Kinds |-> Never]

EmptySummary(cycles) ==
  [epochs |-> 0, parsed |-> 0, matched |-> 0, unmatched |-> 0, offEpochs |-> 0, offNonzero |-> 0,
   firstEpoch |-> Never, firstCn0 |-> Never, first |-> NoFirst,
   timing |-> [i \in DOMAIN cycles |-> NoFirst],
   lastBefore |-> [i \in DOMAIN cycles |-> -1], firstAfter |-> [i \in DOMAIN cycles |-> Never],
   lock |-> [w \in Windows |-> 0], fade |-> 0, reacquired |-> [w \in Windows |-> 0]]

(* The Doppler of a record counts where its truth was valid.               *)
Valid(observation, record, kind) == IF kind = "doppler" THEN record.doppler ELSE observation[kind]

Earliest(first, observation, record, time) ==
  [k \in Kinds |-> IF Valid(observation, record, k) THEN Min({first[k], time}) ELSE first[k]]

ObservationStep(s, time, observation, records, cycles, fades) ==
  IF records = {} THEN [s EXCEPT !.unmatched = @ + 1]
  ELSE
    LET record == CHOOSE r \in records : TRUE
        active == ActiveCycle(time, cycles) IN
    [s EXCEPT
       !.matched = @ + 1, !.firstCn0 = Min({@, time}), !.first = Earliest(@, observation, record, time),
       !.lock[Window(observation.lock)] = @ + 1,
       !.fade = @ + (IF fades THEN 1 ELSE 0),
       !.timing = [i \in DOMAIN cycles |-> IF i \in active THEN Earliest(@[i], observation, record, time) ELSE @[i]],
       !.reacquired = [w \in Windows |->
                         @[w] + Cardinality({i \in active : Window(time - cycles[i].on) = w})]]

EpochStep(s, epoch, truth, events, cycles, fade) ==
  LET t == epoch.time
      heard == epoch.observations # << >>
      counted ==
        [s EXCEPT
           !.epochs = @ + 1, !.parsed = @ + Len(epoch.observations), !.firstEpoch = Min({@, t}),
           !.lastBefore = [i \in DOMAIN cycles |-> IF heard /\ t < cycles[i].off THEN Max({@[i], t}) ELSE @[i]],
           !.firstAfter = [i \in DOMAIN cycles |->
                             IF heard /\ cycles[i].on <= t /\ t < cycles[i].end THEN Min({@[i], t}) ELSE @[i]],
           !.offEpochs = @ + (IF InSignalOff(t, cycles) THEN 1 ELSE 0),
           !.offNonzero = @ + (IF InSignalOff(t, cycles) /\ heard THEN 1 ELSE 0)]
  IN FoldLeft(LAMBDA acc, o : ObservationStep(acc, t, o, {r \in ToSet(truth) : r.time = t /\ r.signal = o.signal},
                                              cycles, InFade(t, events, fade)),
              counted, epoch.observations)

(* load_truth_observations, load_events: what is refused.                  *)
TruthAccepted(truth) ==
  /\ truth # << >>
  /\ \A j, k \in DOMAIN truth : truth[j].time = truth[k].time /\ truth[j].signal = truth[k].signal => j = k
SortedEvents(events) == SortSeq(events, LAMBDA a, b : a.time < b.time)

LogPass(log, truth, events, fade) ==
  LET sorted == SortedEvents(events)
      cycles == Cycles(sorted) IN
  FoldLeft(LAMBDA s, e : EpochStep(s, e, truth, sorted, cycles, fade), EmptySummary(cycles), log)

ValidationAccepted(log, truth, events, fade) ==
  TruthAccepted(truth) /\ LogPass(log, truth, events, fade).matched > 0

(* The first measurements against the first epoch; -1 stands for none.     *)
Delay(first, start) == IF first = Never \/ start = Never THEN -1 ELSE first - start

(* update_rea_timing: the longest delays, and the pairs of carrier-phase   *)
(* locks around each outage.                                               *)
Longest(delays) == Max({0} \cup delays)

LatestBefore(truth, signal, time) ==
  LET found == {r \in ToSet(truth) : r.signal = signal /\ r.adr /\ r.time < time} IN
  {r \in found : \A q \in found : q.time <= r.time}
FirstWithin(truth, signal, from, end) ==
  LET found == {i \in DOMAIN truth : truth[i].signal = signal /\ truth[i].adr /\ from <= truth[i].time /\ truth[i].time < end} IN
  IF found = {} THEN {} ELSE {truth[Min(found)]}

AmbiguityPairs(truth, cycle) ==
  UNION {LatestBefore(truth, s, cycle.off) \X FirstWithin(truth, s, cycle.on, cycle.end) :
           s \in {truth[i].signal : i \in DOMAIN truth}}
Changed(pair) ==
  pair[1].ambiguityEpoch # pair[2].ambiguityEpoch /\ pair[1].ambiguity # pair[2].ambiguity

Summary(log, truth, events, fade) ==
  LET s == LogPass(log, truth, events, fade)
      cycles == Cycles(SortedEvents(events))
      pairs == [i \in DOMAIN cycles |-> AmbiguityPairs(truth, cycles[i])] IN
  [counts |-> s, cycles |-> Len(cycles),
   firstDelay |-> [k \in Kinds |-> Delay(s.first[k], s.firstEpoch)],
   cn0Delay |-> Delay(s.firstCn0, s.firstEpoch),
   maxDelay |-> [k \in Kinds |->
                   Longest({s.timing[i][k] - cycles[i].on : i \in {i \in DOMAIN cycles : s.timing[i][k] # Never}})],
   maxGap |-> Longest({cycles[i].off - s.lastBefore[i] : i \in {i \in DOMAIN cycles : s.lastBefore[i] >= 0}}),
   maxReturn |-> Longest({s.firstAfter[i] - cycles[i].on : i \in {i \in DOMAIN cycles : s.firstAfter[i] # Never}}),
   checked |-> FoldLeft(LAMBDA n, p : n + Cardinality(p), 0, pairs),
   changed |-> FoldLeft(LAMBDA n, p : n + Cardinality({x \in p : Changed(x)}), 0, pairs)]

-----------------------------------------------------------------------------
(* References, straight from the events.                                   *)
EventTimes(events, type) == {events[i].time : i \in {i \in DOMAIN events : events[i].type = type}}

(* An outage is a SIGNAL_OFF and the SIGNAL_ON after it, with no other     *)
(* event of the signals between them.                                      *)
Outages(events) ==
  LET offs == EventTimes(events, "SIGNAL_OFF")
      ons == EventTimes(events, "SIGNAL_ON")
  IN {<<a, b>> \in offs \X ons : a < b /\ \A t \in offs \cup ons : ~(a < t /\ t < b)}

(* The time until the signals go off again.                                *)
OnUntil(events, on) == Min({Never} \cup {t \in EventTimes(events, "SIGNAL_OFF") : t > on})

(* The seconds that a window has of a lock or of a reacquisition.          *)
Spell == [early |-> 0..0, recovery |-> 1..2, settled |-> 3..Never]

SummaryIsTrue(log, truth, events, fade) ==
  LET summary == Summary(log, truth, events, fade)
      counts == summary.counts
      outages == Outages(events)
      Back(t) == {o \in outages : o[2] <= t /\ t < OnUntil(events, o[2])}
      places == UNION {{<<log[i].time, log[i].observations[j]>> : j \in DOMAIN log[i].observations} : i \in DOMAIN log}
      RecordOf(p) == {r \in ToSet(truth) : r.time = p[1] /\ r.signal = p[2].signal}
      matched == {p \in places : RecordOf(p) # {}}
      heard == {log[i].time : i \in {i \in DOMAIN log : log[i].observations # << >>}}
      ValidTimes(k, o) ==
        {p[1] : p \in {p \in matched : o \in Back(p[1]) /\ \E r \in RecordOf(p) : Valid(p[2], r, k)}}
      epochs == {log[i].time : i \in DOMAIN log}
      BackAt(o, times) == {t \in times : o \in Back(t)}
      SinceStart(times) == IF times = {} THEN -1 ELSE Min(times) - Min(epochs)
      phases == {r \in ToSet(truth) : r.adr}
      LastBefore(o, s) == {r \in phases : r.signal = s /\ r.time < o[1]
                                         /\ \A q \in phases : q.signal = s /\ q.time < o[1] => q.time <= r.time}
      FirstBack(o, s) == {r \in phases : r.signal = s /\ o \in Back(r.time)
                                        /\ \A q \in phases : q.signal = s /\ o \in Back(q.time) => r.time <= q.time}
      locks == {<<o, s>> \in outages \X {r.signal : r \in phases} : LastBefore(o, s) # {} /\ FirstBack(o, s) # {}}
      renewed == {l \in locks : \E r \in LastBefore(l[1], l[2]), q \in FirstBack(l[1], l[2]) :
                                  r.ambiguity # q.ambiguity /\ r.ambiguityEpoch # q.ambiguityEpoch}
      InOutage(times) == Cardinality({t \in times : \E o \in outages : o[1] <= t /\ t < o[2]})
  IN
  /\ summary.cycles = Cardinality(outages)
  /\ counts.offEpochs = InOutage(epochs) /\ counts.offNonzero = InOutage(heard)
  /\ counts.matched = Cardinality(matched) /\ counts.unmatched = Cardinality(places \ matched)
  /\ counts.parsed = counts.matched + counts.unmatched
  /\ \A w \in Windows :
       /\ counts.lock[w] = Cardinality({p \in matched : p[2].lock \in Spell[w]})
       /\ counts.reacquired[w] = Cardinality({p \in matched : \E o \in Back(p[1]) : p[1] - o[2] \in Spell[w]})
  /\ fade > 0 => counts.fade = Cardinality({p \in matched : EventTimes(events, "SIGNAL_OFF") \cap p[1]..(p[1] + fade) # {}})
  /\ \A k \in Kinds :
       summary.firstDelay[k] = SinceStart({p[1] : p \in {p \in matched : \E r \in RecordOf(p) : Valid(p[2], r, k)}})
  /\ summary.cn0Delay = SinceStart({p[1] : p \in matched})
  /\ \A k \in Kinds :
       summary.maxDelay[k] = Longest({Min(ValidTimes(k, o)) - o[2] : o \in {o \in outages : ValidTimes(k, o) # {}}})
  /\ summary.maxGap = Longest({o[1] - Max({t \in heard : t < o[1]}) : o \in {o \in outages : \E t \in heard : t < o[1]}})
  /\ summary.maxReturn = Longest({Min(BackAt(o, heard)) - o[2] : o \in {o \in outages : BackAt(o, heard) # {}}})
  /\ summary.checked = Cardinality(locks) /\ summary.changed = Cardinality(renewed)
===============================================================================
