--------------------------- MODULE MCColdCollection ---------------------------
(***************************************************************************)
(* ReceiverNavigation with a history of when each signal was tracked, to   *)
(* compare what a COLD receiver is given with what it could have heard.    *)
(***************************************************************************)
EXTENDS ReceiverNavigation, TLC

CONSTANTS f, a, b

VARIABLE heard   (* per signal: the instants since power-on it was tracked *)

MCScenarios == {[kind |-> "TTFF", mode |-> "COLD", on |-> 20, off |-> 2]}

MCTruthSchedule == <<[family |-> f, transmit |-> -3]>>

MCBroadcast ==
  a :> [family |-> f, cycle |-> 6, offset |-> 0,
        fragments |-> {[slot |-> 0, duration |-> 2], [slot |-> 2, duration |-> 2]}] @@
  b :> [family |-> f, cycle |-> 4, offset |-> -1,
        fragments |-> {[slot |-> 0, duration |-> 3]}]

HeardInit == Init /\ heard = [s \in Signals |-> {}]

HeardNext ==
  /\ Next
  /\ heard' = [s \in Signals |->
       IF s \in Tracking(trackers') THEN heard[s] \cup trackers'[s].start .. Now ELSE heard[s]]

HeardSpec == HeardInit /\ [][HeardNext]_<<vars, heard>>

(* Some whole transmission of a fragment of r fell into the tracked time.  *)
Heard(s, fragment, r) ==
  \E t \in heard[s] :
    /\ t >= Transmit(r)
    /\ FragmentCompletion(s, fragment, t) = t + fragment.duration
    /\ t .. (t + fragment.duration) \subseteq heard[s]

\* STARTUP_RECOVERY_MODEL.md, section 3: a COLD receiver's ephemeris becomes
\* available only after its required message fragments are collected.
FragmentsHeard ==
  \A r \in store :
    \E s \in Signals :
      /\ Broadcast[s].family = Family(r)
      /\ \A fragment \in Broadcast[s].fragments : Heard(s, fragment, r)
===============================================================================
