---------------------------- MODULE CodeTrackingDll ----------------------------
(***************************************************************************)
(* The roots of the code discriminator and the one a tracker follows.      *)
(*                                                                         *)
(* A discriminator profile is the sequence of the scan's samples, as       *)
(* integers; a sample within the zero tolerance is 0.  Code phases are     *)
(* counted in half scan steps, and the bisection is abstracted to the      *)
(* middle of its bracket.  The prompt power at a phase comes from the      *)
(* composite correlation and is a parameter.                               *)
(***************************************************************************)
EXTENDS Integers, Sequences, SequencesExt

CONSTANT
  MaxRoots   (* kMaxCodeTrackingDllRoots *)

ASSUME MaxRootsAssumption == MaxRoots \in Nat \ {0}

SelectionModes == {"TRACKED", "ACQUISITION"}

Roots == [phase : Int, power : Nat, stable : BOOLEAN]

(* Marks "no valid root": a selected root is always stable. *)
NoRoot == [phase |-> 0, power |-> 0, stable |-> FALSE]

-----------------------------------------------------------------------------
(* The scan keeps the last sample that was not zero, and brackets a root   *)
(* whenever the next one has the other sign.  A root is stable when the    *)
(* discriminator rises through it; the code probes the slope close to the  *)
(* root, which here is the rise from sample to sample.  Roots closer than  *)
(* a tolerance count once; those of two brackets of this grid never are.   *)
OppositeSigns(a, b) == (a < 0 /\ b > 0) \/ (a > 0 /\ b < 0)

RootBetween(profile, powerAt, left, right) ==
  [phase  |-> left + right, power |-> powerAt[left + right],
   stable |-> profile[right] > profile[left]]

ScanSample(profile, powerAt, scan, i) ==
  CASE profile[i] = 0 -> scan
    [] profile[i] # 0 /\ scan.last # 0 /\ OppositeSigns(profile[scan.last], profile[i]) ->
         [last |-> i, roots |-> Append(scan.roots, RootBetween(profile, powerAt, scan.last, i))]
    [] OTHER -> [scan EXCEPT !.last = i]

FindRoots(profile, powerAt) ==
  LET Sample(scan, i) == ScanSample(profile, powerAt, scan, i)
  IN  FoldLeft(Sample, [last |-> 0, roots |-> << >>], [i \in DOMAIN profile |-> i]).roots

(* No root at all, or more than the buffer holds, is an error.  (The one   *)
(* physical case without a root, exact cancellation of all the paths, is   *)
(* recognised before the scan and gives an empty list instead.)            *)
FindRootsFails(roots) == roots = << >> \/ Len(roots) > MaxRoots

-----------------------------------------------------------------------------
(* Preference between two stable roots: a tracker stays close to the code  *)
(* phase it follows, an acquisition takes the strongest.                   *)
Distance(a, b) == IF a >= b THEN a - b ELSE b - a

PreferTracked(candidate, current, previous) ==
  LET dc == Distance(candidate.phase, previous)
      dk == Distance(current.phase, previous)
  IN  \/ dc < dk
      \/ dc = dk /\ candidate.power > current.power
      \/ dc = dk /\ candidate.power = current.power /\ candidate.phase < current.phase

PreferAcquisition(candidate, current) ==
  LET dc == Distance(candidate.phase, 0)
      dk == Distance(current.phase, 0)
  IN  \/ candidate.power > current.power
      \/ candidate.power = current.power /\ dc < dk
      \/ candidate.power = current.power /\ dc = dk /\ candidate.phase < current.phase

Prefer(mode, candidate, current, previous) ==
  CASE mode = "TRACKED"     -> PreferTracked(candidate, current, previous)
    [] mode = "ACQUISITION" -> PreferAcquisition(candidate, current)

(* select_code_tracking_dll_root: one pass over the list; 0 when it holds  *)
(* no stable root.                                                         *)
BetterRootMutant(roots, mode, previous, selected, i) ==
  IF selected = 0 \/ Prefer(mode, roots[i], roots[selected], previous) THEN i ELSE selected
BetterRoot(roots, mode, previous, selected, i) ==
  CASE ~roots[i].stable -> selected
    [] roots[i].stable /\ selected = 0 -> i
    [] roots[i].stable /\ selected # 0 ->
         IF Prefer(mode, roots[i], roots[selected], previous) THEN i ELSE selected

SelectRoot(roots, mode, previous) ==
  LET selected[n \in 0 .. Len(roots)] ==
        IF n = 0 THEN 0 ELSE BetterRoot(roots, mode, previous, selected[n - 1], n)
  IN  selected[Len(roots)]

HasStableRoot(roots) == \E i \in DOMAIN roots : roots[i].stable
===============================================================================
