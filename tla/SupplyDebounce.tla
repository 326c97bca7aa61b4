--------------------------- MODULE SupplyDebounce ---------------------------
(***************************************************************************)
(* What the supervision of the mains supply promises, without its          *)
(* counters: the supply is declared lost only at the end of a run of       *)
(* Debounce consecutive low samples, declared back only at the end of a    *)
(* run of Debounce consecutive high samples, and the listener is told of a *)
(* change in the step that makes it or never.                              *)
(***************************************************************************)
EXTENDS Naturals

CONSTANT Debounce       \* length of the run that confirms a change

VARIABLES supply,       \* what is known of the mains
          below,        \* length of the current run of low samples, at most Debounce
          above,        \* length of the current run of high samples, at most Debounce
          told          \* the last change the listener was told of

vars == <<supply, below, above, told>>

Grow(run) == IF run < Debounce THEN run + 1 ELSE Debounce

Init == /\ supply = "UNKNOWN"
        /\ below = 0
        /\ above = 0
        /\ told = "NONE"

Measure(kind) ==
  /\ below' = IF kind = "low" THEN Grow(below) ELSE 0
  /\ above' = IF kind = "high" THEN Grow(above) ELSE 0

(* The first sample outside the band decides; on the band's edges either   *)
(* reading is acceptable.                                                  *)
Learn(kind) ==
  /\ supply = "UNKNOWN"
  /\ supply' \in CASE kind = "low" -> {"MAIN_LOST"}
                   [] kind = "high" -> {"MAIN_OK"}
                   [] OTHER -> {"UNKNOWN", "MAIN_OK", "MAIN_LOST"}
  /\ UNCHANGED told

Change(from, to, run, event) ==
  /\ supply = from
  /\ IF run = Debounce
       THEN supply' = to /\ told' \in {told, event}
       ELSE UNCHANGED <<supply, told>>

Sample ==
  \E kind \in {"low", "band", "high"} :
     /\ Measure(kind)
     /\ \/ Learn(kind)
        \/ Change("MAIN_OK", "MAIN_LOST", below', "MAIN_LOST")
        \/ Change("MAIN_LOST", "MAIN_OK", above', "MAIN_RESTORED")

Next == Sample

Spec == Init /\ [][Next]_vars
=============================================================================
