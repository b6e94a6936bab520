----------------------------- MODULE DayRegister -----------------------------
(***************************************************************************)
(* What the canonical business_days of one shop promise, whoever asks and  *)
(* in whatever order: days follow one another, at most one is open, and a  *)
(* closed day is final.                                                    *)
(***************************************************************************)
CONSTANT Day
VARIABLE status

Init == status = [b \in Day |-> "NONE"]

StartDay(b) ==
  /\ status[b] = "NONE" /\ \A c \in Day : status[c] # "OPEN"
  /\ status' = [status EXCEPT ![b] = "OPEN"]
CloseDay(b) ==
  /\ status[b] = "OPEN"
  /\ status' = [status EXCEPT ![b] = "CLOSED"]

Spec == Init /\ [][\E b \in Day : StartDay(b) \/ CloseDay(b)]_status
=============================================================================
